------------------------------- MODULE Channel -------------------------------
(***************************************************************************)
(* The message channels of the kernel (mq_open, mq_unlink, mq_send and     *)
(* mq_receive of src/kernel/kernel.c) on top of the process table, with    *)
(* the library calls msgsend and msgreceive (src/user/libc.c), which       *)
(* repeat the system call until it no longer returns -1.                   *)
(*                                                                         *)
(* The programs are arbitrary: whenever a loaded program runs it may open, *)
(* unlink, send to or receive from any channel, or end.                    *)
(***************************************************************************)
EXTENDS Process

CONSTANTS
  MSGCHAN_LIMIT,  \* channels that can be open at once, 32 in mqueue.h
  Names,          \* the channel names that programs use
  Values          \* the messages that programs send

ASSUME ChannelAssumption ==
  /\ MSGCHAN_LIMIT \in Nat \ {0}
  /\ Names \subseteq Nat \ {0}

Chans == 0..(MSGCHAN_LIMIT - 1)

VARIABLES
  mq,    \* the channel table; buf also records who put the message there (auxiliary)
  pend   \* per process, the library call that is being repeated

chanVars == <<procVars, mq, pend>>

NoCall    == [op |-> "none", d |-> 0, v |-> 0]
Call(o, d, v) == [op |-> o, d |-> d, v |-> v]
Calls     == {NoCall} \cup [op : {"send"}, d : Chans, v : Values]
                      \cup [op : {"receive"}, d : Chans, v : {0}]
Unused    == [qname |-> 0, qnum |-> 0, qrec |-> 0, lspid |-> 0, lrpid |-> 0,
              buf |-> [by |-> 0, v |-> 0]]

ChanInit ==
  /\ Init
  /\ mq   = [c \in Chans |-> Unused]
  /\ pend = [p \in Pids |-> NoCall]

-----------------------------------------------------------------------------
(* kill( p, SIGWAIT ) and kill( p, SIGCONT ), on process states st. *)

SigWait(st, p) == [st EXCEPT ![p] = "WAITING"]

\* Mutant of SigCont: the state of the process is not tested
SigContUnguarded(st, p) == [st EXCEPT ![p] = "EXECUTING"]

SigCont(st, p) == IF st[p] = "WAITING" THEN [st EXCEPT ![p] = "EXECUTING"] ELSE st

\* The system call returns to its caller
Return(st) ==
  /\ pst' = st
  /\ UNCHANGED <<defp, prio, ctx, rq, current, cpu, fault, fresh>>

\* Mutant of Reschedule: the handler does not call the scheduler
RescheduleMissing(st) == Return(st)

\* The system call returns -1, and the handler calls the scheduler first
Reschedule(st) ==
  /\ pst' = st
  /\ Scheduler(st, rq, prio, defp, cpu)
  /\ UNCHANGED defp

\* A program outside a repeated call may do anything, inside one only repeat it
MayCall(call) == cpu = "user" /\ pend[current] \in {NoCall, call}

-----------------------------------------------------------------------------
Named(name) == {c \in Chans : mq[c].qname = name}

\* Mutant of Descriptor: one loop that takes the first slot that is free or has the name
DescriptorOneLoop(name) ==
  IF Named(name) \cup Named(0) = {} THEN -1 ELSE Min(Named(name) \cup Named(0))

\* The descriptor mq_open returns: the open channel of that name, else a free slot
Descriptor(name) ==
  CASE Named(name) # {} -> Min(Named(name))
    [] Named(name) = {} /\ Named(0) # {} -> Min(Named(0))
    [] OTHER -> -1

\* The channel table that mq_open( name ) leaves
Opened(name) ==
  IF Named(name) # {} \/ Named(0) = {} THEN mq
  ELSE [mq EXCEPT ![Descriptor(name)] = [@ EXCEPT !.qname = name, !.qnum = 0, !.qrec = 0,
                                                  !.lspid = 0, !.lrpid = 0]]

MqOpen(name) ==
  /\ MayCall(NoCall)
  /\ mq' = Opened(name)
  /\ Return(pst)
  /\ UNCHANGED pend

\* Mutant of MqUnlink: the name stays
MqUnlinkNothing(d) == MayCall(NoCall) /\ Return(pst) /\ UNCHANGED <<mq, pend>>

\* mq_unlink forgets the name and leaves the rest of the entry
MqUnlink(d) ==
  /\ MayCall(NoCall)
  /\ mq' = [mq EXCEPT ![d].qname = 0]
  /\ Return(pst)
  /\ UNCHANGED pend

\* Mutant of SendOk: a waiting receiver is not woken
SendOkNoWake(d, v) ==
  /\ MayCall(Call("send", d, v))
  /\ mq[d].qnum = 0
  /\ mq' = [mq EXCEPT ![d] = [@ EXCEPT !.lspid = current, !.qnum = 1, !.qrec = 0,
                                       !.buf = [by |-> current, v |-> v]]]
  /\ Return(SigWait(pst, current))
  /\ pend' = [pend EXCEPT ![current] = NoCall]

\* mq_send into an empty channel: the sender is marked WAITING and goes on running
SendOk(d, v) ==
  LET slept == SigWait(pst, current) IN
  /\ MayCall(Call("send", d, v))
  /\ mq[d].qnum = 0
  /\ mq' = [mq EXCEPT ![d] = [@ EXCEPT !.lspid = current, !.qnum = 1, !.qrec = 0,
                                       !.buf = [by |-> current, v |-> v]]]
  /\ Return(IF mq[d].qrec = 1 THEN SigCont(slept, mq[d].lrpid) ELSE slept)
  /\ pend' = [pend EXCEPT ![current] = NoCall]

\* mq_send into a full channel
SendBlocks(d, v) ==
  /\ MayCall(Call("send", d, v))
  /\ mq[d].qnum # 0
  /\ mq' = [mq EXCEPT ![d].lspid = current]
  /\ Reschedule(SigWait(pst, current))
  /\ pend' = [pend EXCEPT ![current] = Call("send", d, v)]

\* Mutant of CanReceive: a process may take the message it has sent itself
CanReceiveOwn(d) == mq[d].qnum > 0

CanReceive(d) == mq[d].qnum > 0 /\ mq[d].lspid # current

ReceiveOk(d) ==
  /\ MayCall(Call("receive", d, 0))
  /\ CanReceive(d)
  /\ mq' = [mq EXCEPT ![d] = [@ EXCEPT !.lrpid = current, !.qnum = mq[d].qnum - 1]]
  /\ Return(SigCont(pst, mq[d].lspid))
  /\ pend' = [pend EXCEPT ![current] = NoCall]

ReceiveBlocks(d) ==
  /\ MayCall(Call("receive", d, 0))
  /\ ~CanReceive(d)
  /\ mq' = [mq EXCEPT ![d] = [@ EXCEPT !.lrpid = current, !.qrec = 1]]
  /\ Reschedule(SigWait(pst, current))
  /\ pend' = [pend EXCEPT ![current] = Call("receive", d, 0)]

\* mq_send and mq_receive do not check their descriptor (mq_open gives -1 when all
\* channels are in use) and mq_unlink lets MSGCHAN_LIMIT through: each of them
\* then writes outside the table
BadDescriptor ==
  /\ MayCall(NoCall)
  /\ fault' = "bounds"
  /\ UNCHANGED <<pst, defp, prio, ctx, rq, current, cpu, fresh, mq, pend>>

-----------------------------------------------------------------------------
\* A new program starts outside any library call
Load == (\E pr \in ExecPrio : Exec(pr)) /\ pend' = [pend EXCEPT ![current] = NoCall]

Program ==
  \/ \E n \in Names : MqOpen(n)
  \/ \E d \in Chans : MqUnlink(d) \/ ReceiveOk(d) \/ ReceiveBlocks(d)
  \/ \E d \in Chans, v \in Values : SendOk(d, v) \/ SendBlocks(d, v)
  \/ BadDescriptor
  \/ MayCall(NoCall) /\ ProgramExit /\ UNCHANGED <<mq, pend>>

ChanNext ==
  \/ fault = "none" /\ (Shell \/ Interrupt) /\ UNCHANGED <<nine, mq, pend>>
  \/ fault = "none" /\ KillNine /\ UNCHANGED <<mq, pend>>
  \/ fault = "none" /\ Load /\ UNCHANGED <<nine, mq>>
  \/ fault = "none" /\ Program /\ UNCHANGED nine
  \/ Halted /\ UNCHANGED <<mq, pend>>

ChanSpec == ChanInit /\ [][ChanNext]_chanVars

-----------------------------------------------------------------------------
(* Properties. *)

\* Every variable has its type; a channel holds at most one message.
ChanTypeOK ==
  /\ TypeOK
  /\ mq \in [Chans -> [qname : Names \cup {0}, qnum : {0, 1}, qrec : {0, 1},
                        lspid : Pids, lrpid : Pids,
                        buf : [by : Pids, v : Values \cup {0}]]]
  /\ pend \in [Pids -> Calls]

\* No two open channels have the same name, however opens and unlinks interleave:
\* two programs that open the same name always meet.
UniqueNames ==
  \A c, d \in Chans : (mq[c].qname = mq[d].qname /\ mq[c].qname # 0) => c = d

\* A wakeup aimed at a process that was killed in the meantime (msg_lspid and
\* msg_lrpid are never cleaned up) does not bring the process back: only fork
\* takes a slot out of TERMINATED.
NoResurrection ==
  [][\A p \in Pids : (pst[p] = "TERMINATED" /\ pst'[p] # "TERMINATED") => p \in fresh']_chanVars

\* "Programs waiting for channel responses will not be scheduled": a process
\* whose send or receive has found nothing to do does not run until somebody
\* has woken it.  The tables have their types, a channel at most one message.
BlockedDoesNotRun ==
  /\ ChanTypeOK
  /\ \A p \in Pids : (pend[p] # NoCall /\ pst[p] = "WAITING" /\ fault = "none") => current # p

\* rq_rotate, which goes round the ready queue until it meets a process that can run,
\* never returns only when all that is left are programs that wait for a channel, unless
\* "kill 9" was used: programs that wait for each other, and kills of programs that
\* others wait for, do not hang the kernel while there is a shell.
HangsOnlyWithoutShell ==
  fault = "rotate" /\ ~nine =>
    \A p \in Pids : pst[p] = "TERMINATED" \/ (pst[p] = "WAITING" /\ ContextOf(p) = "user")
=============================================================================
