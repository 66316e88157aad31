------------------------------ MODULE PingPong ------------------------------
(***************************************************************************)
(* The two programs of src/user/ping.c and src/user/pong.c, which talk     *)
(* over the kernel's channels: in round k both open channel k, ping sends  *)
(* N messages and pong receives them, then pong sends N and ping receives  *)
(* them, and ping unlinks the channel.  The user starts each of them once, *)
(* in either order and at any time, and types other commands; nothing is   *)
(* killed and the shell does not quit.                                     *)
(***************************************************************************)
EXTENDS Channel

CONSTANTS
  N,         \* messages each way in a round, 25 in the code
  NAME_MOD   \* number of different values of the channel name k, 2^32 in the code

\* A round and the next one have different names, and pong may open the next channel
\* before ping has unlinked the last one
ASSUME PingPongAssumption ==
  /\ N \in Nat \ {0}
  /\ NAME_MOD \in Nat \ {0, 1}
  /\ MSGCHAN_LIMIT >= 2
  /\ Names = 1..NAME_MOD
  /\ Values = 1..(2 * N)

VARIABLE loc   \* per process: its program, where it is, the loop counter i, k and m

ppVars == <<chanVars, loc>>

Roles   == {"ping", "pong"}
Idle    == [prog |-> "none", at |-> "open", i |-> 0, k |-> 1, m |-> -1]
Running == {loc[p].prog : p \in Pids} \cap Roles

\* The message a program sends in iteration i, so that each has its own number
Message(prog, i) == IF prog = "ping" THEN i + 1 ELSE N + i + 1
Other(prog)      == IF prog = "ping" THEN "pong" ELSE "ping"

\* What a program does after opening the channel, and after its N sends and receives
First(prog) == IF prog = "ping" THEN "send" ELSE "receive"
After(prog, at) ==
  CASE at = "send"    -> IF prog = "ping" THEN "receive" ELSE "open"
    [] at = "receive" -> IF prog = "ping" THEN "unlink"  ELSE "send"
    [] at = "unlink"  -> "open"

\* The loop counter advances; after the last iteration the program goes on, and
\* k is incremented when that begins a new round
Advance(l) ==
  IF l.at # "unlink" /\ l.i + 1 < N THEN [l EXCEPT !.i = @ + 1]
  ELSE LET next == After(l.prog, l.at) IN
       [l EXCEPT !.i = 0, !.at = next, !.k = IF next = "open" THEN (@ % NAME_MOD) + 1 ELSE @]

-----------------------------------------------------------------------------
PPInit == ChanInit /\ loc = [p \in Pids |-> Idle]

Here    == loc[current]
Go(l)   == loc' = [loc EXCEPT ![current] = l]
At(lab) == Here.prog \in Roles /\ Here.at = lab

\* exec of "ping" or of "pong"
Start(prog) ==
  /\ prog \notin Running
  /\ Load
  /\ Go([Idle EXCEPT !.prog = prog])
  /\ UNCHANGED mq

Open ==
  /\ At("open")
  /\ MqOpen(Here.k)
  /\ Go([Here EXCEPT !.m = Descriptor(Here.k), !.at = First(Here.prog)])

Send ==
  /\ At("send")
  /\ LET v == Message(Here.prog, Here.i) IN
       \/ SendOk(Here.m, v) /\ Go(Advance(Here))
       \/ SendBlocks(Here.m, v) /\ UNCHANGED loc

Receive ==
  /\ At("receive")
  /\ \/ ReceiveOk(Here.m) /\ Go(Advance(Here))
     \/ ReceiveBlocks(Here.m) /\ UNCHANGED loc

Unlink ==
  /\ At("unlink")
  /\ MqUnlink(Here.m)
  /\ Go(Advance(Here))

\* The commands of the shell; "run" is typed once for each program
Typing ==
  /\ \/ EnterRead \/ OtherCommand \/ RaisePri0 \/ Yield
     \/ Fork /\ \A p \in Pids \ {0} : pst[p] # "TERMINATED" => loc[p].prog \in Roles
  /\ UNCHANGED <<mq, pend, loc>>

Run == Typing \/ (\E prog \in Roles : Start(prog)) \/ Open \/ Send \/ Receive \/ Unlink

PPNext ==
  \/ fault = "none" /\ Run /\ UNCHANGED nine
  \/ fault = "none" /\ Interrupt /\ UNCHANGED <<nine, mq, pend, loc>>

\* Ticks keep coming; and between two ticks the running program executes many
\* instructions, so a program that runs again and again gets on with its code.
\* For the shell this says that the user types another line in the end.
PPSpec ==
  /\ PPInit /\ [][PPNext]_ppVars
  /\ WF_ppVars(fault = "none" /\ TimerIrq /\ UNCHANGED <<nine, mq, pend, loc>>)
  /\ \A p \in Pids : SF_ppVars(fault = "none" /\ current = p /\ Run /\ UNCHANGED nine)

-----------------------------------------------------------------------------
(* Properties. *)

\* Whenever a program is about to take a message out of its channel, it is the
\* one that the other program sent in the same iteration: although a sender may
\* run on before its message is taken and both programs are woken and repeat
\* their calls, nothing is lost, duplicated, reordered or received by its sender.
InLockstep ==
  (cpu = "user" /\ At("receive") /\ CanReceive(Here.m)) =>
     mq[Here.m].buf.v = Message(Other(Here.prog), Here.i)

\* The channels of a round are released in time: pong opens the next round before
\* ping has unlinked the last one, and still two slots are enough for ever.
ChannelAvailable ==
  \A p \in Pids : loc[p].at \in {"send", "receive", "unlink"} => loc[p].m \in Chans

\* The two programs use the same slot while they are in the same round, and are
\* never more than one round apart; a name never has two slots.
SameChannel ==
  /\ UniqueNames
  /\ \A p, q \in Pids :
    (loc[p].prog = "ping" /\ loc[q].prog = "pong" /\ loc[p].at # "open" /\ loc[q].at # "open")
      => /\ loc[p].k = loc[q].k => loc[p].m = loc[q].m
         /\ loc[q].k \in {loc[p].k, (loc[p].k % NAME_MOD) + 1}

\* Once both programs run, round after round completes: the wakeups are never lost
\* when a channel has one sender and one receiver.
RoundsComplete ==
  (Running = Roles) ~> (\E p \in Pids : loc[p].prog = "ping" /\ loc[p].at = "unlink")
=============================================================================
