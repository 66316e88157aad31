--------------------------- MODULE PingPongProofs ---------------------------
(***************************************************************************)
(* Proofs about the two programs of module PingPong, for every number of   *)
(* messages in a round, of channel names and of channels and for every     *)
(* size of the process table, on top of the invariant of the channels      *)
(* (ChannelProofs).                                                        *)
(*                                                                         *)
(* A program that has not been started stands where it would start, so     *)
(* that the argument always speaks of one ping and one pong.               *)
(***************************************************************************)
EXTENDS PingPong, ChannelProofs, WellFoundedInduction

-----------------------------------------------------------------------------
(* The programs. *)

Labels == {"open", "send", "receive", "unlink"}

\* Where a program can be
LocOf(r) == [prog : {r}, at : Labels, i : 0..(N - 1), k : Names, m : Chans \cup {-1}]

Placed(l, r) ==
  /\ l \in LocOf(r)
  /\ l.at \in {"open", "unlink"} => l.i = 0
  /\ l.at = "unlink" => r = "ping"

Start0(r) == [prog |-> r, at |-> "open", i |-> 0, k |-> 1, m |-> -1]

\* The place of the program r
Where(r) == {loc[p] : p \in {x \in Pids : loc[x].prog = r}} \cup
            (IF r \in Running THEN {} ELSE {Start0(r)})

\* Every process runs one of the programs, each of them once, or none.
Cast ==
  /\ \A p \in Pids : \/ loc[p] = Idle
                     \/ \E r \in Roles : Placed(loc[p], r)
  /\ loc = [p \in Pids |-> loc[p]]
  /\ \A p, q \in Pids : (loc[p].prog = loc[q].prog /\ loc[p].prog \in Roles) => p = q

\* A process that has not loaded its program yet runs none.
NotYet ==
  /\ cpu = "child" => loc[current].prog = "none"
  /\ \A p \in Pids : /\ p # current /\ ctx[p] = "child" => loc[p].prog = "none"
                     /\ pst[p] = "TERMINATED" => loc[p].prog = "none"

-----------------------------------------------------------------------------
(***************************************************************************)
(* The protocol.  Pos counts the messages that a program has sent or       *)
(* received in its round.                                                  *)
(***************************************************************************)

Pos(l) ==
  CASE l.at = "open"    -> 0
    [] l.at = "send"    -> IF l.prog = "ping" THEN l.i ELSE N + l.i
    [] l.at = "receive" -> IF l.prog = "ping" THEN N + l.i ELSE l.i
    [] l.at = "unlink"  -> 2 * N

\* First ping is ahead, by one message at most, and then pong.
Close(a, b) ==
  \/ a <= N /\ b <= N /\ a - b \in {0, 1}
  \/ a >= N /\ b >= N /\ b - a \in {0, 1}

\* Channel c holds the message by which one program is ahead, and knows its sender.
Carries(c, a, b) ==
  /\ a = b => mq[c].qnum = 0
  /\ a = b + 1 => mq[c].qnum = 1 /\ mq[c].buf.v = a /\ loc[mq[c].lspid].prog = "ping"
  /\ b = a + 1 => mq[c].qnum = 1 /\ mq[c].buf.v = b /\ loc[mq[c].lspid].prog = "pong"

\* A program that has opened its channel has one of that name.
Holds(l) == l.at # "open" => l.m \in Chans /\ mq[l.m].qname = l.k

\* Nobody else has left a channel open.
OnlyTheirs(P, Q) ==
  \A c \in Chans : mq[c].qname # 0 => \/ P.at # "open" /\ c = P.m
                                      \/ Q.at # "open" /\ c = Q.m

SameRound(P, Q) ==
  /\ P.k = Q.k
  /\ Close(Pos(P), Pos(Q))
  /\ P.at # "open" => Carries(P.m, Pos(P), Pos(Q))
  /\ Q.at # "open" => Carries(Q.m, Pos(P), Pos(Q))
  /\ (P.at # "open" /\ Q.at # "open") => P.m = Q.m

\* Pong has sent its last message and may have opened the next channel, where it
\* waits, while ping still has to take that message or to unlink.
OneAhead(P, Q) ==
  /\ Q.k = (P.k % NAME_MOD) + 1
  /\ Pos(Q) = 0
  /\ Pos(P) \in {2 * N - 1, 2 * N}
  /\ Carries(P.m, Pos(P), 2 * N)
  /\ Q.at # "open" => Q.m # P.m /\ mq[Q.m].qnum = 0

Proto(P, Q) ==
  /\ Placed(P, "ping") /\ Placed(Q, "pong")
  /\ Holds(P) /\ Holds(Q) /\ OnlyTheirs(P, Q)
  /\ SameRound(P, Q) \/ OneAhead(P, Q)

Protocol == \A P \in Where("ping"), Q \in Where("pong") : Proto(P, Q)

PInv == nine = FALSE /\ CInv /\ Cast /\ NotYet /\ Protocol

-----------------------------------------------------------------------------
(* Facts about the operators. *)

\* The name of the next round is another name.
LEMMA NextName ==
  ASSUME NEW k \in Names
  PROVE  (k % NAME_MOD) + 1 \in Names /\ (k % NAME_MOD) + 1 # k
<1>1. ASSUME NEW M \in Nat \ {0, 1}, NEW x \in 1..M
      PROVE  (x % M) + 1 \in 1..M /\ (x % M) + 1 # x
  OBVIOUS
<1> QED BY <1>1, PingPongAssumption

\* The places of the two programs.
LEMMA PosFacts ==
  ASSUME NEW r \in Roles, NEW l, Placed(l, r)
  PROVE  /\ l.prog = r /\ l.at \in Labels /\ l.i \in 0..(N - 1) /\ l.k \in Names
         /\ l.m \in Chans \cup {-1} /\ Pos(l) \in 0..(2 * N)
         /\ l.at = "open" => Pos(l) = 0
         /\ l.at = "unlink" => r = "ping" /\ Pos(l) = 2 * N
         /\ l.at = "send" => Pos(l) = IF r = "ping" THEN l.i ELSE N + l.i
         /\ l.at = "receive" => Pos(l) = IF r = "ping" THEN N + l.i ELSE l.i
BY PingPongAssumption DEF Placed, LocOf, Pos, Labels, Roles

\* The message of an iteration, counted as Pos does.
LEMMA MessageFacts ==
  ASSUME NEW r \in Roles, NEW l, Placed(l, r), l.at = "send"
  PROVE  Message(r, l.i) = Pos(l) + 1 /\ Message(r, l.i) \in Values
<1>1. N \in Nat \ {0} /\ Values = 1..(2 * N)
  BY PingPongAssumption
<1>2. l.i \in 0..(N - 1) /\ Pos(l) = IF r = "ping" THEN l.i ELSE N + l.i
  BY PosFacts
<1> QED BY <1>1, <1>2 DEF Message

\* One iteration further.
LEMMA AdvanceFacts ==
  ASSUME NEW r \in Roles, NEW l, Placed(l, r), l.at \in {"send", "receive"}
  PROVE  /\ Placed(Advance(l), r) /\ Advance(l).m = l.m
         /\ \/ /\ Advance(l).at # "open" /\ Advance(l).k = l.k /\ Pos(Advance(l)) = Pos(l) + 1
            \/ /\ r = "pong" /\ Pos(l) + 1 = 2 * N
               /\ Advance(l).at = "open" /\ Advance(l).k = (l.k % NAME_MOD) + 1
<1>0. N \in Nat \ {0}
  BY PingPongAssumption
<1>1. /\ l.prog = r /\ l.i \in 0..(N - 1) /\ l.k \in Names /\ l.m \in Chans \cup {-1}
      /\ l = [prog |-> r, at |-> l.at, i |-> l.i, k |-> l.k, m |-> l.m]
  BY DEF Placed, LocOf
<1>2. PICK u : u = Advance(l) OBVIOUS
<1>3. CASE l.i + 1 < N
  <2>1. u = [prog |-> r, at |-> l.at, i |-> l.i + 1, k |-> l.k, m |-> l.m]
    BY <1>0, <1>1, <1>2, <1>3 DEF Advance
  <2>2. Placed(u, r)
    BY <1>0, <1>1, <1>3, <2>1 DEF Placed, LocOf, Labels
  <2>3. Pos(u) = Pos(l) + 1
    BY <1>0, <1>1, <2>1 DEF Pos
  <2> QED BY <1>2, <2>1, <2>2, <2>3
<1>4. CASE ~(l.i + 1 < N)
  <2>1. l.i = N - 1
    BY <1>0, <1>1, <1>4
  <2>2. PICK next : next = After(r, l.at) OBVIOUS
  <2>3. u = [prog |-> r, at |-> next, i |-> 0,
             k |-> IF next = "open" THEN (l.k % NAME_MOD) + 1 ELSE l.k, m |-> l.m]
    BY <1>1, <1>2, <1>4, <2>2 DEF Advance
  <2>4. /\ (r = "ping" /\ l.at = "send") => next = "receive"
        /\ (r = "ping" /\ l.at = "receive") => next = "unlink"
        /\ (r = "pong" /\ l.at = "receive") => next = "send"
        /\ (r = "pong" /\ l.at = "send") => next = "open"
    BY <2>2 DEF After
  <2>5. u.k \in Names
    BY <1>1, <2>3, NextName
  <2>6. next \in Labels /\ (next = "unlink" => r = "ping")
    BY <2>4 DEF Labels, Roles
  <2>7. u.k \in Names /\ u.i = 0 /\ u.prog = r /\ u.at = next /\ u.m = l.m
        /\ u = [prog |-> u.prog, at |-> u.at, i |-> u.i, k |-> u.k, m |-> u.m]
    BY <2>3, <2>5
  <2>8. Placed(u, r)
    BY <1>0, <1>1, <2>6, <2>7 DEF Placed, LocOf
  <2>9. next # "open" => Pos(u) = Pos(l) + 1
    BY <1>0, <1>1, <2>1, <2>4, <2>7 DEF Pos, Roles
  <2>10. next = "open" => r = "pong" /\ Pos(l) + 1 = 2 * N
    BY <1>0, <1>1, <2>1, <2>4 DEF Pos, Roles
  <2> QED BY <1>2, <2>3, <2>7, <2>8, <2>9, <2>10
<1> QED BY <1>3, <1>4

\* The end of ping's round.
LEMMA UnlinkFacts ==
  ASSUME NEW l, Placed(l, "ping"), l.at = "unlink"
  PROVE  /\ Placed(Advance(l), "ping") /\ Advance(l).at = "open"
         /\ Advance(l).k = (l.k % NAME_MOD) + 1
<1>1. /\ l.prog = "ping" /\ l.k \in Names /\ l.m \in Chans \cup {-1}
      /\ l = [prog |-> "ping", at |-> "unlink", i |-> l.i, k |-> l.k, m |-> l.m]
  BY DEF Placed, LocOf
<1>2. PICK k : k = (l.k % NAME_MOD) + 1 OBVIOUS
<1>3. Advance(l) = [prog |-> "ping", at |-> "open", i |-> 0, k |-> k, m |-> l.m]
  BY <1>1, <1>2 DEF Advance, After
<1>4. k \in Names /\ 0 \in 0..(N - 1)
  BY <1>1, <1>2, NextName, PingPongAssumption
<1> QED BY <1>1, <1>2, <1>3, <1>4 DEF Placed, LocOf, Labels

\* A set of channels that is not empty has a lowest one.
LEMMA LowestChannel ==
  ASSUME NEW S, S \subseteq Chans, S # {}
  PROVE  Min(S) \in S
<1>1. S \subseteq Nat
  BY ChannelAssumption DEF Chans
<1>2. ASSUME NEW x \in Nat, NEW y \in Nat, x < y
      PROVE  <<x, y>> \in OpToRel(<, Nat)
  <2>1. <<x, y>> \in Nat \X Nat /\ <<x, y>>[1] = x /\ <<x, y>>[2] = y
    OBVIOUS
  <2>2. <<x, y>>[1] < <<x, y>>[2]
    BY <1>2
  <2> QED BY <2>1, <2>2, Zenon DEF OpToRel
<1>3. PICK x \in S : \A y \in S : ~(<<y, x>> \in OpToRel(<, Nat))
  BY <1>1, NatLessThanWellFounded, WFMin, Zenon
<1>4. ASSUME NEW y \in S PROVE x <= y
  <2>1. x \in Nat /\ y \in Nat
    BY <1>1
  <2>2. ~(y < x)
    BY <1>2, <1>3, <2>1, Zenon
  <2> QED BY <2>1, <2>2
<1> QED BY <1>4 DEF Min

-----------------------------------------------------------------------------
(* What a system call on channel d does to the protocol. *)

\* Nobody changes his program
KeepRoles == \A p \in Pids : loc[p].prog \in Roles => loc'[p].prog = loc[p].prog

\* The names of all channels stay, and everything in the others
Only(d) ==
  /\ mq \in [Chans -> Entry] /\ mq' \in [Chans -> Entry] /\ KeepRoles
  /\ \A c \in Chans : mq'[c].qname = mq[c].qname /\ (c # d => mq'[c] = mq[c])

\* Message v of program r is now in the channel
Put(d, r, v) ==
  Only(d) /\ mq'[d].qnum = 1 /\ mq'[d].buf.v = v /\ loc'[mq'[d].lspid].prog = r

\* The message is no longer there
Taken(d) == Only(d) /\ mq'[d].qnum = 0

\* The caller has noted that it waits to receive, or to send as program r
Waits(d) ==
  Only(d) /\ mq'[d].qnum = mq[d].qnum /\ mq'[d].buf.v = mq[d].buf.v /\ mq'[d].lspid = mq[d].lspid
WaitsFull(d, r) ==
  /\ Only(d) /\ mq'[d].qnum = mq[d].qnum /\ mq'[d].buf.v = mq[d].buf.v
  /\ loc'[mq'[d].lspid].prog = r

\* The names do not change, so everybody still holds the channel he held.
LEMMA HoldsOn ==
  ASSUME NEW d, Only(d), NEW P, NEW Q, NEW P2, NEW Q2,
         P2.m = P.m, Q2.m = Q.m,
         P2.at # "open" => P.at # "open" /\ P2.k = P.k,
         Q2.at # "open" => Q.at # "open" /\ Q2.k = Q.k,
         P.at # "open" => P2.at # "open" \/ (Q2.at # "open" /\ Q2.m = P.m),
         Q.at # "open" => Q2.at # "open" \/ (P2.at # "open" /\ P2.m = Q.m),
         Holds(P), Holds(Q), OnlyTheirs(P, Q)
  PROVE  Holds(P2)' /\ Holds(Q2)' /\ OnlyTheirs(P2, Q2)'
BY DEF Holds, OnlyTheirs, Only

\* A call that leaves the messages alone.
LEMMA WaitProto ==
  ASSUME NEW d \in Chans, Waits(d), NEW P, NEW Q, Proto(P, Q)
  PROVE  Proto(P, Q)'
<1>0. N \in Nat \ {0}
  BY PingPongAssumption
<1>1. Placed(P, "ping") /\ Placed(Q, "pong") /\ Holds(P) /\ Holds(Q) /\ OnlyTheirs(P, Q)
  BY DEF Proto
<1>2. Only(d)
  BY DEF Waits
<1>3. Holds(P)' /\ Holds(Q)' /\ OnlyTheirs(P, Q)'
  BY <1>1, <1>2, HoldsOn
<1>4. ASSUME NEW c \in Chans, NEW a, NEW b, Carries(c, a, b) PROVE Carries(c, a, b)'
  <2>1. mq[c].lspid \in Pids
    BY <1>2 DEF Only, Entry
  <2>2. /\ mq'[c].qnum = mq[c].qnum /\ mq'[c].buf.v = mq[c].buf.v /\ mq'[c].lspid = mq[c].lspid
        /\ loc[mq[c].lspid].prog \in Roles => loc'[mq[c].lspid].prog = loc[mq[c].lspid].prog
    BY <2>1 DEF Waits, Only, KeepRoles
  <2> QED BY <1>4, <2>2 DEF Carries, Roles
<1>5. SameRound(P, Q) => SameRound(P, Q)'
  BY <1>1, <1>4 DEF SameRound, Holds
<1>6. OneAhead(P, Q) => OneAhead(P, Q)'
  <2> SUFFICES ASSUME OneAhead(P, Q) PROVE OneAhead(P, Q)'
    OBVIOUS
  <2>1. Pos(P) # 0
    BY <1>0 DEF OneAhead
  <2>2. P.at # "open" /\ "ping" \in Roles
    BY <1>1, <2>1, PosFacts DEF Roles
  <2>3. Carries(P.m, Pos(P), 2 * N)'
    BY <1>1, <1>4, <2>2 DEF OneAhead, Holds
  <2>4. Q.at # "open" => mq'[Q.m].qnum = mq[Q.m].qnum
    BY <1>1 DEF Holds, Waits, Only
  <2> QED BY <2>3, <2>4 DEF OneAhead
<1> QED BY <1>1, <1>3, <1>5, <1>6 DEF Proto

\* The parts of the protocol that every step below starts from.
LEMMA ProtoFacts ==
  ASSUME NEW P, NEW Q, Proto(P, Q)
  PROVE  /\ N \in Nat \ {0} /\ "ping" \in Roles /\ "pong" \in Roles
         /\ Placed(P, "ping") /\ Placed(Q, "pong") /\ Holds(P) /\ Holds(Q) /\ OnlyTheirs(P, Q)
         /\ Pos(P) \in 0..(2 * N) /\ Pos(Q) \in 0..(2 * N - 1)
         /\ OneAhead(P, Q) => P.at # "open"
         /\ ~OneAhead(P, Q) => SameRound(P, Q)
<1>1. N \in Nat \ {0} /\ "ping" \in Roles /\ "pong" \in Roles
  BY PingPongAssumption DEF Roles
<1>2. Placed(P, "ping") /\ Placed(Q, "pong") /\ Holds(P) /\ Holds(Q) /\ OnlyTheirs(P, Q)
  BY DEF Proto
<1>3. Pos(P) \in 0..(2 * N) /\ Pos(Q) \in 0..(2 * N - 1)
  BY <1>1, <1>2, PosFacts DEF Labels
<1>4. OneAhead(P, Q) => P.at # "open"
  BY <1>1, <1>2, PosFacts DEF OneAhead
<1> QED BY <1>1, <1>2, <1>3, <1>4 DEF Proto

\* Ping sends into an empty channel: both have handled the same messages before.
LEMMA PingSends ==
  ASSUME NEW P, NEW Q, Proto(P, Q), P.at = "send", mq[P.m].qnum = 0,
         Put(P.m, "ping", Pos(P) + 1)
  PROVE  Proto(Advance(P), Q)'
<1>1. PICK P2 : P2 = Advance(P) OBVIOUS
<1>2. /\ N \in Nat \ {0} /\ Pos(P) \in 0..(N - 1) /\ Pos(Q) \in 0..(2 * N - 1)
      /\ Placed(P, "ping") /\ Placed(Q, "pong") /\ Holds(P) /\ Holds(Q) /\ OnlyTheirs(P, Q)
  BY ProtoFacts, PosFacts
<1>3. SameRound(P, Q)
  <2>1. ~OneAhead(P, Q)
    BY <1>2 DEF OneAhead
  <2> QED BY <2>1, ProtoFacts
<1>4. Pos(Q) = Pos(P)
  BY <1>2, <1>3 DEF SameRound, Close, Carries
<1>5. /\ Placed(P2, "ping") /\ P2.m = P.m /\ P2.at # "open" /\ P2.k = P.k
      /\ Pos(P2) = Pos(P) + 1
  BY <1>1, <1>2, AdvanceFacts DEF Roles
<1>6. Only(P.m) /\ P.m \in Chans
  BY <1>2 DEF Put, Holds
<1>7. Holds(P2)' /\ Holds(Q)' /\ OnlyTheirs(P2, Q)'
  BY <1>2, <1>5, <1>6, HoldsOn
<1>8. Carries(P.m, Pos(P2), Pos(Q))'
  BY <1>2, <1>4, <1>5 DEF Carries, Put
<1>9. Close(Pos(P2), Pos(Q))
  BY <1>2, <1>4, <1>5 DEF Close
<1>10. SameRound(P2, Q)'
  BY <1>3, <1>5, <1>8, <1>9 DEF SameRound
<1> QED BY <1>1, <1>2, <1>5, <1>7, <1>10 DEF Proto

\* Pong sends into an empty channel; with its last message it goes on to the next round.
LEMMA PongSends ==
  ASSUME NEW P, NEW Q, Proto(P, Q), Q.at = "send", mq[Q.m].qnum = 0,
         Put(Q.m, "pong", Pos(Q) + 1)
  PROVE  Proto(P, Advance(Q))'
<1>1. PICK Q2 : Q2 = Advance(Q) OBVIOUS
<1>2. /\ N \in Nat \ {0} /\ Pos(P) \in 0..(2 * N) /\ Pos(Q) \in N..(2 * N - 1)
      /\ Placed(P, "ping") /\ Placed(Q, "pong") /\ Holds(P) /\ Holds(Q) /\ OnlyTheirs(P, Q)
  BY ProtoFacts, PosFacts
<1>3. SameRound(P, Q)
  <2>1. ~OneAhead(P, Q)
    BY <1>2 DEF OneAhead
  <2> QED BY <2>1, ProtoFacts
<1>4. Pos(Q) = Pos(P)
  BY <1>2, <1>3 DEF SameRound, Close, Carries
<1>5. P.at # "open" /\ P.m = Q.m
  BY <1>2, <1>3, <1>4, PosFacts DEF SameRound, Roles
<1>6. Only(P.m) /\ P.m \in Chans
  BY <1>2, <1>5 DEF Put, Holds
<1>7. /\ Placed(Q2, "pong") /\ Q2.m = Q.m
      /\ \/ Q2.at # "open" /\ Q2.k = Q.k /\ Pos(Q2) = Pos(Q) + 1
         \/ Q2.at = "open" /\ Q2.k = (Q.k % NAME_MOD) + 1 /\ Pos(Q) + 1 = 2 * N
  BY <1>1, <1>2, AdvanceFacts DEF Roles
<1>8. Holds(P)' /\ Holds(Q2)' /\ OnlyTheirs(P, Q2)'
  BY <1>2, <1>5, <1>6, <1>7, HoldsOn
<1>9. Carries(P.m, Pos(P), Pos(Q) + 1)'
  BY <1>2, <1>4, <1>5 DEF Carries, Put
<1>10. CASE Q2.at # "open"
  <2>1. Close(Pos(P), Pos(Q2))
    BY <1>2, <1>4, <1>7, <1>10 DEF Close
  <2>2. SameRound(P, Q2)'
    BY <1>3, <1>5, <1>7, <1>9, <1>10, <2>1 DEF SameRound
  <2> QED BY <1>1, <1>2, <1>7, <1>8, <2>2 DEF Proto
<1>11. CASE Q2.at = "open"
  <2>1. Pos(Q2) = 0 /\ Pos(Q) + 1 = 2 * N /\ Q2.k = (P.k % NAME_MOD) + 1
    BY <1>3, <1>7, <1>11, PosFacts DEF Roles, SameRound
  <2>2. OneAhead(P, Q2)'
    BY <1>2, <1>4, <1>9, <1>11, <2>1 DEF OneAhead
  <2> QED BY <1>1, <1>2, <1>7, <1>8, <2>2 DEF Proto
<1> QED BY <1>10, <1>11

\* Ping takes a message that it has not sent itself: it is the one by which pong is
\* ahead, and the message of the same iteration.
LEMMA PingReceives ==
  ASSUME NEW P, NEW Q, Proto(P, Q), P.at = "receive", mq[P.m].qnum # 0,
         loc[mq[P.m].lspid].prog # "ping"
  PROVE  /\ mq[P.m].buf.v = Message("pong", P.i)
         /\ Taken(P.m) => Proto(Advance(P), Q)'
<1>1. PICK P2 : P2 = Advance(P) OBVIOUS
<1>2. /\ N \in Nat \ {0} /\ Pos(P) \in N..(2 * N - 1) /\ Pos(Q) \in 0..(2 * N - 1)
      /\ Pos(P) = N + P.i /\ P.i \in 0..(N - 1)
      /\ Placed(P, "ping") /\ Placed(Q, "pong") /\ Holds(P) /\ Holds(Q) /\ OnlyTheirs(P, Q)
  BY ProtoFacts, PosFacts
<1>3. PICK b \in 0..(2 * N) :
        /\ b = Pos(P) + 1 /\ Carries(P.m, Pos(P), b)
        /\ \/ SameRound(P, Q) /\ b = Pos(Q)
           \/ OneAhead(P, Q) /\ b = 2 * N
  <2>1. CASE SameRound(P, Q)
    BY <1>2, <2>1 DEF SameRound, Close, Carries
  <2>2. CASE OneAhead(P, Q)
    BY <1>2, <2>2 DEF OneAhead, Carries
  <2> QED BY <2>1, <2>2, ProtoFacts
<1>4. mq[P.m].buf.v = Message("pong", P.i)
  BY <1>2, <1>3 DEF Carries, Message
<1>5. ASSUME Taken(P.m) PROVE Proto(P2, Q)'
  <2>1. /\ Placed(P2, "ping") /\ P2.m = P.m /\ P2.at # "open" /\ P2.k = P.k
        /\ Pos(P2) = Pos(P) + 1
    BY <1>1, <1>2, AdvanceFacts DEF Roles
  <2>2. Only(P.m) /\ P.m \in Chans
    BY <1>2, <1>5 DEF Taken, Holds
  <2>3. Holds(P2)' /\ Holds(Q)' /\ OnlyTheirs(P2, Q)'
    BY <1>2, <2>1, <2>2, HoldsOn
  <2>4. Carries(P.m, Pos(P2), b)'
    BY <1>2, <1>3, <1>5, <2>1 DEF Carries, Taken
  <2>5. CASE SameRound(P, Q) /\ b = Pos(Q)
    <3>1. Close(Pos(P2), Pos(Q))
      BY <1>2, <1>3, <2>1, <2>5 DEF Close
    <3>2. SameRound(P2, Q)'
      BY <2>1, <2>4, <2>5, <3>1 DEF SameRound
    <3> QED BY <1>2, <2>1, <2>3, <3>2 DEF Proto
  <2>6. CASE OneAhead(P, Q) /\ b = 2 * N
    <3>1. Q.at # "open" => Q.m \in Chans /\ mq'[Q.m] = mq[Q.m]
      BY <1>2, <2>2, <2>6 DEF Only, Holds, OneAhead
    <3>2. OneAhead(P2, Q)'
      BY <1>2, <1>3, <2>1, <2>4, <2>6, <3>1 DEF OneAhead
    <3> QED BY <1>2, <2>1, <2>3, <3>2 DEF Proto
  <2> QED BY <1>3, <2>5, <2>6
<1> QED BY <1>1, <1>4, <1>5

\* Pong likewise; in a round that ping has not reached there is nothing to take.
LEMMA PongReceives ==
  ASSUME NEW P, NEW Q, Proto(P, Q), Q.at = "receive", mq[Q.m].qnum # 0
  PROVE  /\ mq[Q.m].buf.v = Message("ping", Q.i)
         /\ Taken(Q.m) => Proto(P, Advance(Q))'
<1>1. PICK Q2 : Q2 = Advance(Q) OBVIOUS
<1>2. /\ N \in Nat \ {0} /\ Pos(P) \in 0..(2 * N) /\ Pos(Q) \in 0..(N - 1)
      /\ Pos(Q) = Q.i /\ Q.i \in 0..(N - 1)
      /\ Placed(P, "ping") /\ Placed(Q, "pong") /\ Holds(P) /\ Holds(Q) /\ OnlyTheirs(P, Q)
  BY ProtoFacts, PosFacts
<1>3. SameRound(P, Q)
  <2>1. ~OneAhead(P, Q)
    BY DEF OneAhead
  <2> QED BY <2>1, ProtoFacts
<1>4. Pos(P) = Pos(Q) + 1 /\ Carries(Q.m, Pos(P), Pos(Q))
  BY <1>2, <1>3 DEF SameRound, Close, Carries
<1>5. mq[Q.m].buf.v = Message("ping", Q.i)
  BY <1>2, <1>4 DEF Carries, Message
<1>6. ASSUME Taken(Q.m) PROVE Proto(P, Q2)'
  <2>1. P.at # "open" /\ P.m = Q.m
    BY <1>2, <1>3, <1>4, PosFacts DEF SameRound, Roles
  <2>2. /\ Placed(Q2, "pong") /\ Q2.m = Q.m /\ Q2.at # "open" /\ Q2.k = Q.k
        /\ Pos(Q2) = Pos(Q) + 1
    BY <1>1, <1>2, AdvanceFacts DEF Roles
  <2>3. Only(Q.m) /\ Q.m \in Chans
    BY <1>2, <1>6 DEF Taken, Holds
  <2>4. Holds(P)' /\ Holds(Q2)' /\ OnlyTheirs(P, Q2)'
    BY <1>2, <2>2, <2>3, HoldsOn
  <2>5. Carries(Q.m, Pos(P), Pos(Q2))'
    BY <1>2, <1>4, <1>6, <2>2 DEF Carries, Taken
  <2>6. Close(Pos(P), Pos(Q2))
    BY <1>2, <1>4, <2>2 DEF Close
  <2>7. SameRound(P, Q2)'
    BY <1>3, <2>1, <2>2, <2>5, <2>6 DEF SameRound
  <2> QED BY <1>2, <2>2, <2>4, <2>7 DEF Proto
<1> QED BY <1>1, <1>5, <1>6

\* Ping finds the channel full: its own message is still there.
LEMMA PingFindsFull ==
  ASSUME NEW P, NEW Q, Proto(P, Q), P.at = "send", mq[P.m].qnum # 0, WaitsFull(P.m, "ping")
  PROVE  Proto(P, Q)'
<1>1. /\ N \in Nat \ {0} /\ Pos(P) \in 0..(N - 1) /\ Pos(Q) \in 0..(2 * N - 1)
      /\ Placed(P, "ping") /\ Placed(Q, "pong") /\ Holds(P) /\ Holds(Q) /\ OnlyTheirs(P, Q)
  BY ProtoFacts, PosFacts
<1>2. SameRound(P, Q)
  <2>1. ~OneAhead(P, Q)
    BY <1>1 DEF OneAhead
  <2> QED BY <2>1, ProtoFacts
<1>3. Pos(P) = Pos(Q) + 1 /\ Carries(P.m, Pos(P), Pos(Q))
  BY <1>1, <1>2 DEF SameRound, Close, Carries
<1>4. Only(P.m) /\ P.m \in Chans
  BY <1>1 DEF WaitsFull, Holds
<1>5. Holds(P)' /\ Holds(Q)' /\ OnlyTheirs(P, Q)'
  BY <1>1, <1>4, HoldsOn
<1>6. Carries(P.m, Pos(P), Pos(Q))'
  BY <1>1, <1>3 DEF Carries, WaitsFull
<1>7. SameRound(P, Q)'
  BY <1>2, <1>6 DEF SameRound
<1> QED BY <1>1, <1>5, <1>7 DEF Proto

\* Pong likewise.
LEMMA PongFindsFull ==
  ASSUME NEW P, NEW Q, Proto(P, Q), Q.at = "send", mq[Q.m].qnum # 0, WaitsFull(Q.m, "pong")
  PROVE  Proto(P, Q)'
<1>1. /\ N \in Nat \ {0} /\ Pos(P) \in 0..(2 * N) /\ Pos(Q) \in N..(2 * N - 1)
      /\ Placed(P, "ping") /\ Placed(Q, "pong") /\ Holds(P) /\ Holds(Q) /\ OnlyTheirs(P, Q)
  BY ProtoFacts, PosFacts
<1>2. SameRound(P, Q)
  <2>1. ~OneAhead(P, Q)
    BY <1>1 DEF OneAhead
  <2> QED BY <2>1, ProtoFacts
<1>3. Pos(Q) = Pos(P) + 1 /\ Carries(Q.m, Pos(P), Pos(Q))
  BY <1>1, <1>2 DEF SameRound, Close, Carries
<1>4. Only(Q.m) /\ Q.m \in Chans
  BY <1>1 DEF WaitsFull, Holds
<1>5. Holds(P)' /\ Holds(Q)' /\ OnlyTheirs(P, Q)'
  BY <1>1, <1>4, HoldsOn
<1>6. Carries(Q.m, Pos(P), Pos(Q))'
  BY <1>1, <1>3 DEF Carries, WaitsFull
<1>7. SameRound(P, Q)'
  BY <1>2, <1>6 DEF SameRound
<1> QED BY <1>1, <1>5, <1>7 DEF Proto

\* mq_open of a name that one channel has, and of one that none has.
LEMMA OpenFinds ==
  ASSUME NEW k \in Names, NEW c \in Chans, \A e \in Chans : mq[e].qname = k <=> e = c
  PROVE  Descriptor(k) = c /\ Opened(k) = mq
<1>1. Named(k) = {c}
  BY DEF Named
<1>2. Min({c}) = c
  BY <1>1, LowestChannel
<1> QED BY <1>1, <1>2 DEF Descriptor, Opened

LEMMA OpenTakes ==
  ASSUME mq \in [Chans -> Entry], NEW k \in Names,
         \A e \in Chans : mq[e].qname # k, NEW f \in Chans, mq[f].qname = 0
  PROVE  \E d \in Chans :
           /\ d = Descriptor(k) /\ mq[d].qname = 0
           /\ Opened(k) \in [Chans -> Entry]
           /\ Opened(k)[d].qname = k /\ Opened(k)[d].qnum = 0
           /\ \A e \in Chans \ {d} : Opened(k)[e] = mq[e]
<1>1. Named(k) = {} /\ Named(0) # {} /\ Named(0) \subseteq Chans
  BY DEF Named
<1>2. PICK d \in Chans : d = Descriptor(k) /\ mq[d].qname = 0
  <2>1. Min(Named(0)) \in Named(0)
    BY <1>1, LowestChannel
  <2> QED BY <1>1, <2>1 DEF Descriptor, Named
<1>3. PICK u : u = [mq[d] EXCEPT !.qname = k, !.qnum = 0, !.qrec = 0, !.lspid = 0, !.lrpid = 0]
  OBVIOUS
<1>4. Opened(k) = [mq EXCEPT ![d] = u]
  BY <1>1, <1>2, <1>3 DEF Opened
<1>5. mq[d] \in Entry
  OBVIOUS
<1>6. u.qname = k /\ u.qnum = 0
  BY <1>3, <1>5 DEF Entry
<1>7. Opened(k) \in [Chans -> Entry]
  BY OpenedEntries
<1> QED BY <1>2, <1>4, <1>6, <1>7

\* A place just behind the open, on channel d.
Behind(l2, l, r, d) ==
  /\ Placed(l2, r) /\ l2.at = First(r) /\ l2.i = 0 /\ l2.k = l.k /\ l2.m = d

\* Opening: the other program's channel of the same round, or a free one.
OpenStep(k) == mq \in [Chans -> Entry] /\ mq' = Opened(k) /\ KeepRoles

\* A channel that mq_open leaves alone carries what it carried.
LEMMA CarriesStill ==
  ASSUME mq \in [Chans -> Entry], KeepRoles, NEW c \in Chans, mq'[c] = mq[c],
         NEW a, NEW b, Carries(c, a, b)
  PROVE  Carries(c, a, b)'
<1>1. mq[c].lspid \in Pids
  BY DEF Entry
<1> QED BY <1>1 DEF Carries, KeepRoles, Roles

\* With at most one channel open there is a free one.
LEMMA FreeChannel ==
  ASSUME mq \in [Chans -> Entry], NEW c, \A e \in Chans : mq[e].qname # 0 => e = c
  PROVE  \E f \in Chans : f # c /\ mq[f].qname = 0
<1>1. 0 \in Chans /\ 1 \in Chans /\ 0 # 1
  BY ChannelAssumption, PingPongAssumption DEF Chans
<1> QED BY <1>1

LEMMA PingOpens ==
  ASSUME NEW P, NEW Q, Proto(P, Q), P.at = "open", OpenStep(P.k),
         NEW P2, Behind(P2, P, "ping", Descriptor(P.k))
  PROVE  Proto(P2, Q)'
<1>1. /\ N \in Nat \ {0} /\ Pos(P) = 0 /\ Pos(Q) \in 0..(2 * N - 1)
      /\ Placed(P, "ping") /\ Placed(Q, "pong") /\ Holds(P) /\ Holds(Q) /\ OnlyTheirs(P, Q)
      /\ P.k \in Names /\ P.k # 0
  BY ProtoFacts, PosFacts, ChannelAssumption
<1>2. SameRound(P, Q) /\ Pos(Q) = 0
  <2>1. SameRound(P, Q)
    BY ProtoFacts
  <2> QED BY <1>1, <2>1 DEF SameRound, Close
<1>3. /\ Placed(P2, "ping") /\ P2.at # "open" /\ P2.k = P.k /\ P2.m = Descriptor(P.k)
      /\ Pos(P2) = 0
  BY PosFacts DEF Behind, First, Roles
<1>4. mq \in [Chans -> Entry] /\ KeepRoles /\ mq' = Opened(P.k)
  BY DEF OpenStep
<1>5. Close(0, 0)
  BY <1>1 DEF Close
<1>6. CASE Q.at # "open"
  <2>1. Q.m \in Chans /\ \A e \in Chans : mq[e].qname = P.k <=> e = Q.m
    BY <1>1, <1>2, <1>6 DEF Holds, OnlyTheirs, SameRound
  <2>2. P2.m = Q.m /\ mq' = mq
    BY <1>1, <1>3, <1>4, <2>1, OpenFinds
  <2>3. Carries(Q.m, 0, 0)'
    BY <1>1, <1>2, <1>4, <1>6, <2>1, <2>2, CarriesStill DEF SameRound
  <2>4. SameRound(P2, Q)'
    BY <1>2, <1>3, <1>5, <2>2, <2>3 DEF SameRound
  <2>5. Holds(P2)' /\ Holds(Q)' /\ OnlyTheirs(P2, Q)'
    BY <1>1, <1>3, <2>1, <2>2 DEF Holds, OnlyTheirs
  <2> QED BY <1>1, <1>3, <2>4, <2>5 DEF Proto
<1>7. CASE Q.at = "open"
  <2>1. \A e \in Chans : mq[e].qname = 0
    BY <1>7 DEF Proto, OnlyTheirs
  <2>2. PICK f \in Chans : mq[f].qname = 0
    BY <1>4, <2>1, FreeChannel
  <2>3. PICK d \in Chans :
           /\ d = Descriptor(P.k)
           /\ mq'[d].qname = P.k /\ mq'[d].qnum = 0
           /\ \A e \in Chans \ {d} : mq'[e] = mq[e]
    BY <1>1, <1>4, <2>1, <2>2, OpenTakes
  <2>4. Carries(d, 0, 0)'
    BY <2>3 DEF Carries
  <2>5. SameRound(P2, Q)'
    BY <1>2, <1>3, <1>5, <1>7, <2>3, <2>4 DEF SameRound
  <2>6. Holds(P2)' /\ Holds(Q)' /\ OnlyTheirs(P2, Q)'
    BY <1>3, <1>7, <2>1, <2>3 DEF Holds, OnlyTheirs
  <2> QED BY <1>1, <1>3, <2>5, <2>6 DEF Proto
<1> QED BY <1>6, <1>7

LEMMA PongOpens ==
  ASSUME NEW P, NEW Q, Proto(P, Q), Q.at = "open", OpenStep(Q.k),
         NEW Q2, Behind(Q2, Q, "pong", Descriptor(Q.k))
  PROVE  Proto(P, Q2)'
<1>1. /\ N \in Nat \ {0} /\ Pos(Q) = 0 /\ Pos(P) \in 0..(2 * N)
      /\ Placed(P, "ping") /\ Placed(Q, "pong") /\ Holds(P) /\ Holds(Q) /\ OnlyTheirs(P, Q)
      /\ Q.k \in Names /\ Q.k # 0 /\ P.k \in Names /\ P.k # 0
  BY ProtoFacts, PosFacts, ChannelAssumption
<1>2. /\ Placed(Q2, "pong") /\ Q2.at # "open" /\ Q2.k = Q.k /\ Q2.m = Descriptor(Q.k)
      /\ Pos(Q2) = 0
  BY PosFacts DEF Behind, First, Roles
<1>3. mq \in [Chans -> Entry] /\ KeepRoles /\ mq' = Opened(Q.k)
  BY DEF OpenStep
<1>4. \A e \in Chans : mq[e].qname # 0 => P.at # "open" /\ e = P.m
  BY <1>1 DEF OnlyTheirs
<1>5. CASE SameRound(P, Q) /\ P.at # "open"
  <2>1. P.m \in Chans /\ \A e \in Chans : mq[e].qname = Q.k <=> e = P.m
    BY <1>1, <1>4, <1>5 DEF Holds, SameRound
  <2>2. Q2.m = P.m /\ mq' = mq
    BY <1>1, <1>2, <1>3, <2>1, OpenFinds
  <2>3. Carries(P.m, Pos(P), 0)'
    BY <1>1, <1>3, <1>5, <2>1, <2>2, CarriesStill DEF SameRound
  <2>4. SameRound(P, Q2)'
    BY <1>1, <1>2, <1>5, <2>2, <2>3 DEF SameRound
  <2>5. Holds(P)' /\ Holds(Q2)' /\ OnlyTheirs(P, Q2)'
    BY <1>1, <1>2, <1>5, <2>1, <2>2 DEF Holds, OnlyTheirs, SameRound
  <2> QED BY <1>1, <1>2, <2>4, <2>5 DEF Proto
<1>6. ASSUME \A e \in Chans : mq[e].qname # Q.k
      PROVE  \E d \in Chans :
               /\ d = Q2.m /\ mq[d].qname = 0
               /\ mq'[d].qname = Q.k /\ mq'[d].qnum = 0
               /\ \A e \in Chans \ {d} : mq'[e] = mq[e]
  <2>1. PICK f \in Chans : mq[f].qname = 0
    BY <1>3, <1>4, FreeChannel
  <2> QED BY <1>1, <1>2, <1>3, <1>6, <2>1, OpenTakes
<1>7. CASE SameRound(P, Q) /\ P.at = "open"
  <2>1. \A e \in Chans : mq[e].qname # Q.k
    BY <1>1, <1>4, <1>7
  <2>2. PICK d \in Chans :
               /\ d = Q2.m /\ mq[d].qname = 0
               /\ mq'[d].qname = Q.k /\ mq'[d].qnum = 0
               /\ \A e \in Chans \ {d} : mq'[e] = mq[e]
    BY <1>6, <2>1
  <2>3. Pos(P) = 0 /\ Carries(d, 0, 0)'
    BY <1>1, <1>7, <2>2, PosFacts DEF Carries, Roles
  <2>4. SameRound(P, Q2)'
    BY <1>1, <1>2, <1>7, <2>2, <2>3 DEF SameRound
  <2>5. Holds(P)' /\ Holds(Q2)' /\ OnlyTheirs(P, Q2)'
    BY <1>2, <1>4, <1>7, <2>2 DEF Holds, OnlyTheirs
  <2> QED BY <1>1, <1>2, <2>4, <2>5 DEF Proto
<1>8. CASE OneAhead(P, Q)
  <2>1. P.at # "open" /\ P.m \in Chans /\ mq[P.m].qname = P.k /\ P.k # Q.k
    BY <1>1, <1>8, ProtoFacts, NextName DEF Holds, OneAhead
  <2>2. PICK d \in Chans :
               /\ d = Q2.m /\ mq[d].qname = 0
               /\ mq'[d].qname = Q.k /\ mq'[d].qnum = 0
               /\ \A e \in Chans \ {d} : mq'[e] = mq[e]
    BY <1>1, <1>4, <1>6, <2>1
  <2>3. d # P.m /\ mq'[P.m] = mq[P.m]
    BY <1>1, <2>1, <2>2
  <2>4. Carries(P.m, Pos(P), 2 * N)'
    BY <1>3, <1>8, <2>1, <2>3, CarriesStill DEF OneAhead
  <2>5. OneAhead(P, Q2)'
    BY <1>2, <1>8, <2>2, <2>3, <2>4 DEF OneAhead
  <2>6. Holds(P)' /\ Holds(Q2)' /\ OnlyTheirs(P, Q2)'
    BY <1>2, <1>4, <2>1, <2>2, <2>3 DEF Holds, OnlyTheirs
  <2> QED BY <1>1, <1>2, <2>5, <2>6 DEF Proto
<1> QED BY <1>5, <1>7, <1>8, ProtoFacts

\* Ping unlinks: pong has left that channel, and may have opened the next one.
LEMMA PingUnlinks ==
  ASSUME NEW P, NEW Q, Proto(P, Q), P.at = "unlink", mq \in [Chans -> Entry], KeepRoles,
         mq' = [mq EXCEPT ![P.m].qname = 0]
  PROVE  Proto(Advance(P), Q)'
<1>1. PICK P2 : P2 = Advance(P) OBVIOUS
<1>2. /\ N \in Nat \ {0} /\ Pos(P) = 2 * N /\ Pos(Q) \in 0..(2 * N - 1)
      /\ Placed(P, "ping") /\ Placed(Q, "pong") /\ Holds(P) /\ Holds(Q) /\ OnlyTheirs(P, Q)
      /\ P.m \in Chans
  BY ProtoFacts, PosFacts DEF Holds
<1>3. OneAhead(P, Q)
  <2>1. ~SameRound(P, Q)
    BY <1>2 DEF SameRound, Close
  <2> QED BY <2>1, ProtoFacts
<1>4. Placed(P2, "ping") /\ P2.at = "open" /\ P2.k = Q.k /\ Pos(P2) = 0 /\ Pos(Q) = 0
  BY <1>1, <1>2, <1>3, UnlinkFacts, PosFacts DEF OneAhead, Roles
<1>5. mq'[P.m].qname = 0 /\ \A e \in Chans \ {P.m} : mq'[e] = mq[e]
  BY <1>2 DEF Entry
<1>6. Q.at # "open" => Q.m \in Chans /\ mq'[Q.m] = mq[Q.m] /\ mq[Q.m].qnum = 0
  BY <1>2, <1>3, <1>5 DEF OneAhead, Holds
<1>7. Q.at # "open" => Carries(Q.m, 0, 0)'
  BY <1>6 DEF Carries
<1>8. Close(0, 0)
  BY <1>2 DEF Close
<1>9. SameRound(P2, Q)'
  BY <1>4, <1>7, <1>8 DEF SameRound
<1>10. Holds(P2)' /\ Holds(Q)' /\ OnlyTheirs(P2, Q)'
  BY <1>2, <1>4, <1>5, <1>6 DEF Holds, OnlyTheirs
<1> QED BY <1>1, <1>2, <1>4, <1>9, <1>10 DEF Proto

-----------------------------------------------------------------------------
(* From the places of the programs to the processes. *)

LEMMA Somewhere ==
  ASSUME NEW r \in Roles
  PROVE  Where(r) # {}
<1>1. CASE r \in Running
  <2>1. PICK p \in Pids : loc[p].prog = r
    BY <1>1 DEF Running
  <2>2. loc[p] \in Where(r)
    BY <2>1 DEF Where
  <2> QED BY <2>2
<1>2. CASE r \notin Running
  BY <1>2 DEF Where
<1> QED BY <1>1, <1>2

\* The running program, its place and its partner.
LEMMA InRole ==
  ASSUME PInv, NEW r \in Roles, Here.prog = r
  PROVE  /\ current \in Pids /\ Here = loc[current] /\ Here \in Where(r) /\ Placed(Here, r)
         /\ Here.at # "open" => Here.m \in Chans
         /\ mq \in [Chans -> Entry]
<1>1. current \in Pids /\ mq \in [Chans -> Entry]
  BY DEF PInv, CInv, IInv, KernelTypeOK, ChannelsOK
<1>2. Here = loc[current] /\ Here \in Where(r)
  BY <1>1 DEF Here, Where
<1>3. Placed(Here, r)
  BY <1>1, <1>2 DEF PInv, Cast, Placed, LocOf, Idle, Roles
<1>4. Here.at # "open" => Here.m \in Chans
  <2>1. CASE r = "ping"
    <3>1. PICK Q : Q \in Where("pong")
      BY Somewhere DEF Roles
    <3> QED BY <1>2, <2>1, <3>1 DEF PInv, Protocol, Proto, Holds
  <2>2. CASE r = "pong"
    <3>1. PICK P : P \in Where("ping")
      BY Somewhere DEF Roles
    <3> QED BY <1>2, <2>2, <3>1 DEF PInv, Protocol, Proto, Holds
  <2> QED BY <2>1, <2>2 DEF Roles
<1> QED BY <1>1, <1>2, <1>3, <1>4

\* The running program moves to place l.
LEMMA MoveKeeps ==
  ASSUME PInv, NEW r \in Roles, Here.prog = r, NEW l, Placed(l, r), Go(l)
  PROVE  /\ Cast' /\ KeepRoles /\ loc'[current].prog = r
         /\ \A p \in Pids : loc'[p].prog = loc[p].prog
         /\ Where(r)' = {l}
         /\ \A s \in Roles \ {r} : Where(s)' = Where(s)
<1>1. current \in Pids /\ Here = loc[current] /\ Placed(Here, r)
  BY InRole
<1>2. /\ loc = [p \in Pids |-> loc[p]]
      /\ \A p, q \in Pids : (loc[p].prog = loc[q].prog /\ loc[p].prog \in Roles) => p = q
      /\ \A p \in Pids : loc[p] = Idle \/ \E x \in Roles : Placed(loc[p], x)
  BY DEF PInv, Cast
<1>3. loc' = [loc EXCEPT ![current] = l]
  BY DEF Go
<1>4. /\ \A p \in Pids : loc'[p] = IF p = current THEN l ELSE loc[p]
      /\ loc' = [p \in Pids |-> loc'[p]]
  BY <1>1, <1>2, <1>3
<1>5. l.prog = r
  BY DEF Placed, LocOf
<1>6. \A p \in Pids : loc'[p].prog = loc[p].prog
  BY <1>1, <1>4, <1>5
<1>7. \A p \in Pids : loc[p].prog = r <=> p = current
  BY <1>1, <1>2
<1>8. Cast'
  <2>1. \A p \in Pids : loc'[p] = Idle \/ \E x \in Roles : Placed(loc'[p], x)
    BY <1>2, <1>4
  <2>2. \A p, q \in Pids : (loc'[p].prog = loc'[q].prog /\ loc'[p].prog \in Roles) => p = q
    BY <1>2, <1>6
  <2> QED BY <1>4, <2>1, <2>2 DEF Cast, Placed, LocOf
<1>9. Running' = Running /\ r \in Running
  BY <1>1, <1>6, <1>7 DEF Running
<1>10. Where(r)' = {l}
  <2>1. {x \in Pids : loc'[x].prog = r} = {current}
    BY <1>1, <1>6, <1>7
  <2>2. {loc'[p] : p \in {x \in Pids : loc'[x].prog = r}} = {l}
    BY <1>1, <1>4, <2>1
  <2> QED BY <1>9, <2>2 DEF Where
<1>11. ASSUME NEW s \in Roles \ {r} PROVE Where(s)' = Where(s)
  <2>1. {x \in Pids : loc'[x].prog = s} = {x \in Pids : loc[x].prog = s}
    BY <1>6
  <2>2. \A x \in Pids : loc[x].prog = s => loc'[x] = loc[x]
    BY <1>4, <1>7
  <2>3. {loc'[p] : p \in {x \in Pids : loc'[x].prog = s}} = {loc[p] : p \in {x \in Pids : loc[x].prog = s}}
    BY <2>1, <2>2
  <2> QED BY <1>9, <2>3 DEF Where, Start0
<1> QED BY <1>1, <1>4, <1>5, <1>6, <1>8, <1>10, <1>11 DEF KeepRoles

\* Programs keep their roles and nobody dies, so only the contexts matter to NotYet.
Steady(st) ==
  /\ pst' = st
  /\ \A p \in Pids : st[p] = "TERMINATED" => pst[p] = "TERMINATED"
  /\ \A p \in Pids : loc'[p].prog = loc[p].prog

\* The scheduler saves and restores contexts without mixing them up.
LEMMA NotYetScheduled ==
  ASSUME NotYet, ctx \in [Pids -> Points], current \in Pids, current' \in Pids,
         NEW st, Steady(st), NEW q, NEW pr, NEW df, NEW here, Scheduler(st, q, pr, df, here),
         here = "child" => cpu = "child"
  PROVE  NotYet'
<1>1. ASSUME NEW f, NoDispatch(q, pr, here, f) PROVE NotYet'
  BY <1>1 DEF NoDispatch, NotYet, Steady
<1>2. ASSUME NEW k, Dispatch(RotateBy(q, k), pr, df, here) PROVE NotYet'
  <2>1. PICK h : h = RotateBy(q, k)[1] OBVIOUS
  <2>2. current' = h /\ h \in Pids
    BY <1>2, <2>1 DEF Dispatch
  <2>3. \/ h = current /\ cpu' = here /\ ctx' = ctx
        \/ h # current /\ cpu' = ctx[h] /\ ctx' = [ctx EXCEPT ![current] = here]
    BY <1>2, <2>1 DEF Dispatch
  <2>4. \A p \in Pids : pst'[p] = "TERMINATED" => loc'[p].prog = "none"
    BY DEF Steady, NotYet
  <2>5. cpu' = "child" => loc'[current'].prog = "none"
    BY <2>2, <2>3 DEF Steady, NotYet
  <2>6. \A p \in Pids : p # current' /\ ctx'[p] = "child" => loc'[p].prog = "none"
    BY <2>2, <2>3 DEF Steady, NotYet
  <2> QED BY <2>4, <2>5, <2>6 DEF NotYet
<1> QED BY <1>1, <1>2 DEF Scheduler

\* A step that neither switches nor reaches the child's exec.
LEMMA NotYetMoved ==
  ASSUME NotYet, current \in Pids, NEW st, Steady(st), ctx' = ctx, current' = current,
         cpu' = "child" => cpu = "child"
  PROVE  NotYet'
BY DEF NotYet, Steady

\* The system calls of a program keep NotYet.
LEMMA NotYetCalls ==
  ASSUME PInv, CInv', cpu = "user", \A p \in Pids : loc'[p].prog = loc[p].prog,
         NEW st, SameLife(st), Return(st) \/ Reschedule(st)
  PROVE  NotYet'
<1>1. /\ NotYet /\ ctx \in [Pids -> Points] /\ current \in Pids /\ current' \in Pids
  BY DEF PInv, CInv, IInv, KernelTypeOK
<1>2. Steady(st)
  BY DEF Steady, SameLife, Return, Reschedule
<1>3. CASE Return(st)
  BY <1>1, <1>2, <1>3, NotYetMoved DEF Return
<1>4. CASE Reschedule(st)
  BY <1>1, <1>2, <1>4, NotYetScheduled DEF Reschedule
<1> QED BY <1>3, <1>4

-----------------------------------------------------------------------------
(* What the kernel's calls do, in the words of the protocol. *)

LEMMA SendOkPuts ==
  ASSUME mq \in [Chans -> Entry], mq' \in [Chans -> Entry], current \in Pids, KeepRoles,
         NEW d \in Chans, NEW v, SendOk(d, v)
  PROVE  mq[d].qnum = 0 /\ Put(d, loc'[current].prog, v)
<1>1. PICK b : b = [by |-> current, v |-> v] OBVIOUS
<1>2. PICK u : u = [mq[d] EXCEPT !.lspid = current, !.qnum = 1, !.qrec = 0, !.buf = b] OBVIOUS
<1>3. mq[d].qnum = 0 /\ mq' = [mq EXCEPT ![d] = u]
  BY <1>1, <1>2 DEF SendOk
<1>4. mq[d] \in Entry
  OBVIOUS
<1>5. u.qname = mq[d].qname /\ u.qnum = 1 /\ u.buf = b /\ u.lspid = current
  BY <1>2, <1>4 DEF Entry
<1>6. Only(d)
  BY <1>3, <1>5 DEF Only
<1>7. mq'[d] = u /\ b.v = v
  BY <1>1, <1>3
<1> QED BY <1>3, <1>5, <1>6, <1>7 DEF Put

LEMMA SendBlocksWaits ==
  ASSUME mq \in [Chans -> Entry], mq' \in [Chans -> Entry], KeepRoles,
         NEW d \in Chans, NEW v, SendBlocks(d, v)
  PROVE  mq[d].qnum # 0 /\ WaitsFull(d, loc'[current].prog)
<1>1. mq[d].qnum # 0 /\ mq' = [mq EXCEPT ![d].lspid = current]
  BY DEF SendBlocks
<1>2. /\ mq'[d].qname = mq[d].qname /\ mq'[d].qnum = mq[d].qnum
      /\ mq'[d].buf = mq[d].buf /\ mq'[d].lspid = current
      /\ \A c \in Chans \ {d} : mq'[c] = mq[c]
  BY <1>1 DEF Entry
<1> QED BY <1>1, <1>2 DEF WaitsFull, Only

LEMMA ReceiveOkTakes ==
  ASSUME mq \in [Chans -> Entry], mq' \in [Chans -> Entry], KeepRoles,
         NEW d \in Chans, ReceiveOk(d)
  PROVE  Taken(d)
<1>1. mq[d].qnum > 0 /\ mq' = [mq EXCEPT ![d] = [mq[d] EXCEPT !.lrpid = current, !.qnum = mq[d].qnum - 1]]
  BY DEF ReceiveOk, CanReceive
<1>2. mq[d] \in Entry
  OBVIOUS
<1>3. mq[d].qnum = 1
  BY <1>1, <1>2 DEF Entry
<1>4. PICK u : u = [mq[d] EXCEPT !.lrpid = current, !.qnum = 0] OBVIOUS
<1>5. mq' = [mq EXCEPT ![d] = u]
  BY <1>1, <1>3, <1>4
<1>6. u.qname = mq[d].qname /\ u.qnum = 0
  BY <1>2, <1>4 DEF Entry
<1> QED BY <1>5, <1>6 DEF Taken, Only

LEMMA ReceiveBlocksWaits ==
  ASSUME mq \in [Chans -> Entry], mq' \in [Chans -> Entry], KeepRoles,
         NEW d \in Chans, ReceiveBlocks(d)
  PROVE  Waits(d)
<1>1. PICK u : u = [mq[d] EXCEPT !.lrpid = current, !.qrec = 1] OBVIOUS
<1>2. mq' = [mq EXCEPT ![d] = u]
  BY <1>1 DEF ReceiveBlocks
<1>3. mq[d] \in Entry
  OBVIOUS
<1>4. u.qname = mq[d].qname /\ u.qnum = mq[d].qnum /\ u.buf = mq[d].buf /\ u.lspid = mq[d].lspid
  BY <1>1, <1>3 DEF Entry
<1> QED BY <1>2, <1>4 DEF Waits, Only

-----------------------------------------------------------------------------
(* The steps of the programs. *)

\* What a step has to keep besides the invariant of the channels.
Kept == Cast' /\ NotYet' /\ Protocol'

\* A step that changes no place and no message keeps the protocol.
LEMMA StayKeeps ==
  ASSUME PInv, mq' \in [Chans -> Entry], loc' = loc,
         mq' = mq \/ \E d \in Chans : Waits(d)
  PROVE  Cast' /\ Protocol'
<1>1. Cast' /\ KeepRoles /\ \A r \in Roles : Where(r)' = Where(r)
  BY DEF PInv, Cast, KeepRoles, Where, Running, Placed, LocOf, Idle, Start0
<1>2. mq \in [Chans -> Entry]
  BY DEF PInv, CInv, ChannelsOK
<1>3. PICK d \in Chans : Waits(d)
  <2>1. mq' = mq => Waits(0) /\ 0 \in Chans
    BY <1>1, <1>2, ChannelAssumption DEF Waits, Only, Chans
  <2> QED BY <2>1
<1>4. ASSUME NEW P \in Where("ping"), NEW Q \in Where("pong") PROVE Proto(P, Q)'
  BY <1>3, WaitProto DEF PInv, Protocol
<1>5. Where("ping")' = Where("ping") /\ Where("pong")' = Where("pong")
  BY <1>1 DEF Roles
<1> QED BY <1>1, <1>4, <1>5 DEF Protocol

\* Ping has moved, or pong.
LEMMA PingMoved ==
  ASSUME NEW l, Where("ping")' = {l}, Where("pong")' = Where("pong"),
         \A Q \in Where("pong") : Proto(l, Q)'
  PROVE  Protocol'
BY DEF Protocol

LEMMA PongMoved ==
  ASSUME NEW l, Where("pong")' = {l}, Where("ping")' = Where("ping"),
         \A P \in Where("ping") : Proto(P, l)'
  PROVE  Protocol'
BY DEF Protocol

LEMMA OpenKeeps ==
  ASSUME PInv, CInv', Open
  PROVE  Kept
<1>1. PICK r \in Roles : Here.prog = r /\ Here.at = "open"
  BY DEF Open, At
<1>2. /\ current \in Pids /\ Here = loc[current] /\ Here \in Where(r) /\ Placed(Here, r)
      /\ mq \in [Chans -> Entry]
  BY <1>1, InRole
<1>3. PICK h : h = Here OBVIOUS
<1>4. h.k \in Names /\ h = [prog |-> r, at |-> "open", i |-> 0, k |-> h.k, m |-> h.m]
  BY <1>1, <1>2, <1>3 DEF Placed, LocOf
<1>5. PICK l : l = [prog |-> r, at |-> First(r), i |-> 0, k |-> h.k, m |-> Descriptor(h.k)]
  OBVIOUS
<1>6. MqOpen(h.k) /\ Go(l)
  <2>1. h.prog = r /\ MqOpen(h.k) /\ Go([h EXCEPT !.m = Descriptor(h.k), !.at = First(r)])
    BY <1>1, <1>3 DEF Open
  <2>2. PICK x : x = Descriptor(h.k) OBVIOUS
  <2>3. PICK y : y = First(r) OBVIOUS
  <2>4. [h EXCEPT !.m = x, !.at = y] = [prog |-> r, at |-> y, i |-> 0, k |-> h.k, m |-> x]
    <3>1. PICK k, m : k = h.k /\ m = h.m OBVIOUS
    <3>2. h = [prog |-> r, at |-> "open", i |-> 0, k |-> k, m |-> m]
      BY <1>4, <3>1
    <3>3. [h EXCEPT !.m = x, !.at = y] = [prog |-> r, at |-> y, i |-> 0, k |-> k, m |-> x]
      <4>1. PICK w : w = [h EXCEPT !.m = x] OBVIOUS
      <4>2. w = [prog |-> r, at |-> "open", i |-> 0, k |-> k, m |-> x]
        BY <3>2, <4>1
      <4>3. [w EXCEPT !.at = y] = [prog |-> r, at |-> y, i |-> 0, k |-> k, m |-> x]
        BY <4>2
      <4>4. [h EXCEPT !.m = x, !.at = y] = [[h EXCEPT !.m = x] EXCEPT !.at = y]
        BY <3>2
      <4> QED BY <4>1, <4>3, <4>4
    <3> QED BY <3>1, <3>3
  <2> QED BY <1>5, <2>1, <2>2, <2>3, <2>4
<1>7. First(r) \in Labels /\ First(r) \notin {"open", "unlink"}
  BY DEF First, Labels
<1>8. Descriptor(h.k) \in Chans \cup {-1}
  <2>1. Named(h.k) # {} => Min(Named(h.k)) \in Chans
    BY LowestChannel DEF Named
  <2>2. Named(0) # {} => Min(Named(0)) \in Chans
    BY LowestChannel DEF Named
  <2> QED BY <2>1, <2>2 DEF Descriptor
<1>9. Placed(l, r) /\ Behind(l, h, r, Descriptor(h.k))
  BY <1>4, <1>5, <1>7, <1>8, PingPongAssumption DEF Placed, LocOf, Behind
<1>10. /\ Cast' /\ KeepRoles /\ \A p \in Pids : loc'[p].prog = loc[p].prog
       /\ Where(r)' = {l} /\ \A s \in Roles \ {r} : Where(s)' = Where(s)
  BY <1>1, <1>6, <1>9, MoveKeeps
<1>11. OpenStep(h.k)
  BY <1>2, <1>6, <1>10 DEF OpenStep, MqOpen
<1>12. NotYet'
  <2>1. cpu = "user" /\ Return(pst) /\ SameLife(pst)
    BY <1>6 DEF MqOpen, MayCall, SameLife, PInv, CInv, IInv, KernelTypeOK
  <2> QED BY <1>10, <2>1, NotYetCalls
<1>13. Protocol'
  <2>1. CASE r = "ping"
    <3>1. ASSUME NEW Q \in Where("pong") PROVE Proto(l, Q)'
      BY <1>1, <1>2, <1>3, <1>9, <1>11, <2>1, PingOpens DEF PInv, Protocol
    <3> QED BY <1>10, <2>1, <3>1, PingMoved DEF Roles
  <2>2. CASE r = "pong"
    <3>1. ASSUME NEW P \in Where("ping") PROVE Proto(P, l)'
      BY <1>1, <1>2, <1>3, <1>9, <1>11, <2>2, PongOpens DEF PInv, Protocol
    <3> QED BY <1>10, <2>2, <3>1, PongMoved DEF Roles
  <2> QED BY <2>1, <2>2 DEF Roles
<1> QED BY <1>10, <1>12, <1>13 DEF Kept

LEMMA SendKeeps ==
  ASSUME PInv, CInv', Send
  PROVE  Kept
<1>1. PICK r \in Roles : Here.prog = r /\ Here.at = "send"
  BY DEF Send, At
<1>2. /\ current \in Pids /\ Here = loc[current] /\ Here \in Where(r) /\ Placed(Here, r)
      /\ Here.m \in Chans /\ mq \in [Chans -> Entry] /\ mq' \in [Chans -> Entry]
  BY <1>1, InRole DEF CInv, ChannelsOK
<1>3. PICK h : h = Here OBVIOUS
<1>4. Message(r, h.i) = Pos(h) + 1
  BY <1>1, <1>2, <1>3, MessageFacts
<1>5. CASE SendOk(h.m, Message(r, h.i)) /\ Go(Advance(h))
  <2>1. Placed(Advance(h), r)
    BY <1>1, <1>2, <1>3, AdvanceFacts
  <2>2. /\ Cast' /\ KeepRoles /\ \A p \in Pids : loc'[p].prog = loc[p].prog
        /\ loc'[current].prog = r
        /\ Where(r)' = {Advance(h)} /\ \A s \in Roles \ {r} : Where(s)' = Where(s)
    BY <1>1, <1>5, <2>1, MoveKeeps
  <2>3. mq[h.m].qnum = 0 /\ Put(h.m, r, Pos(h) + 1)
    BY <1>2, <1>3, <1>4, <1>5, <2>2, SendOkPuts
  <2>4. NotYet'
    <3>1. PICK slept : slept = SigWait(pst, current) OBVIOUS
    <3>2. PICK st : st = IF mq[h.m].qrec = 1 THEN SigCont(slept, mq[h.m].lrpid) ELSE slept OBVIOUS
    <3>3. cpu = "user" /\ Return(st)
      BY <1>5, <3>1, <3>2 DEF SendOk, MayCall
    <3>4. SameLife(slept) /\ mq[h.m].lrpid \in Pids
      BY <1>2, <1>3, <3>1, <3>3, SleepKeepsLife DEF PInv, CInv, Entry
    <3>5. SameLife(st)
      BY <3>2, <3>4, WakeKeepsLife
    <3> QED BY <2>2, <3>3, <3>5, NotYetCalls
  <2>5. Protocol'
    <3>1. CASE r = "ping"
      <4>1. ASSUME NEW Q \in Where("pong") PROVE Proto(Advance(h), Q)'
        BY <1>1, <1>2, <1>3, <2>3, <3>1, PingSends DEF PInv, Protocol
      <4> QED BY <2>2, <3>1, <4>1, PingMoved DEF Roles
    <3>2. CASE r = "pong"
      <4>1. ASSUME NEW P \in Where("ping") PROVE Proto(P, Advance(h))'
        BY <1>1, <1>2, <1>3, <2>3, <3>2, PongSends DEF PInv, Protocol
      <4> QED BY <2>2, <3>2, <4>1, PongMoved DEF Roles
    <3> QED BY <3>1, <3>2 DEF Roles
  <2> QED BY <2>2, <2>4, <2>5 DEF Kept
<1>6. CASE SendBlocks(h.m, Message(r, h.i)) /\ loc' = loc
  <2>1. KeepRoles /\ (\A p \in Pids : loc'[p].prog = loc[p].prog) /\ loc'[current].prog = r
    BY <1>1, <1>2, <1>6 DEF KeepRoles
  <2>2. mq[h.m].qnum # 0 /\ WaitsFull(h.m, r)
    BY <1>2, <1>3, <1>6, <2>1, SendBlocksWaits
  <2>3. NotYet'
    <3>1. cpu = "user" /\ Reschedule(SigWait(pst, current))
      BY <1>6 DEF SendBlocks, MayCall
    <3> QED BY <2>1, <3>1, SleepKeepsLife, NotYetCalls DEF PInv, CInv
  <2>4. Cast' /\ \A s \in Roles : Where(s)' = Where(s)
    BY <1>6 DEF PInv, Cast, Where, Running, Placed, LocOf, Idle, Start0
  <2>5. ASSUME NEW P \in Where("ping"), NEW Q \in Where("pong") PROVE Proto(P, Q)'
    <3>1. Proto(P, Q)
      BY DEF PInv, Protocol
    <3>2. r = "ping" => P = h
      BY <1>1, <1>2, <1>3 DEF PInv, Cast, Where, Running
    <3>3. r = "pong" => Q = h
      BY <1>1, <1>2, <1>3 DEF PInv, Cast, Where, Running
    <3> QED BY <1>1, <1>3, <2>2, <3>1, <3>2, <3>3, PingFindsFull, PongFindsFull DEF Roles
  <2>6. Protocol'
    BY <2>4, <2>5 DEF Protocol, Roles
  <2> QED BY <2>3, <2>4, <2>6 DEF Kept
<1> QED BY <1>1, <1>3, <1>5, <1>6 DEF Send

\* A program that may take a message takes the right one.
LEMMA RightMessage ==
  ASSUME PInv, NEW r \in Roles, Here.prog = r, Here.at = "receive", CanReceive(Here.m),
         NEW P \in Where("ping"), NEW Q \in Where("pong")
  PROVE  /\ Proto(P, Q) /\ mq[Here.m].qnum # 0
         /\ mq[Here.m].buf.v = Message(Other(r), Here.i)
         /\ r = "ping" => P = Here /\ loc[mq[P.m].lspid].prog # "ping"
         /\ r = "pong" => Q = Here
<1>1. /\ current \in Pids /\ Here = loc[current] /\ Here \in Where(r) /\ Here.m \in Chans
      /\ mq \in [Chans -> Entry]
  BY InRole
<1>2. Proto(P, Q)
  BY DEF PInv, Protocol
<1>3. mq[Here.m].lspid \in Pids /\ mq[Here.m].lspid # current /\ mq[Here.m].qnum # 0
  BY <1>1 DEF CanReceive, Entry
<1>4. loc[mq[Here.m].lspid].prog # r
  BY <1>1, <1>3 DEF PInv, Cast
<1>5. CASE r = "ping"
  <2>1. P = Here
    BY <1>1, <1>5 DEF PInv, Cast, Where, Running
  <2>2. mq[P.m].buf.v = Message("pong", P.i)
    BY <1>2, <1>3, <1>4, <1>5, <2>1, PingReceives
  <2> QED BY <1>2, <1>3, <1>4, <1>5, <2>1, <2>2 DEF Other
<1>6. CASE r = "pong"
  <2>1. Q = Here
    BY <1>1, <1>6 DEF PInv, Cast, Where, Running
  <2>2. mq[Q.m].buf.v = Message("ping", Q.i)
    BY <1>2, <1>3, <1>6, <2>1, PongReceives
  <2> QED BY <1>2, <1>3, <1>6, <2>1, <2>2 DEF Other
<1> QED BY <1>5, <1>6 DEF Roles

LEMMA ReceiveKeeps ==
  ASSUME PInv, CInv', Receive
  PROVE  Kept
<1>1. PICK r \in Roles : Here.prog = r /\ Here.at = "receive"
  BY DEF Receive, At
<1>2. /\ current \in Pids /\ Here = loc[current] /\ Here \in Where(r) /\ Placed(Here, r)
      /\ Here.m \in Chans /\ mq \in [Chans -> Entry] /\ mq' \in [Chans -> Entry]
  BY <1>1, InRole DEF CInv, ChannelsOK
<1>3. PICK h : h = Here OBVIOUS
<1>4. CASE ReceiveOk(h.m) /\ Go(Advance(h))
  <2>1. Placed(Advance(h), r)
    BY <1>1, <1>2, <1>3, AdvanceFacts
  <2>2. /\ Cast' /\ KeepRoles /\ \A p \in Pids : loc'[p].prog = loc[p].prog
        /\ Where(r)' = {Advance(h)} /\ \A s \in Roles \ {r} : Where(s)' = Where(s)
    BY <1>1, <1>4, <2>1, MoveKeeps
  <2>3. CanReceive(h.m) /\ Taken(h.m)
    BY <1>2, <1>3, <1>4, <2>2, ReceiveOkTakes DEF ReceiveOk
  <2>4. NotYet'
    <3>1. cpu = "user" /\ Return(SigCont(pst, mq[h.m].lspid))
      BY <1>4 DEF ReceiveOk, MayCall
    <3>2. SameLife(pst) /\ mq[h.m].lspid \in Pids
      BY <1>2, <1>3 DEF SameLife, PInv, CInv, IInv, KernelTypeOK, Entry
    <3> QED BY <2>2, <3>1, <3>2, WakeKeepsLife, NotYetCalls
  <2>5. Protocol'
    <3>1. CASE r = "ping"
      <4>1. ASSUME NEW Q \in Where("pong") PROVE Proto(Advance(h), Q)'
        <5>1. Proto(h, Q) /\ mq[h.m].qnum # 0 /\ loc[mq[h.m].lspid].prog # "ping"
          BY <1>1, <1>2, <1>3, <2>3, <3>1, RightMessage
        <5> QED BY <1>1, <1>3, <2>3, <5>1, PingReceives
      <4> QED BY <2>2, <3>1, <4>1, PingMoved DEF Roles
    <3>2. CASE r = "pong"
      <4>1. ASSUME NEW P \in Where("ping") PROVE Proto(P, Advance(h))'
        <5>1. Proto(P, h) /\ mq[h.m].qnum # 0
          BY <1>1, <1>2, <1>3, <2>3, <3>2, RightMessage
        <5> QED BY <1>1, <1>3, <2>3, <5>1, PongReceives
      <4> QED BY <2>2, <3>2, <4>1, PongMoved DEF Roles
    <3> QED BY <3>1, <3>2 DEF Roles
  <2> QED BY <2>2, <2>4, <2>5 DEF Kept
<1>5. CASE ReceiveBlocks(h.m) /\ loc' = loc
  <2>1. KeepRoles /\ \A p \in Pids : loc'[p].prog = loc[p].prog
    BY <1>5 DEF KeepRoles
  <2>2. Waits(h.m)
    BY <1>2, <1>3, <1>5, <2>1, ReceiveBlocksWaits
  <2>3. Cast' /\ Protocol'
    BY <1>2, <1>3, <1>5, <2>2, StayKeeps
  <2>4. NotYet'
    <3>1. cpu = "user" /\ Reschedule(SigWait(pst, current))
      BY <1>5 DEF ReceiveBlocks, MayCall
    <3> QED BY <2>1, <3>1, SleepKeepsLife, NotYetCalls DEF PInv, CInv
  <2> QED BY <2>3, <2>4 DEF Kept
<1> QED BY <1>3, <1>4, <1>5 DEF Receive

LEMMA UnlinkKeeps ==
  ASSUME PInv, CInv', Unlink
  PROVE  Kept
<1>1. PICK r \in Roles : Here.prog = r /\ Here.at = "unlink"
  BY DEF Unlink, At
<1>2. /\ current \in Pids /\ Here = loc[current] /\ Here \in Where(r) /\ Placed(Here, r)
      /\ mq \in [Chans -> Entry] /\ r = "ping"
  BY <1>1, InRole DEF Placed
<1>3. PICK h : h = Here OBVIOUS
<1>4. MqUnlink(h.m) /\ Go(Advance(h)) /\ Placed(Advance(h), r)
  BY <1>1, <1>2, <1>3, UnlinkFacts DEF Unlink
<1>5. /\ Cast' /\ KeepRoles /\ \A p \in Pids : loc'[p].prog = loc[p].prog
      /\ Where(r)' = {Advance(h)} /\ \A s \in Roles \ {r} : Where(s)' = Where(s)
  BY <1>1, <1>4, MoveKeeps
<1>6. NotYet'
  <2>1. cpu = "user" /\ Return(pst) /\ SameLife(pst)
    BY <1>4 DEF MqUnlink, MayCall, SameLife, PInv, CInv, IInv, KernelTypeOK
  <2> QED BY <1>5, <2>1, NotYetCalls
<1>7. Protocol'
  <2>1. ASSUME NEW Q \in Where("pong") PROVE Proto(Advance(h), Q)'
    <3>1. Proto(h, Q)
      BY <1>2, <1>3 DEF PInv, Protocol
    <3>2. mq' = [mq EXCEPT ![h.m].qname = 0]
      BY <1>4 DEF MqUnlink
    <3> QED BY <1>1, <1>2, <1>3, <1>5, <3>1, <3>2, PingUnlinks
  <2> QED BY <1>2, <1>5, <2>1, PingMoved DEF Roles
<1> QED BY <1>5, <1>6, <1>7 DEF Kept

\* A program is loaded into a process that ran none.
LEMMA StartKeeps ==
  ASSUME PInv, NEW r \in Roles, Start(r)
  PROVE  Kept
<1>1. /\ r \notin Running /\ mq' = mq
      /\ loc' = [loc EXCEPT ![current] = Start0(r)]
  <2>1. PICK e : e = Idle OBVIOUS
  <2>2. [e EXCEPT !.prog = r] = Start0(r)
    BY <2>1 DEF Idle, Start0
  <2> QED BY <2>1, <2>2 DEF Start, Go
<1>2. /\ cpu = "child" /\ cpu' = "user" /\ current' = current
      /\ pst' = [pst EXCEPT ![current] = "EXECUTING"] /\ ctx' = [ctx EXCEPT ![current] = "user"]
  BY DEF Start, Load, Exec
<1>3. /\ current \in Pids /\ pst \in [Pids -> PState] /\ ctx \in [Pids -> Points]
      /\ mq \in [Chans -> Entry]
  BY DEF PInv, CInv, IInv, KernelTypeOK, ChannelsOK
<1>4. /\ loc = [p \in Pids |-> loc[p]] /\ loc[current].prog = "none"
      /\ \A p, q \in Pids : (loc[p].prog = loc[q].prog /\ loc[p].prog \in Roles) => p = q
      /\ \A p \in Pids : loc[p] = Idle \/ \E x \in Roles : Placed(loc[p], x)
  BY <1>2 DEF PInv, Cast, NotYet
<1>5. /\ \A p \in Pids : loc'[p] = IF p = current THEN Start0(r) ELSE loc[p]
      /\ loc' = [p \in Pids |-> loc'[p]]
  BY <1>1, <1>3, <1>4
<1>6. Start0(r).prog = r /\ Placed(Start0(r), r)
  <2>1. 1 \in Names /\ 0 \in 0..(N - 1)
    BY PingPongAssumption
  <2> QED BY <2>1 DEF Start0, Placed, LocOf, Labels
<1>7. \A p \in Pids : loc[p].prog # r
  BY <1>1 DEF Running
<1>8. Cast'
  <2>1. \A p \in Pids : loc'[p] = Idle \/ \E x \in Roles : Placed(loc'[p], x)
    BY <1>4, <1>5, <1>6
  <2>2. \A p, q \in Pids : (loc'[p].prog = loc'[q].prog /\ loc'[p].prog \in Roles) => p = q
    BY <1>4, <1>5, <1>6, <1>7
  <2> QED BY <1>5, <2>1, <2>2 DEF Cast, Placed, LocOf
<1>9. NotYet'
  BY <1>2, <1>3, <1>5 DEF PInv, NotYet
<1>10. KeepRoles
  BY <1>4, <1>5 DEF KeepRoles, Roles
<1>11. Where(r) = {Start0(r)} /\ Where(r)' = {Start0(r)}
  <2>1. {loc[p] : p \in {x \in Pids : loc[x].prog = r}} = {}
    BY <1>7
  <2>2. {x \in Pids : loc'[x].prog = r} = {current}
    BY <1>3, <1>5, <1>6, <1>7
  <2>3. {loc'[p] : p \in {x \in Pids : loc'[x].prog = r}} = {Start0(r)}
    BY <1>3, <1>5, <2>2
  <2>4. (r \in Running)'
    BY <1>3, <1>5, <1>6 DEF Running
  <2> QED BY <1>1, <2>1, <2>3, <2>4 DEF Where
<1>12. ASSUME NEW s \in Roles \ {r} PROVE Where(s)' = Where(s)
  <2>1. {x \in Pids : loc'[x].prog = s} = {x \in Pids : loc[x].prog = s}
    BY <1>4, <1>5, <1>6 DEF Roles
  <2>2. \A x \in Pids : loc[x].prog = s => loc'[x] = loc[x]
    BY <1>4, <1>5 DEF Roles
  <2>3. {loc'[p] : p \in {x \in Pids : loc'[x].prog = s}} = {loc[p] : p \in {x \in Pids : loc[x].prog = s}}
    BY <2>1, <2>2
  <2>4. (s \in Running)' <=> s \in Running
    BY <2>1 DEF Running
  <2> QED BY <2>3, <2>4 DEF Where, Start0
<1>13. Protocol'
  <2>1. Waits(0) /\ 0 \in Chans
    BY <1>1, <1>3, <1>10, ChannelAssumption DEF Waits, Only, Chans
  <2>2. ASSUME NEW P \in Where("ping"), NEW Q \in Where("pong") PROVE Proto(P, Q)'
    BY <2>1, WaitProto DEF PInv, Protocol
  <2>3. Where("ping")' = Where("ping") /\ Where("pong")' = Where("pong")
    BY <1>11, <1>12 DEF Roles
  <2> QED BY <2>2, <2>3 DEF Protocol
<1> QED BY <1>8, <1>9, <1>13 DEF Kept

\* The shell and the interrupts touch neither programs nor channels.
LEMMA SystemKeeps ==
  ASSUME PInv, CInv', Typing \/ (Interrupt /\ UNCHANGED <<mq, pend, loc>>)
  PROVE  Kept
<1>1. mq' = mq /\ loc' = loc /\ mq' \in [Chans -> Entry]
  BY DEF Typing, CInv, ChannelsOK
<1>2. Cast' /\ Protocol'
  BY <1>1, StayKeeps
<1>3. /\ NotYet /\ ctx \in [Pids -> Points] /\ current \in Pids /\ current' \in Pids
      /\ pst \in [Pids -> PState]
  BY DEF PInv, CInv, IInv, KernelTypeOK
<1> SUFFICES NotYet'
  BY <1>2 DEF Kept
<1>4. pst' = pst => Steady(pst)
  BY <1>1 DEF Steady
<1>5. CASE EnterRead \/ OtherCommand
  BY <1>3, <1>4, <1>5, NotYetMoved DEF EnterRead, OtherCommand
<1>6. CASE RaisePri0
  <2>1. PICK df, pr : pst' = pst /\ Scheduler(pst, rq, pr, df, "yield")
    BY <1>6 DEF RaisePri0
  <2> QED BY <1>3, <1>4, <2>1, NotYetScheduled
<1>7. CASE Yield
  BY <1>3, <1>4, <1>7, NotYetScheduled DEF Yield
<1>8. CASE TimerIrq
  BY <1>3, <1>4, <1>8, NotYetScheduled DEF TimerIrq
<1>9. CASE UartIrq
  <2>1. PICK df, pr : pst' = pst /\ Scheduler(pst, rq, pr, df, cpu)
    BY <1>9 DEF UartIrq
  <2> QED BY <1>3, <1>4, <2>1, NotYetScheduled
<1>10. CASE Fork
  <2>1. PICK p \in Terminated :
          /\ pst' = [pst EXCEPT ![p] = "EXECUTING"] /\ ctx' = [ctx EXCEPT ![p] = AfterFork(0)]
          /\ cpu' = AfterFork(p)
    BY <1>10 DEF Fork
  <2>2. current' = current /\ current = 0
    BY <1>3, <1>10 DEF Fork, PInv, CInv, IInv, ShellInSlotZero, ShellPoints
  <2>3. p \in Pids /\ loc[p].prog = "none" /\ (cpu' = "child" => p = 0)
    BY <1>3, <2>1 DEF Terminated, NotYet, AfterFork
  <2> QED BY <1>1, <1>3, <2>1, <2>2, <2>3 DEF NotYet
<1> QED BY <1>5, <1>6, <1>7, <1>8, <1>9, <1>10 DEF Typing, Interrupt

\* Every step of the two programs is one that the channels allow.
LEMMA StepOfChannel ==
  ASSUME PInv, [PPNext]_ppVars
  PROVE  [ChanNext]_chanVars /\ nine' = nine
<1>1. CASE UNCHANGED ppVars
  BY <1>1 DEF ppVars, chanVars, procVars
<1>2. CASE fault = "none" /\ Interrupt /\ UNCHANGED <<nine, mq, pend, loc>>
  BY <1>2 DEF ChanNext
<1>3. CASE fault = "none" /\ Typing /\ UNCHANGED nine
  BY <1>3 DEF ChanNext, Typing, Shell
<1>4. ASSUME fault = "none", NEW r \in Roles, Start(r), UNCHANGED nine
      PROVE  [ChanNext]_chanVars /\ nine' = nine
  BY <1>4 DEF ChanNext, Start
<1>5. ASSUME fault = "none", Program, UNCHANGED nine PROVE [ChanNext]_chanVars /\ nine' = nine
  BY <1>5 DEF ChanNext
<1>6. ASSUME Here.prog \in Roles
      PROVE  /\ Here.k \in Names /\ (Here.at # "open" => Here.m \in Chans)
             /\ Here.at = "send" => Message(Here.prog, Here.i) \in Values
  BY <1>6, InRole, MessageFacts, PosFacts
<1>7. Open => Program
  BY <1>6 DEF Open, At, Program
<1>8. Send => Program
  BY <1>6 DEF Send, At, Program
<1>9. Receive => Program
  BY <1>6 DEF Receive, At, Program
<1>10. Unlink => Program
  BY <1>6 DEF Unlink, At, Program
<1> QED BY <1>1, <1>2, <1>3, <1>4, <1>5, <1>7, <1>8, <1>9, <1>10 DEF PPNext, Run

\* The reset state satisfies the invariant.
LEMMA PPInitInv == PPInit => PInv
<1> SUFFICES ASSUME PPInit PROVE PInv
  OBVIOUS
<1>1. CInv /\ nine = FALSE
  BY ChanInitInv DEF PPInit, ChanInit, Init
<1>2. loc = [p \in Pids |-> Idle] /\ mq = [c \in Chans |-> Unused]
  BY DEF PPInit, ChanInit
<1>3. Idle.prog = "none" /\ Unused.qname = 0
  BY DEF Idle, Unused
<1>4. Cast /\ NotYet
  BY <1>2, <1>3 DEF Cast, NotYet, Roles, PInv, CInv, IInv, KernelTypeOK, PPInit, ChanInit, Init
<1>5. Running = {}
  BY <1>2, <1>3 DEF Running, Roles
<1>6. ASSUME NEW r \in Roles PROVE Where(r) = {Start0(r)}
  <2>1. {loc[p] : p \in {x \in Pids : loc[x].prog = r}} = {}
    BY <1>2, <1>3 DEF Roles
  <2> QED BY <1>5, <2>1 DEF Where
<1>7. ASSUME NEW r \in Roles
      PROVE  /\ Placed(Start0(r), r) /\ Start0(r).at = "open" /\ Start0(r).k = 1
             /\ Pos(Start0(r)) = 0
  <2>1. 1 \in Names /\ 0 \in 0..(N - 1)
    BY PingPongAssumption
  <2>2. Placed(Start0(r), r) /\ Start0(r).at = "open" /\ Start0(r).k = 1
    BY <2>1 DEF Start0, Placed, LocOf, Labels
  <2> QED BY <2>2, PosFacts
<1>8. Proto(Start0("ping"), Start0("pong"))
  <2>1. Close(0, 0)
    BY PingPongAssumption DEF Close
  <2>2. OnlyTheirs(Start0("ping"), Start0("pong"))
    BY <1>2, <1>3 DEF OnlyTheirs
  <2> QED BY <1>7, <2>1, <2>2 DEF Proto, SameRound, Holds, Roles
<1>9. Protocol
  BY <1>6, <1>8 DEF Protocol, Roles
<1> QED BY <1>1, <1>4, <1>9 DEF PInv

\* The inductive invariant holds in every reachable state.
LEMMA PPInvariance == PPSpec => []PInv
<1>1. PInv /\ [PPNext]_ppVars => PInv'
  <2> SUFFICES ASSUME PInv, [PPNext]_ppVars PROVE PInv'
    OBVIOUS
  <2>1. nine' = FALSE /\ nine = FALSE /\ [ChanNext]_chanVars
    BY StepOfChannel DEF PInv
  <2>2. CInv'
    BY <2>1, ChanNextInv DEF PInv
  <2>3. CASE UNCHANGED ppVars
    <3>1. mq' = mq /\ loc' = loc /\ ctx' = ctx /\ pst' = pst /\ current' = current /\ cpu' = cpu
      BY <2>3 DEF ppVars, chanVars, procVars
    <3>2. mq' \in [Chans -> Entry]
      BY <2>2 DEF CInv, ChannelsOK
    <3>3. Cast' /\ Protocol'
      BY <3>1, <3>2, StayKeeps
    <3>4. NotYet'
      BY <3>1 DEF PInv, NotYet
    <3> QED BY <2>1, <2>2, <3>3, <3>4 DEF PInv
  <2>4. CASE PPNext
    <3>1. Kept
      BY <2>2, <2>4, SystemKeeps, StartKeeps, OpenKeeps, SendKeeps, ReceiveKeeps, UnlinkKeeps
         DEF PPNext, Run
    <3> QED BY <2>1, <2>2, <3>1 DEF PInv, Kept
  <2> QED BY <2>3, <2>4
<1> QED BY <1>1, PPInitInv, PTL DEF PPSpec

-----------------------------------------------------------------------------
(* The theorems. *)

\* Whatever the scheduler does, a program that is about to take a message takes the
\* one that the other program sent in the same iteration.
THEOREM LockstepCorrect == PPSpec => []InLockstep
<1>1. PInv => InLockstep
  <2> SUFFICES ASSUME PInv, At("receive"), CanReceive(Here.m)
               PROVE  mq[Here.m].buf.v = Message(Other(Here.prog), Here.i)
    BY DEF InLockstep
  <2>1. PICK P, Q : P \in Where("ping") /\ Q \in Where("pong")
    BY Somewhere DEF Roles
  <2> QED BY <2>1, RightMessage DEF At
<1> QED BY <1>1, PPInvariance, PTL

\* mq_open never fails: two channels are enough for ever.
THEOREM ChannelsSuffice == PPSpec => []ChannelAvailable
<1>1. PInv => ChannelAvailable
  <2> SUFFICES ASSUME PInv, NEW p \in Pids, loc[p].at \in {"send", "receive", "unlink"}
               PROVE  loc[p].m \in Chans
    BY DEF ChannelAvailable
  <2>1. PICK r \in Roles : loc[p].prog = r
    BY DEF PInv, Cast, Idle, Placed, LocOf
  <2>2. loc[p] \in Where(r)
    BY <2>1 DEF Where
  <2>3. PICK P, Q : P \in Where("ping") /\ Q \in Where("pong")
    BY Somewhere DEF Roles
  <2>4. Holds(loc[p])
    BY <2>2, <2>3 DEF PInv, Protocol, Proto, Roles
  <2> QED BY <2>4 DEF Holds
<1> QED BY <1>1, PPInvariance, PTL

\* In the same round the programs use the same channel, they are at most one round
\* apart, and no name has two channels.
THEOREM SameChannelCorrect == PPSpec => []SameChannel
<1>1. PInv => SameChannel
  <2> SUFFICES ASSUME PInv PROVE SameChannel
    OBVIOUS
  <2>1. PICK P, Q : P \in Where("ping") /\ Q \in Where("pong")
    BY Somewhere DEF Roles
  <2>2. Proto(P, Q)
    BY <2>1 DEF PInv, Protocol
  <2>3. UniqueNames
    <3>1. CASE SameRound(P, Q)
      BY <2>2, <3>1 DEF Proto, SameRound, OnlyTheirs, UniqueNames
    <3>2. CASE OneAhead(P, Q)
      <4>1. P.k # Q.k
        BY <2>2, <3>2, NextName, PosFacts DEF Proto, OneAhead, Roles
      <4> QED BY <2>2, <4>1 DEF Proto, Holds, OnlyTheirs, UniqueNames
    <3> QED BY <2>2, <3>1, <3>2 DEF Proto
  <2>4. ASSUME NEW p \in Pids, NEW q \in Pids, loc[p].prog = "ping", loc[q].prog = "pong",
               loc[p].at # "open", loc[q].at # "open"
        PROVE  /\ loc[p].k = loc[q].k => loc[p].m = loc[q].m
               /\ loc[q].k \in {loc[p].k, (loc[p].k % NAME_MOD) + 1}
    <3>1. Proto(loc[p], loc[q])
      BY <2>4 DEF PInv, Protocol, Where
    <3>2. CASE SameRound(loc[p], loc[q])
      BY <2>4, <3>2 DEF SameRound
    <3>3. CASE OneAhead(loc[p], loc[q])
      <4>1. loc[p].k # loc[q].k
        BY <3>1, <3>3, NextName, PosFacts DEF Proto, OneAhead, Roles
      <4> QED BY <3>3, <4>1 DEF OneAhead
    <3> QED BY <3>1, <3>2, <3>3 DEF Proto
  <2> QED BY <2>3, <2>4 DEF SameChannel
<1> QED BY <1>1, PPInvariance, PTL
=============================================================================
