------------------------------ MODULE DiskLink ------------------------------
(***************************************************************************)
(* The disk: the driver in the kernel (src/device/disk.c) sends a request  *)
(* as a line of text through the UART (src/device/PL011.c) to the disk     *)
(* program (src/device/disk.py), which answers with a line of text.  The   *)
(* driver repeats a refused request RETRY times and then gives up without  *)
(* telling its caller.                                                     *)
(*                                                                         *)
(* The lines go through character by character.  Both FIFOs of the UART    *)
(* are bounded; the driver spins while it can neither put nor get.         *)
(***************************************************************************)
EXTENDS Integers, SequencesExt

CONSTANTS
  RETRY,      \* attempts per call, 3 in disk.h
  FIFO,       \* characters in a FIFO of the UART, 16 in the PL011
  ADDR_LEN,   \* bytes in an address, 4 in the code
  BLOCK_NUM,  \* blocks on the disk, 2048 in disk.sh
  BLOCK_LEN,  \* bytes in a block, 512 in disk.sh and fs.h
  Bytes,      \* the byte values that are written
  Addresses   \* the addresses that the kernel uses, as unsigned numbers

\* The weight of a byte in an address; i bytes hold Weight[i] different values
Weight[i \in 0..ADDR_LEN] == IF i = 0 THEN 1 ELSE 256 * Weight[i - 1]

ASSUME DiskLinkAssumption ==
  /\ {RETRY, FIFO, ADDR_LEN, BLOCK_NUM, BLOCK_LEN} \subseteq Nat \ {0}
  /\ Bytes \subseteq 0..255
  /\ Addresses \subseteq 0..(Weight[ADDR_LEN] - 1)
  /\ BLOCK_NUM < Weight[ADDR_LEN] \div 2 /\ BLOCK_LEN < Weight[ADDR_LEN] \div 2

Blocks == 0..(BLOCK_NUM - 1)

\* disk_wr is called with up to a block of data, disk_rd always for a whole block
CallsTo(a) ==
  [op : {"wr"}, a : {a}, x : UNION {[1..n -> Bytes] : n \in 1..BLOCK_LEN}]
    \cup {[op |-> "rd", a |-> a, x |-> <<>>]}
Calls == (UNION {CallsTo(a) : a \in Addresses}) \cup {[op |-> "conf", a |-> 0, x |-> <<>>]}

-----------------------------------------------------------------------------
(* Bytes and addresses as text. *)

HEX == <<"0", "1", "2", "3", "4", "5", "6", "7", "8", "9", "A", "B", "C", "D", "E", "F">>
hex == <<"0", "1", "2", "3", "4", "5", "6", "7", "8", "9", "a", "b", "c", "d", "e", "f">>

Itox(x) == HEX[x + 1]
Xtoi(c) ==
  IF c \notin ToSet(HEX \o hex) THEN -1
  ELSE CHOOSE x \in 0..15 : HEX[x + 1] = c \/ hex[x + 1] = c

\* Mutant of Puth: the digits are in the wrong order
PuthSwapped(x) == <<Itox(x % 16), Itox((x \div 16) % 16)>>

Puth(x) == <<Itox((x \div 16) % 16), Itox(x % 16)>>

\* Two digits, or what the bitwise or makes of characters that are none
Geth(h, l) == IF Xtoi(l) = -1 THEN 255 ELSE (Xtoi(h) * 16 + Xtoi(l)) % 256

\* binascii.hexlify and unhexlify; the former writes small letters
Small(x)     == <<hex[(x \div 16) + 1], hex[(x % 16) + 1]>>
Hexlify(s)   == [k \in 1..(2 * Len(s)) |-> Small(s[(k + 1) \div 2])[2 - (k % 2)]]
Unhexlify(t) == [i \in 1..(Len(t) \div 2) |-> Geth(t[2 * i - 1], t[2 * i])]

DataPuth(s) == [k \in 1..(2 * Len(s)) |-> Puth(s[(k + 1) \div 2])[2 - (k % 2)]]
DataGeth(t) == Unhexlify(t)

\* An address, least significant byte first; struct.unpack( '<l' ) makes it signed
Little(a) == [i \in 1..ADDR_LEN |-> (a \div Weight[i - 1]) % 256]
AddrPuth(a) == DataPuth(Little(a))
Unpack(s) ==
  LET v[i \in 0..ADDR_LEN] == IF i = 0 THEN 0 ELSE v[i - 1] + s[i] * Weight[i - 1]
      W == Weight[ADDR_LEN]
  IN IF v[ADDR_LEN] >= W \div 2 THEN v[ADDR_LEN] - W ELSE v[ADDR_LEN]

EOL == "\n"
SEP == "blank"

\* The line that the driver sends for a call
Request(c) ==
  CASE c.op = "conf" -> Puth(0) \o <<EOL>>
    [] c.op = "wr"   -> Puth(1) \o <<SEP>> \o AddrPuth(c.a) \o <<SEP>> \o DataPuth(c.x) \o <<EOL>>
    [] c.op = "rd"   -> Puth(2) \o <<SEP>> \o AddrPuth(c.a) \o <<EOL>>

-----------------------------------------------------------------------------
VARIABLES
  call,    \* driver: the call in progress, or <<>>
  tries,   \* driver: the loop counter i
  out,     \* driver: the characters of the request that are still to be put
  got,     \* driver: the characters of the answer so far
  buf,     \* driver: the data that the last call returned
  tx, rx,  \* the FIFOs of the UART
  line,    \* disk: the part of a request line it has read
  ack,     \* disk: the part of its answer that is still on the way
  alive,   \* disk: the program is running
  disk,    \* disk: the contents of the image
  done     \* auxiliary: the disk has carried out the call in progress

vars == <<call, tries, out, got, buf, tx, rx, line, ack, alive, disk, done>>

Init ==
  /\ call = <<>> /\ tries = 0 /\ out = <<>> /\ got = <<>> /\ buf = <<>>
  /\ tx = <<>> /\ rx = <<>> /\ line = <<>> /\ ack = <<>>
  /\ alive = TRUE /\ done = FALSE
  /\ disk \in [Blocks -> [1..BLOCK_LEN -> Bytes]]

-----------------------------------------------------------------------------
(* The driver. *)

Invoke(c) ==
  /\ call = <<>>
  /\ call' = <<c>> /\ tries' = 0 /\ out' = Request(c) /\ got' = <<>> /\ done' = FALSE
  /\ UNCHANGED <<buf, tx, rx, line, ack, alive, disk>>

\* PL011_putc
Put ==
  /\ out # <<>> /\ Len(tx) < FIFO
  /\ tx' = Append(tx, Head(out)) /\ out' = Tail(out)
  /\ UNCHANGED <<call, tries, got, buf, rx, line, ack, alive, disk, done>>

\* The answer is an acknowledgement
Acked(t) == Geth(t[1], t[2]) = 0

\* The number of data bytes that the driver reads after an acknowledgement
DataLen(c) == CASE c.op = "wr" -> 0 [] c.op = "rd" -> BLOCK_LEN [] c.op = "conf" -> 2 * ADDR_LEN

\* Mutant of Expects: the end of the line is not read after a refusal
ExpectsNoEol(c, t) ==
  IF Len(t) < 2 \/ ~Acked(t) THEN 2 ELSE 3 + IF c.op # "wr" THEN 1 + 2 * DataLen(c) ELSE 0

\* The number of characters that the driver reads, given the ones in t: the command,
\* if it is an acknowledgement a separator and the data, and the end of the line
Expects(c, t) ==
  IF Len(t) < 2 THEN 2
  ELSE 3 + IF Acked(t) /\ c.op # "wr" THEN 1 + 2 * DataLen(c) ELSE 0

Reading == call # <<>> /\ out = <<>>

\* PL011_getc
Get ==
  /\ Reading /\ rx # <<>> /\ Len(got) < Expects(call[1], got)
  /\ got' = Append(got, Head(rx)) /\ rx' = Tail(rx)
  /\ UNCHANGED <<call, tries, out, buf, tx, line, ack, alive, disk, done>>

Answered == Reading /\ Len(got) >= 2 /\ Len(got) = Expects(call[1], got)

\* The request was carried out
ReturnOk ==
  /\ Answered /\ Acked(got)
  /\ buf' = IF call[1].op = "wr" THEN buf
            ELSE DataGeth(SubSeq(got, 4, 3 + 2 * DataLen(call[1])))
  /\ call' = <<>>
  /\ UNCHANGED <<tries, out, got, tx, rx, line, ack, alive, disk, done>>

\* Mutant of Retry: the attempts are not counted
RetryForever ==
  /\ Answered /\ ~Acked(got)
  /\ out' = Request(call[1]) /\ got' = <<>>
  /\ UNCHANGED <<call, tries, buf, tx, rx, line, ack, alive, disk, done>>

\* The request was refused: once more from the beginning
Retry ==
  /\ Answered /\ ~Acked(got) /\ tries + 1 < RETRY
  /\ tries' = tries + 1 /\ out' = Request(call[1]) /\ got' = <<>>
  /\ UNCHANGED <<call, buf, tx, rx, line, ack, alive, disk, done>>

\* The last attempt was refused as well
GiveUp ==
  /\ Answered /\ ~Acked(got) /\ tries + 1 >= RETRY
  /\ call' = <<>>
  /\ UNCHANGED <<tries, out, got, buf, tx, rx, line, ack, alive, disk, done>>

Driver == (\E c \in Calls : Invoke(c)) \/ Put \/ Get \/ ReturnOk \/ Retry \/ GiveUp

-----------------------------------------------------------------------------
(* The disk program. *)

WholeLine == line # <<>> /\ Last(line) = EOL

\* sd.readline()
ReadChar ==
  /\ alive /\ ~WholeLine /\ tx # <<>>
  /\ line' = Append(line, Head(tx)) /\ tx' = Tail(tx)
  /\ UNCHANGED <<call, tries, out, got, buf, rx, ack, alive, disk, done>>

HaveLine == alive /\ WholeLine

Command   == Geth(line[1], line[2])
Address   == Unpack(Unhexlify(SubSeq(line, 4, 3 + 2 * ADDR_LEN)))
WriteData == Unhexlify(SubSeq(line, 5 + 2 * ADDR_LEN, Len(line) - 1))

AckFail     == <<"0", "1", EOL>>
AckOkay(s)  == <<"0", "0">> \o (IF s = <<>> THEN <<>> ELSE <<SEP>> \o Hexlify(s)) \o <<EOL>>

\* The answer to a request leaves as a whole
Answer(a, d) ==
  /\ ack' = ack \o a /\ disk' = d /\ line' = <<>>
  /\ done' = (done \/ a # AckFail)
  /\ UNCHANGED <<call, tries, out, got, buf, tx, rx, alive>>

ConfBytes == Little(BLOCK_NUM) \o Little(BLOCK_LEN)

ServeConf == HaveLine /\ Command = 0 /\ Answer(AckOkay(ConfBytes), disk)

\* An unknown command, or an address behind the last block
Refused == Command # 0 /\ (Command \in {1, 2} => Address >= BLOCK_NUM)

ServeRefuse == HaveLine /\ Refused /\ Answer(AckFail, disk)

ServeWrite ==
  /\ HaveLine /\ Command = 1 /\ Address \in Blocks
  /\ LET x == WriteData IN
     Answer(AckOkay(<<>>),
            [disk EXCEPT ![Address] = [i \in 1..BLOCK_LEN |-> IF i <= Len(x) THEN x[i] ELSE @[i]]])

ServeRead ==
  /\ HaveLine /\ Command = 2 /\ Address \in Blocks
  /\ Answer(AckOkay(disk[Address]), disk)

\* fd.seek to a negative offset raises an exception that nobody catches
ServeSeekError ==
  /\ HaveLine /\ Command \in {1, 2} /\ Address < 0
  /\ alive' = FALSE
  /\ UNCHANGED <<call, tries, out, got, buf, tx, rx, line, ack, disk, done>>

\* The socket fills the receive FIFO
Deliver ==
  /\ ack # <<>> /\ Len(rx) < FIFO
  /\ rx' = Append(rx, Head(ack)) /\ ack' = Tail(ack)
  /\ UNCHANGED <<call, tries, out, got, buf, tx, line, alive, disk, done>>

Server == ReadChar \/ ServeConf \/ ServeRefuse \/ ServeWrite \/ ServeRead \/ ServeSeekError

\* Once the disk program is gone the driver spins for ever
Spin == ~alive /\ out = <<>> /\ rx = <<>> /\ UNCHANGED vars

Next == Driver \/ Server \/ Deliver \/ Spin

Spec == Init /\ [][Next]_vars

\* The driver loops until it can go on, the disk program runs, the socket delivers
FairSpec ==
  /\ Spec
  /\ WF_vars(Put \/ Get \/ ReturnOk \/ Retry \/ GiveUp)
  /\ WF_vars(Server)
  /\ WF_vars(Deliver)

-----------------------------------------------------------------------------
(* Properties. *)

\* Every variable has its type, and the FIFOs hold what they can hold.
TypeOK ==
  /\ call = <<>> \/ call[1] \in Calls
  /\ tries \in 0..(RETRY - 1)
  /\ Len(tx) <= FIFO /\ Len(rx) <= FIFO
  /\ ToSet(out \o got \o tx \o rx \o line \o ack) \subseteq ToSet(HEX \o hex) \cup {EOL, SEP}
  /\ disk \in [Blocks -> [1..BLOCK_LEN -> Bytes]]
  /\ alive \in BOOLEAN /\ done \in BOOLEAN

\* Between two calls nothing is left in the UART, the socket or the disk program: the
\* driver reads exactly what the disk sends, whether the request was carried out,
\* refused and repeated, or given up, and no answer is taken for that of a later call.
\* All along the variables have their types, and no FIFO is overrun.
InSync ==
  /\ TypeOK
  /\ call = <<>> => tx \o rx \o line \o ack = <<>>

\* The link with its conversions, FIFOs and repetitions implements a disk that
\* carries out each call exactly once, or not at all when the address is invalid.
Device == INSTANCE BlockDevice WITH store <- disk, Conf <- ConfBytes
ImplementsDevice == Device!DevSpec

\* Every call returns, refused ones after RETRY attempts, unless its address is one that
\* the disk program takes for negative, which ends that program; balloc's -1 is one.
CallReturns == (\E c \in ToSet(call) : 2 * c.a < Weight[ADDR_LEN]) ~> (call = <<>>)
=============================================================================
