--------------------------- MODULE DiskLinkProofs ---------------------------
(***************************************************************************)
(* Proofs about DiskLink, for any number and length of blocks, any length  *)
(* of addresses and of the FIFOs, and any number of attempts: the driver   *)
(* and the disk program stay in step, and together they implement the      *)
(* block device.                                                           *)
(***************************************************************************)
EXTENDS DiskLink, SequenceTheorems, WellFoundedInduction, TLAPS

Digits == ToSet(HEX \o hex)
Chars  == Digits \cup {EOL, SEP}
Byte   == 0..255

-----------------------------------------------------------------------------
(***************************************************************************)
(* The invariant.  A call is either on its way to the disk program or its  *)
(* answer is on the way back; each character of the line is at one place.  *)
(***************************************************************************)

Accepted(c) == c.op = "conf" \/ c.a \in Blocks

\* What the disk program answers to a call when the disk holds d.
ReplyData(c, d) == CASE c.op = "wr" -> <<>> [] c.op = "rd" -> d[c.a] [] c.op = "conf" -> ConfBytes
Reply(c, d) == IF Accepted(c) THEN AckOkay(ReplyData(c, d)) ELSE AckFail

Images == [Blocks -> [1..BLOCK_LEN -> Bytes]]

Types ==
  /\ call = <<>> \/ \E c \in Calls : call = <<c>>
  /\ tries \in 0..(RETRY - 1)
  /\ out \in Seq(Chars) /\ got \in Seq(Chars) /\ tx \in Seq(Chars) /\ rx \in Seq(Chars)
  /\ line \in Seq(Chars) /\ ack \in Seq(Chars)
  /\ Len(tx) <= FIFO /\ Len(rx) <= FIFO
  /\ disk \in Images /\ alive \in BOOLEAN /\ done \in BOOLEAN

Quiet == out = <<>> /\ tx = <<>> /\ rx = <<>> /\ line = <<>> /\ ack = <<>>

Sending(c) ==
  /\ got = <<>> /\ rx = <<>> /\ ack = <<>> /\ ~done
  /\ (line \o tx) \o out = Request(c)

Answering(c) ==
  /\ out = <<>> /\ tx = <<>> /\ line = <<>> /\ (done <=> Accepted(c))
  /\ (got \o rx) \o ack = Reply(c, disk)

IInv ==
  /\ Types
  /\ call = <<>> => Quiet
  /\ call # <<>> => Sending(call[1]) \/ Answering(call[1])

-----------------------------------------------------------------------------
(* Numbers. *)

\* The sizes are positive.
LEMMA Sizes ==
  /\ RETRY \in Nat \ {0} /\ FIFO \in Nat \ {0} /\ ADDR_LEN \in Nat \ {0}
  /\ BLOCK_NUM \in Nat \ {0} /\ BLOCK_LEN \in Nat \ {0} /\ Bytes \subseteq Byte
BY DiskLinkAssumption DEF Byte

\* Bytes are numbers.
LEMMA ByteNat ==
  \A b \in Byte : b \in Nat
BY DEF Byte

\* The order of the natural numbers as a relation.
LEMMA Less ==
  ASSUME NEW x \in Nat, NEW y \in Nat, x < y
  PROVE  <<x, y>> \in OpToRel(<, Nat)
<1>1. <<x, y>> \in Nat \X Nat /\ <<x, y>>[1] = x /\ <<x, y>>[2] = y
  OBVIOUS
<1>2. <<x, y>>[1] < <<x, y>>[2]
  OBVIOUS
<1> QED BY <1>1, <1>2, Zenon DEF OpToRel

\* Induction up to n, for a set of numbers.
LEMMA Induction ==
  ASSUME NEW n \in Nat, NEW S, 0 \in S, \A k \in 0..(n - 1) : k \in S => k + 1 \in S
  PROVE  0..n \subseteq S
<1> DEFINE T == 0..n \ S
<1>1. SUFFICES ASSUME T # {} PROVE FALSE
  OBVIOUS
<1>2. T \subseteq Nat
  OBVIOUS
<1> HIDE DEF T
<1>3. PICK x \in T : \A y \in T : ~(<<y, x>> \in OpToRel(<, Nat))
  BY <1>1, <1>2, NatLessThanWellFounded, WFMin, Zenon
<1>4. x \in Nat /\ x # 0 /\ x - 1 \in Nat /\ x - 1 < x /\ x - 1 \in 0..(n - 1) /\ x - 1 + 1 = x
  BY DEF T
<1>5. x - 1 \notin T
  BY <1>3, <1>4, Less, Zenon
<1>6. x - 1 \in S
  BY <1>4, <1>5 DEF T
<1> QED BY <1>4, <1>6 DEF T

\* A function can be defined by recursion up to n.
LEMMA Recursion ==
  ASSUME NEW n \in Nat, NEW z \in Nat, NEW F \in [(1..n) \X Nat -> Nat]
  PROVE  \E g \in [0..n -> Nat] : g[0] = z /\ \A i \in 1..n : g[i] = F[<<i, g[i - 1]>>]
<1> DEFINE Body(g, i) == IF i = 0 THEN z ELSE F[<<i, g[i - 1]>>]
           Good(k) == {g \in [0..k -> Nat] : \A i \in 0..k : g[i] = Body(g, i)}
           S == {k \in 0..n : Good(k) # {}}
<1>1. 0 \in S
  <2>1. [i \in 0..0 |-> z] \in Good(0)
    OBVIOUS
  <2> QED BY <2>1
<1>2. ASSUME NEW k \in 0..(n - 1), k \in S PROVE k + 1 \in S
  <2>1. PICK f \in [0..k -> Nat] : \A i \in 0..k : f[i] = Body(f, i)
    BY <1>2
  <2>2. PICK g : g = [i \in 0..(k + 1) |-> IF i = k + 1 THEN F[<<k + 1, f[k]>>] ELSE f[i]]
    OBVIOUS
  <2>3. k \in 0..k /\ k + 1 \in 1..n /\ \A i \in 0..(k + 1) : i \in 0..k \/ i = k + 1
    OBVIOUS
  <2>4. F[<<k + 1, f[k]>>] \in Nat
    <3>1. <<k + 1, f[k]>> \in (1..n) \X Nat
      BY <2>1, <2>3
    <3> QED BY <3>1
  <2>5. g \in [0..(k + 1) -> Nat]
    BY <2>1, <2>2, <2>3, <2>4
  <2>6. ASSUME NEW i \in 0..(k + 1) PROVE g[i] = Body(g, i)
    <3>1. CASE i = k + 1
      <4>1. i # 0 /\ i - 1 = k /\ k # k + 1 /\ k \in 0..(k + 1)
        BY <3>1
      <4>2. g[i] = F[<<i, f[k]>>] /\ g[k] = f[k]
        BY <2>2, <3>1, <4>1
      <4> QED BY <4>1, <4>2
    <3>2. CASE i # k + 1
      <4>1. i \in 0..k /\ (i # 0 => i - 1 \in 0..k /\ i - 1 # k + 1 /\ i - 1 \in 0..(k + 1))
        BY <3>2
      <4>2. g[i] = f[i] /\ (i # 0 => g[i - 1] = f[i - 1])
        BY <2>2, <3>2, <4>1
      <4> QED BY <2>1, <4>1, <4>2
    <3> QED BY <3>1, <3>2
  <2>7. g \in Good(k + 1) /\ k + 1 \in 0..n
    BY <2>5, <2>6
  <2> HIDE DEF Good
  <2> QED BY <2>7
<1>3. n \in S
  <2> HIDE DEF S
  <2>1. 0..n \subseteq S
    BY <1>1, <1>2, Induction
  <2> QED BY <2>1
<1>4. PICK g \in [0..n -> Nat] : \A i \in 0..n : g[i] = Body(g, i)
  BY <1>3
<1>5. 0 \in 0..n /\ \A i \in 1..n : i \in 0..n /\ i # 0
  OBVIOUS
<1>6. g[0] = z
  BY <1>4, <1>5
<1>7. ASSUME NEW i \in 1..n PROVE g[i] = F[<<i, g[i - 1]>>]
  <2>1. i \in 0..n /\ i # 0
    BY <1>5
  <2>2. g[i] = Body(g, i)
    BY <1>4, <2>1, Zenon
  <2> QED BY <2>1, <2>2
<1> QED BY <1>6, <1>7

\* The weights are powers of 256.
LEMMA WeightDef ==
  /\ Weight \in [0..ADDR_LEN -> Nat \ {0}]
  /\ Weight[0] = 1
  /\ \A k \in 0..(ADDR_LEN - 1) : Weight[k + 1] = 256 * Weight[k]
<1> DEFINE n == ADDR_LEN
<1>0. n \in Nat
  BY Sizes
<1> DEFINE F == [p \in (1..n) \X Nat |-> 256 * p[2]]
<1>1. F \in [(1..n) \X Nat -> Nat]
  OBVIOUS
<1>2. PICK g \in [0..n -> Nat] : g[0] = 1 /\ \A i \in 1..n : g[i] = F[<<i, g[i - 1]>>]
  <2> HIDE DEF F, n
  <2>1. 1 \in Nat
    OBVIOUS
  <2> QED BY <1>0, <1>1, <2>1, Recursion
<1>3. \A i \in 0..n : g[i] = IF i = 0 THEN 1 ELSE 256 * g[i - 1]
  <2>1. ASSUME NEW i \in 0..n, i # 0 PROVE F[<<i, g[i - 1]>>] = 256 * g[i - 1]
    <3>1. <<i, g[i - 1]>> \in (1..n) \X Nat
      BY <1>0, <2>1
    <3> QED BY <3>1
  <2>2. \A i \in 0..n : i = 0 \/ i \in 1..n
    BY <1>0
  <2> HIDE DEF F
  <2> QED BY <1>2, <2>1, <2>2
<1>4. g = [i \in 0..n |-> IF i = 0 THEN 1 ELSE 256 * g[i - 1]]
  BY <1>3
<1>5. PICK w : w = Weight
  OBVIOUS
<1>6. w = [i \in 0..n |-> IF i = 0 THEN 1 ELSE 256 * w[i - 1]]
  BY <1>4, <1>5, ZenonT(40) DEF Weight
<1>7. \A i \in 0..n : w[i] = IF i = 0 THEN 1 ELSE 256 * w[i - 1]
  BY <1>6, Zenon
<1> DEFINE S == {i \in 0..n : w[i] \in Nat \ {0}}
<1>8. 0 \in S
  BY <1>0, <1>7
<1>9. ASSUME NEW k \in 0..(n - 1), k \in S PROVE k + 1 \in S
  <2>1. k + 1 \in 0..n /\ k + 1 # 0 /\ k + 1 - 1 = k
    BY <1>0
  <2>2. w[k + 1] = 256 * w[k]
    BY <1>7, <2>1
  <2> QED BY <1>9, <2>1, <2>2
<1>10. 0..n \subseteq S
  <2> HIDE DEF S
  <2> QED BY <1>0, <1>8, <1>9, Induction
<1>11. w \in [0..n -> Nat \ {0}]
  BY <1>6, <1>10
<1>12. ASSUME NEW k \in 0..(n - 1) PROVE w[k + 1] = 256 * w[k]
  <2>1. k + 1 \in 0..n /\ k + 1 # 0 /\ k + 1 - 1 = k
    BY <1>0
  <2> QED BY <1>7, <2>1
<1> QED BY <1>0, <1>5, <1>7, <1>11, <1>12

\* Quotient and remainder.
LEMMA DivMod ==
  ASSUME NEW y \in Nat, NEW m \in Nat \ {0}
  PROVE  y \div m \in Nat /\ y % m \in 0..(m - 1) /\ y = m * (y \div m) + (y % m)
<1>1. m \in Int /\ m > 0 /\ y \in Int
  OBVIOUS
<1>2. y \div m \in Nat
  OBVIOUS
<1>3. y % m \in 0..(m - 1)
  BY <1>1
<1>4. y = m * (y \div m) + (y % m)
  BY <1>1
<1> QED BY <1>2, <1>3, <1>4

\* Products of sums.
LEMMA Distributes ==
  ASSUME NEW x \in Int, NEW y \in Int, NEW m \in Int
  PROVE  m * (x + y) = m * x + m * y
OBVIOUS

\* They are unique.
LEMMA DivModUnique ==
  ASSUME NEW q \in Nat, NEW m \in Nat \ {0}, NEW r \in 0..(m - 1)
  PROVE  (m * q + r) % m = r
<1>1. PICK y \in Nat : y = m * q + r
  OBVIOUS
<1>2. PICK p \in Nat, s \in 0..(m - 1) : y = m * p + s /\ s = y % m
  BY <1>1, DivMod
<1>3. CASE p = q
  <2>1. m * p + s = m * p + r
    BY <1>1, <1>2, <1>3, Zenon
  <2>2. s = r
    BY <2>1
  <2> QED BY <1>1, <1>2, <2>2, Zenon
<1>4. CASE p < q
  <2>1. PICK d \in Nat : q = p + 1 + d
    <3>1. q - p - 1 \in Nat /\ q = p + 1 + (q - p - 1)
      BY <1>4
    <3> QED BY <3>1
  <2>2. m * q = m * p + m + m * d /\ m * d \in Nat /\ m * p \in Nat
    BY <2>1
  <2> QED BY <1>1, <1>2, <2>2
<1>5. CASE q < p
  <2>1. PICK d \in Nat : p = q + 1 + d
    <3>1. p - q - 1 \in Nat /\ p = q + 1 + (p - q - 1)
      BY <1>5
    <3> QED BY <3>1
  <2>2. m * p = m * q + m + m * d /\ m * d \in Nat /\ m * q \in Nat
    BY <2>1
  <2> QED BY <1>1, <1>2, <2>2
<1> QED BY <1>3, <1>4, <1>5

\* The value of the lower bytes of a number and of the next one.
LEMMA NextByte ==
  ASSUME NEW y \in Nat, NEW w \in Nat \ {0}
  PROVE  y % (256 * w) = (y % w) + ((y \div w) % 256) * w
<1>1. PICK q \in Nat, r \in 0..(w - 1) : y = w * q + r /\ r = y % w /\ q = y \div w
  BY DivMod
<1>2. PICK p \in Nat, b \in 0..255 : q = 256 * p + b /\ b = q % 256
  <2>1. 256 \in Nat \ {0} /\ 256 - 1 = 255
    OBVIOUS
  <2> QED BY <2>1, DivMod
<1>3. w * q = 256 * w * p + b * w
  <2>1. w * q = w * (256 * p) + w * b
    <3>1. PICK t \in Int : t = 256 * p
      BY <1>2
    <3>2. w * (t + b) = w * t + w * b
      BY <1>2, Distributes
    <3> QED BY <1>2, <3>1, <3>2
  <2>2. w * (256 * p) = 256 * w * p /\ w * b = b * w
    BY <1>1, <1>2
  <2> QED BY <1>1, <1>2, <2>1, <2>2
<1>4. y = (256 * w) * p + (b * w + r)
  BY <1>1, <1>2, <1>3
<1>5. b * w + r \in 0..(256 * w - 1)
  <2>1. b * w \in Nat
    BY <1>2
  <2>2. (255 - b) * w \in Nat
    BY <1>2
  <2>3. (255 - b) * w = 255 * w - b * w
    BY <1>2
  <2> QED BY <1>1, <1>2, <2>1, <2>2, <2>3
<1>6. 256 * w \in Nat \ {0}
  OBVIOUS
<1>7. y % (256 * w) = b * w + r
  <2>1. PICK m \in Nat \ {0}, s \in Nat : m = 256 * w /\ s = b * w + r /\ s \in 0..(m - 1)
    BY <1>5, <1>6
  <2>2. y = m * p + s
    BY <1>4, <2>1
  <2>3. y % m = s
    BY <2>1, <2>2, DivModUnique, ZenonT(40)
  <2> QED BY <2>1, <2>3
<1>8. b * w + r = r + b * w
  BY <1>2
<1>9. (y \div w) % 256 = b
  BY <1>1, <1>2, Zenon
<1>10. (y % w) + ((y \div w) % 256) * w = r + b * w
  BY <1>1, <1>9, Zenon
<1> QED BY <1>7, <1>8, <1>10, Zenon

\* What struct.unpack computes, as a sum over the bytes.
LEMMA UnpackDef ==
  ASSUME NEW s \in [1..ADDR_LEN -> Byte]
  PROVE  \E v \in [0..ADDR_LEN -> Nat] :
           /\ v[0] = 0 /\ \A i \in 1..ADDR_LEN : v[i] = v[i - 1] + s[i] * Weight[i - 1]
           /\ Unpack(s) = IF v[ADDR_LEN] >= Weight[ADDR_LEN] \div 2
                          THEN v[ADDR_LEN] - Weight[ADDR_LEN] ELSE v[ADDR_LEN]
<1> DEFINE n == ADDR_LEN
<1>0. n \in Nat
  BY Sizes
<1> DEFINE F == [p \in (1..n) \X Nat |-> p[2] + s[p[1]] * Weight[p[1] - 1]]
<1>1. F \in [(1..n) \X Nat -> Nat]
  <2>1. ASSUME NEW i \in 1..n PROVE s[i] * Weight[i - 1] \in Nat
    <3>1. s[i] \in Nat
      <4>1. s[i] \in Byte
        OBVIOUS
      <4> QED BY <4>1, ByteNat
    <3>2. Weight[i - 1] \in Nat
      <4>1. i - 1 \in 0..n
        BY <1>0
      <4> QED BY <4>1, WeightDef
    <3> QED BY <3>1, <3>2
  <2> QED BY <2>1
<1>2. PICK g \in [0..n -> Nat] : g[0] = 0 /\ \A i \in 1..n : g[i] = F[<<i, g[i - 1]>>]
  <2> HIDE DEF F, n
  <2>1. 0 \in Nat
    OBVIOUS
  <2> QED BY <1>0, <1>1, <2>1, Recursion
<1>3. \A i \in 0..n : g[i] = IF i = 0 THEN 0 ELSE g[i - 1] + s[i] * Weight[i - 1]
  <2>1. ASSUME NEW i \in 0..n, i # 0 PROVE F[<<i, g[i - 1]>>] = g[i - 1] + s[i] * Weight[i - 1]
    <3>1. <<i, g[i - 1]>> \in (1..n) \X Nat
      BY <1>0, <2>1
    <3> QED BY <3>1
  <2>2. \A i \in 0..n : i = 0 \/ i \in 1..n
    BY <1>0
  <2> HIDE DEF F
  <2> QED BY <1>2, <2>1, <2>2
<1>4. g = [i \in 0..n |-> IF i = 0 THEN 0 ELSE g[i - 1] + s[i] * Weight[i - 1]]
  BY <1>3
<1>5. PICK v : v = CHOOSE f : f = [i \in 0..ADDR_LEN |-> IF i = 0 THEN 0 ELSE f[i - 1] + s[i] * Weight[i - 1]]
  OBVIOUS
<1>6. v = [i \in 0..n |-> IF i = 0 THEN 0 ELSE v[i - 1] + s[i] * Weight[i - 1]]
  BY <1>4, <1>5, Zenon
<1>7. Unpack(s) = IF v[n] >= Weight[n] \div 2 THEN v[n] - Weight[n] ELSE v[n]
  BY <1>5 DEF Unpack
<1>8. \A i \in 0..n : v[i] = IF i = 0 THEN 0 ELSE v[i - 1] + s[i] * Weight[i - 1]
  BY <1>6, Zenon
<1> DEFINE S == {i \in 0..n : v[i] \in Nat}
<1>9. 0 \in S
  BY <1>0, <1>8
<1>10. ASSUME NEW k \in 0..(n - 1), k \in S PROVE k + 1 \in S
  <2>1. k + 1 \in 0..n /\ k + 1 # 0 /\ k + 1 - 1 = k /\ k + 1 \in 1..n /\ k \in 0..n
    BY <1>0
  <2>2. v[k + 1] = v[k] + s[k + 1] * Weight[k]
    BY <1>8, <2>1
  <2>3. s[k + 1] \in Nat /\ Weight[k] \in Nat
    <3>1. Weight[k] \in Nat
      BY <2>1, WeightDef
    <3>2. s[k + 1] \in Byte
      BY <2>1
    <3> QED BY <3>1, <3>2, ByteNat
  <2>4. s[k + 1] * Weight[k] \in Nat
    BY <2>3
  <2> QED BY <1>10, <2>1, <2>2, <2>4
<1>11. 0..n \subseteq S
  <2> HIDE DEF S
  <2> QED BY <1>0, <1>9, <1>10, Induction
<1>12. v \in [0..n -> Nat]
  BY <1>6, <1>11
<1>13. v[0] = 0 /\ \A i \in 1..n : v[i] = v[i - 1] + s[i] * Weight[i - 1]
  <2>1. 0 \in 0..n /\ \A i \in 1..n : i \in 0..n /\ i # 0
    BY <1>0
  <2> QED BY <1>8, <2>1
<1> QED BY <1>7, <1>12, <1>13

\* The bytes of a number.
LEMMA LittleBytes ==
  ASSUME NEW a \in Nat
  PROVE  Little(a) \in [1..ADDR_LEN -> Byte]
<1>1. ASSUME NEW i \in 1..ADDR_LEN PROVE (a \div Weight[i - 1]) % 256 \in Byte
  <2>1. PICK w \in Nat \ {0} : w = Weight[i - 1]
    <3>1. i - 1 \in 0..ADDR_LEN
      BY Sizes
    <3> QED BY <3>1, WeightDef
  <2>2. PICK q \in Nat : q = a \div w
    BY DivMod
  <2>3. q % 256 \in 0..255
    BY <2>2
  <2> QED BY <2>1, <2>2, <2>3 DEF Byte
<1> QED BY <1>1 DEF Little

\* An address arrives as it was sent, but as a signed number.
LEMMA UnpackLittle ==
  ASSUME NEW a \in 0..(Weight[ADDR_LEN] - 1)
  PROVE  Unpack(Little(a)) = IF a >= Weight[ADDR_LEN] \div 2 THEN a - Weight[ADDR_LEN] ELSE a
<1> DEFINE n == ADDR_LEN
<1>0. n \in Nat /\ Weight[n] \in Nat \ {0} /\ a \in Nat
  BY Sizes, WeightDef
<1>1. PICK v \in [0..n -> Nat] :
        /\ v[0] = 0 /\ \A i \in 1..n : v[i] = v[i - 1] + Little(a)[i] * Weight[i - 1]
        /\ Unpack(Little(a)) = IF v[n] >= Weight[n] \div 2 THEN v[n] - Weight[n] ELSE v[n]
  BY <1>0, LittleBytes, UnpackDef
<1> DEFINE S == {i \in 0..n : v[i] = a % Weight[i]}
<1>2. 0 \in S
  <2>1. a % 1 = 0 /\ 0 \in 0..n
    BY <1>0
  <2> QED BY <1>1, <2>1, WeightDef
<1>3. ASSUME NEW k \in 0..(n - 1), k \in S PROVE k + 1 \in S
  <2>1. k + 1 \in 0..n /\ k + 1 - 1 = k /\ k + 1 \in 1..n /\ k \in 0..n
    BY <1>0
  <2>2. PICK w \in Nat \ {0} : w = Weight[k] /\ Weight[k + 1] = 256 * w
    <3>1. Weight[k] \in Nat \ {0}
      BY <2>1, WeightDef
    <3>2. Weight[k + 1] = 256 * Weight[k]
      BY WeightDef, Zenon
    <3> QED BY <3>1, <3>2
  <2>3. Little(a)[k + 1] = (a \div w) % 256
    BY <2>1, <2>2 DEF Little
  <2>4. v[k + 1] = (a % w) + ((a \div w) % 256) * w
    <3>1. v[k + 1] = v[k] + Little(a)[k + 1] * w
      BY <1>1, <2>1, <2>2
    <3> QED BY <1>3, <2>2, <2>3, <3>1, Zenon
  <2>5. v[k + 1] = a % (256 * w)
    BY <1>0, <2>4, NextByte, ZenonT(40)
  <2> QED BY <2>1, <2>2, <2>5
<1>4. n \in S
  <2>1. 0..n \subseteq S
    <3> HIDE DEF S
    <3> QED BY <1>0, <1>2, <1>3, Induction
  <2>2. n \in 0..n
    BY <1>0
  <2> QED BY <2>1, <2>2
<1>5. a % Weight[n] = a
  <2>1. PICK w \in Nat \ {0} : w = Weight[n]
    BY <1>0
  <2>2. a \in 0..(w - 1) /\ 0 \in Nat
    BY <2>1
  <2>3. (w * 0 + a) % w = a
    BY <2>2, DivModUnique, Zenon
  <2>4. w * 0 + a = a
    BY <2>2
  <2> QED BY <2>1, <2>3, <2>4
<1>6. v[n] = a
  BY <1>4, <1>5
<1> QED BY <1>1, <1>6, Zenon

-----------------------------------------------------------------------------
(* Digits and bytes. *)

\* The elements of two sequences in a row.
LEMMA Cat ==
  ASSUME NEW S, NEW s \in Seq(S), NEW t \in Seq(S)
  PROVE  /\ s \o t \in Seq(S) /\ Len(s \o t) = Len(s) + Len(t)
         /\ \A i \in 1..Len(s) : (s \o t)[i] = s[i]
         /\ \A i \in 1..Len(t) : (s \o t)[Len(s) + i] = t[i]
<1>1. Len(s) \in Nat /\ Len(t) \in Nat
  BY LenProperties
<1>2. s \o t \in Seq(S) /\ Len(s \o t) = Len(s) + Len(t)
  BY ConcatProperties
<1>3. \A i \in 1..(Len(s) + Len(t)) : (s \o t)[i] = IF i <= Len(s) THEN s[i] ELSE t[i - Len(s)]
  BY ConcatProperties
<1>4. ASSUME NEW i \in 1..Len(s) PROVE (s \o t)[i] = s[i]
  <2>1. i \in 1..(Len(s) + Len(t)) /\ i <= Len(s)
    BY <1>1
  <2> QED BY <1>3, <2>1
<1>5. ASSUME NEW i \in 1..Len(t) PROVE (s \o t)[Len(s) + i] = t[i]
  <2>1. Len(s) + i \in 1..(Len(s) + Len(t)) /\ ~(Len(s) + i <= Len(s)) /\ Len(s) + i - Len(s) = i
    BY <1>1
  <2> QED BY <1>3, <2>1
<1> QED BY <1>2, <1>4, <1>5

\* The table of the digits that xtoi knows.
LEMMA AllDigits ==
  /\ DOMAIN (HEX \o hex) = 1..32
  /\ \A i \in 1..16 : (HEX \o hex)[i] = HEX[i]
  /\ \A i \in 1..16 : (HEX \o hex)[16 + i] = hex[i]
<1> DEFINE S == {HEX[i] : i \in 1..16} \cup {hex[i] : i \in 1..16}
<1>1. HEX = [i \in 1..16 |-> HEX[i]] /\ Len(HEX) = 16
  BY DEF HEX
<1>2. hex = [i \in 1..16 |-> hex[i]] /\ Len(hex) = 16
  BY DEF hex
<1>3. HEX \in Seq(S) /\ hex \in Seq(S)
  BY <1>1, <1>2
<1> HIDE DEF S
<1>4. /\ HEX \o hex \in Seq(S) /\ Len(HEX \o hex) = Len(HEX) + Len(hex)
      /\ \A i \in 1..Len(HEX) : (HEX \o hex)[i] = HEX[i]
      /\ \A i \in 1..Len(hex) : (HEX \o hex)[Len(HEX) + i] = hex[i]
  BY <1>3, Cat
<1>5. /\ \A i \in 1..16 : (HEX \o hex)[i] = HEX[i]
      /\ \A i \in 1..16 : (HEX \o hex)[16 + i] = hex[i]
  <2>1. Len(HEX) = 16 /\ Len(hex) = 16
    BY <1>1, <1>2
  <2> QED BY <1>4, <2>1
<1>6. DOMAIN (HEX \o hex) = 1..32
  <2>1. Len(HEX \o hex) = 32
    BY <1>1, <1>2, <1>4
  <2> QED BY <1>4, <2>1, LenProperties
<1> QED BY <1>5, <1>6

\* The digits of itox and hexlify are digits for xtoi, with the right values, and
\* neither a separator nor the end of a line.
LEMMA DigitValue ==
  ASSUME NEW x \in 0..15
  PROVE  /\ Xtoi(HEX[x + 1]) = x /\ Xtoi(hex[x + 1]) = x
         /\ HEX[x + 1] \in Digits /\ hex[x + 1] \in Digits
<1>1. /\ DOMAIN (HEX \o hex) = 1..32
      /\ (HEX \o hex)[x + 1] = HEX[x + 1] /\ (HEX \o hex)[x + 17] = hex[x + 1]
  <2>1. x + 1 \in 1..16 /\ x + 17 = 16 + (x + 1)
    OBVIOUS
  <2> QED BY <2>1, AllDigits
<1>2. HEX[x + 1] \in Digits /\ hex[x + 1] \in Digits
  <2>1. x + 1 \in 1..32 /\ x + 17 \in 1..32
    OBVIOUS
  <2> QED BY <1>1, <2>1 DEF Digits, ToSet
<1>3. \A y \in 0..15 : /\ HEX[y + 1] = HEX[x + 1] \/ hex[y + 1] = HEX[x + 1] => y = x
                       /\ HEX[y + 1] = hex[x + 1] \/ hex[y + 1] = hex[x + 1] => y = x
  BY DEF HEX, hex
<1>4. Xtoi(HEX[x + 1]) = CHOOSE y \in 0..15 : HEX[y + 1] = HEX[x + 1] \/ hex[y + 1] = HEX[x + 1]
  BY <1>2 DEF Xtoi, Digits
<1>5. Xtoi(hex[x + 1]) = CHOOSE y \in 0..15 : HEX[y + 1] = hex[x + 1] \/ hex[y + 1] = hex[x + 1]
  BY <1>2 DEF Xtoi, Digits
<1> HIDE DEF HEX, hex
<1>6. Xtoi(HEX[x + 1]) = x
  BY <1>3, <1>4
<1>7. Xtoi(hex[x + 1]) = x
  BY <1>3, <1>5
<1> QED BY <1>2, <1>6, <1>7

\* The digits are not separators.
LEMMA NotADigit ==
  EOL \notin Digits /\ SEP \notin Digits /\ EOL # SEP /\ "0" \in Digits /\ "1" \in Digits
<1>1. \A i \in 1..16 : HEX[i] # EOL /\ HEX[i] # SEP
  BY DEF HEX, EOL, SEP
<1>2. \A i \in 1..16 : hex[i] # EOL /\ hex[i] # SEP
  BY DEF hex, EOL, SEP
<1>5. ASSUME NEW d \in Digits PROVE d # EOL /\ d # SEP
  <2>1. PICK i \in 1..32 : d = (HEX \o hex)[i]
    BY AllDigits DEF Digits, ToSet
  <2>2. CASE i <= 16
    <3>1. i \in 1..16
      BY <2>2
    <3>2. d = HEX[i]
      BY <2>1, <3>1, AllDigits
    <3> QED BY <1>1, <3>1, <3>2, Zenon
  <2>3. CASE ~(i <= 16)
    <3>1. i - 16 \in 1..16 /\ i = 16 + (i - 16)
      BY <2>3
    <3>2. d = hex[i - 16]
      BY <2>1, <3>1, AllDigits
    <3> QED BY <1>2, <3>1, <3>2, Zenon
  <2> QED BY <2>2, <2>3
<1>6. HEX[0 + 1] = "0" /\ HEX[1 + 1] = "1"
  BY DEF HEX
<1>7. "0" \in Digits /\ "1" \in Digits
  <2>1. 0 \in 0..15 /\ 1 \in 0..15
    OBVIOUS
  <2> QED BY <1>6, <2>1, DigitValue
<1> QED BY <1>5, <1>7 DEF EOL, SEP

\* A byte is its two digits.
LEMMA Halves ==
  ASSUME NEW b \in Byte
  PROVE  /\ b \div 16 \in 0..15 /\ b % 16 \in 0..15 /\ (b \div 16) % 16 = b \div 16
         /\ ((b \div 16) * 16 + (b % 16)) % 256 = b
BY DEF Byte

\* Two digits that were put, by either side, are read as the byte.
LEMMA PuthGeth ==
  ASSUME NEW b \in Byte
  PROVE  /\ Puth(b) \in [1..2 -> Digits] /\ Geth(Puth(b)[1], Puth(b)[2]) = b
         /\ Small(b) \in [1..2 -> Digits] /\ Geth(Small(b)[1], Small(b)[2]) = b
<1>1. PICK h \in 0..15, l \in 0..15 :
        /\ h = b \div 16 /\ l = b % 16 /\ h % 16 = h /\ (h * 16 + l) % 256 = b
  BY Halves
<1>2. Puth(b) = <<HEX[h + 1], HEX[l + 1]>> /\ Small(b) = <<hex[h + 1], hex[l + 1]>>
  BY <1>1 DEF Puth, Small, Itox
<1>3. /\ HEX[h + 1] \in Digits /\ Xtoi(HEX[h + 1]) = h /\ hex[h + 1] \in Digits /\ Xtoi(hex[h + 1]) = h
      /\ HEX[l + 1] \in Digits /\ Xtoi(HEX[l + 1]) = l /\ hex[l + 1] \in Digits /\ Xtoi(hex[l + 1]) = l
  BY DigitValue
<1>4. l # -1
  OBVIOUS
<1>5. Geth(HEX[h + 1], HEX[l + 1]) = b /\ Geth(hex[h + 1], hex[l + 1]) = b
  BY <1>1, <1>3, <1>4 DEF Geth
<1> QED BY <1>2, <1>3, <1>5

-----------------------------------------------------------------------------
(* Lines. *)

\* Sequences of digits are sequences of characters.
LEMMA DigitsAreChars ==
  /\ Digits \subseteq Chars /\ EOL \in Chars /\ SEP \in Chars
  /\ \A s \in Seq(Digits) : s \in Seq(Chars)
<1>1. Digits \subseteq Chars /\ EOL \in Chars /\ SEP \in Chars
  BY DEF Chars
<1>2. \A s \in Seq(Digits) : s \in Seq(Chars)
  BY <1>1, SeqMonotonic
<1> QED BY <1>1, <1>2

\* The two characters of a byte as a sequence.
LEMMA PuthSeq ==
  ASSUME NEW b \in Byte
  PROVE  Puth(b) \in Seq(Digits) /\ Len(Puth(b)) = 2 /\ Puth(b)[1] \in Digits /\ Puth(b)[2] \in Digits
<1>1. Puth(b) \in [1..2 -> Digits]
  BY PuthGeth
<1>2. Len(Puth(b)) = 2
  BY DEF Puth
<1>3. PICK f \in [1..2 -> Digits] : f = Puth(b)
  BY <1>1
<1>4. f \in Seq(Digits)
  <2>1. \A n \in Nat : \A g \in [1..n -> Digits] : g \in Seq(Digits)
    OBVIOUS
  <2>2. 2 \in Nat
    OBVIOUS
  <2> QED BY <2>1, <2>2, Zenon
<1>5. 1 \in 1..2 /\ 2 \in 1..2
  OBVIOUS
<1>6. f[1] \in Digits /\ f[2] \in Digits
  BY <1>5
<1> QED BY <1>2, <1>3, <1>4, <1>6

\* The text of a sequence of bytes: the digits of byte i are at 2 i - 1 and 2 i.
LEMMA DataPuthSeq ==
  ASSUME NEW n \in Nat, NEW s \in [1..n -> Byte]
  PROVE  /\ DataPuth(s) \in Seq(Digits) /\ Len(DataPuth(s)) = 2 * n
         /\ Unhexlify(DataPuth(s)) = s
         /\ Hexlify(s) \in Seq(Digits) /\ Len(Hexlify(s)) = 2 * n
         /\ Unhexlify(Hexlify(s)) = s
<1>1. s \in Seq(Byte) /\ Len(s) = n
  OBVIOUS
<1>2. ASSUME NEW k \in 1..(2 * n) PROVE (k + 1) \div 2 \in 1..n /\ 2 - (k % 2) \in 1..2
  OBVIOUS
<1>3. \A k \in 1..(2 * n) :
        /\ Puth(s[(k + 1) \div 2])[2 - (k % 2)] \in Digits
        /\ Small(s[(k + 1) \div 2])[2 - (k % 2)] \in Digits
  <2> TAKE k \in 1..(2 * n)
  <2>1. PICK j \in 1..n, h \in 1..2 : j = (k + 1) \div 2 /\ h = 2 - (k % 2)
    BY <1>2
  <2>2. s[j] \in Byte
    OBVIOUS
  <2>3. Puth(s[j]) \in [1..2 -> Digits] /\ Small(s[j]) \in [1..2 -> Digits]
    BY <2>2, PuthGeth
  <2>4. Puth(s[j])[h] \in Digits /\ Small(s[j])[h] \in Digits
    BY <2>3
  <2> QED BY <2>1, <2>4
<1>4. PICK d : d = DataPuth(s)
  OBVIOUS
<1>5. PICK e : e = Hexlify(s)
  OBVIOUS
<1>6. d = [k \in 1..(2 * n) |-> Puth(s[(k + 1) \div 2])[2 - (k % 2)]]
  BY <1>1, <1>4 DEF DataPuth
<1>7. e = [k \in 1..(2 * n) |-> Small(s[(k + 1) \div 2])[2 - (k % 2)]]
  BY <1>1, <1>5 DEF Hexlify
<1>8. d \in [1..(2 * n) -> Digits] /\ e \in [1..(2 * n) -> Digits]
  BY <1>3, <1>6, <1>7
<1>9. d \in Seq(Digits) /\ Len(d) = 2 * n /\ e \in Seq(Digits) /\ Len(e) = 2 * n
  <2>1. 2 * n \in Nat
    OBVIOUS
  <2> QED BY <1>8, <2>1
<1>10. ASSUME NEW i \in 1..n
       PROVE  Geth(d[2 * i - 1], d[2 * i]) = s[i] /\ Geth(e[2 * i - 1], e[2 * i]) = s[i]
  <2>1. /\ 2 * i - 1 \in 1..(2 * n) /\ 2 * i \in 1..(2 * n)
        /\ ((2 * i - 1) + 1) \div 2 = i /\ (2 * i + 1) \div 2 = i
        /\ 2 - ((2 * i - 1) % 2) = 1 /\ 2 - ((2 * i) % 2) = 2
    OBVIOUS
  <2>2. /\ d[2 * i - 1] = Puth(s[i])[1] /\ d[2 * i] = Puth(s[i])[2]
        /\ e[2 * i - 1] = Small(s[i])[1] /\ e[2 * i] = Small(s[i])[2]
    BY <1>6, <1>7, <2>1
  <2>3. s[i] \in Byte
    OBVIOUS
  <2> QED BY <2>2, <2>3, PuthGeth
<1>11. (2 * n) \div 2 = n
  OBVIOUS
<1>12. Unhexlify(d) = [i \in 1..n |-> Geth(d[2 * i - 1], d[2 * i])]
  BY <1>9, <1>11 DEF Unhexlify
<1>13. Unhexlify(e) = [i \in 1..n |-> Geth(e[2 * i - 1], e[2 * i])]
  BY <1>9, <1>11 DEF Unhexlify
<1>14. Unhexlify(d) = s /\ Unhexlify(e) = s
  BY <1>10, <1>12, <1>13
<1> QED BY <1>4, <1>5, <1>9, <1>14

\* A field of a line.
LEMMA Field ==
  ASSUME NEW S, NEW p \in Seq(S), NEW m \in Seq(S), NEW q \in Seq(S)
  PROVE  SubSeq((p \o m) \o q, Len(p) + 1, Len(p) + Len(m)) = m
<1>1. PICK s : s = (p \o m) \o q
  OBVIOUS
<1>2. /\ Len(p) \in Nat /\ Len(m) \in Nat /\ p \o m \in Seq(S)
      /\ Len(p \o m) = Len(p) + Len(m)
  BY LenProperties, Cat
<1>3. ASSUME NEW i \in 1..Len(m) PROVE s[Len(p) + i] = m[i]
  <2>1. (p \o m)[Len(p) + i] = m[i]
    BY Cat
  <2>2. Len(p) + i \in 1..Len(p \o m)
    BY <1>2
  <2>3. s[Len(p) + i] = (p \o m)[Len(p) + i]
    BY <1>1, <1>2, <2>2, Cat
  <2> QED BY <2>1, <2>3
<1>4. SubSeq(s, Len(p) + 1, Len(p) + Len(m)) = [i \in 1..Len(m) |-> s[Len(p) + i]]
  <2>1. \A i \in 1..Len(m) : i + (Len(p) + 1) - 1 = Len(p) + i
    BY <1>2
  <2> QED BY <1>2, <2>1
<1>5. m = [i \in 1..Len(m) |-> m[i]]
  BY LenProperties
<1>6. [i \in 1..Len(m) |-> s[Len(p) + i]] = [i \in 1..Len(m) |-> m[i]]
  BY <1>3
<1> QED BY <1>1, <1>4, <1>5, <1>6, Zenon

\* The end of a line is its end of line only.
LEMMA LineEnd ==
  ASSUME NEW s \in Seq(Digits \cup {SEP})
  PROVE  /\ s \o <<EOL>> \in Seq(Chars) /\ Len(s) \in Nat /\ Len(s \o <<EOL>>) = Len(s) + 1
         /\ (s \o <<EOL>>)[Len(s) + 1] = EOL
         /\ \A i \in 1..Len(s) : (s \o <<EOL>>)[i] = s[i] /\ s[i] # EOL
<1>1. s \in Seq(Chars) /\ <<EOL>> \in Seq(Chars) /\ Len(<<EOL>>) = 1 /\ <<EOL>>[1] = EOL
  <2>1. Digits \cup {SEP} \subseteq Chars
    BY DEF Chars
  <2> QED BY <2>1, SeqMonotonic DEF Chars
<1>2. /\ s \o <<EOL>> \in Seq(Chars) /\ Len(s \o <<EOL>>) = Len(s) + Len(<<EOL>>)
      /\ \A i \in 1..Len(s) : (s \o <<EOL>>)[i] = s[i]
      /\ \A i \in 1..Len(<<EOL>>) : (s \o <<EOL>>)[Len(s) + i] = <<EOL>>[i]
  BY <1>1, Cat
<1>3. \A i \in 1..Len(s) : s[i] # EOL
  <2>1. \A i \in 1..Len(s) : s[i] \in Digits \cup {SEP}
    BY ElementOfSeq
  <2> QED BY <2>1, NotADigit
<1>4. (s \o <<EOL>>)[Len(s) + 1] = EOL
  <2>1. 1 \in 1..Len(<<EOL>>)
    BY <1>1
  <2> QED BY <1>1, <1>2, <2>1
<1>5. Len(s) \in Nat
  BY LenProperties
<1> QED BY <1>1, <1>2, <1>3, <1>4, <1>5

\* What the kernel may ask for.
LEMMA CallFacts ==
  ASSUME NEW c \in Calls
  PROVE  /\ c.op \in {"wr", "rd", "conf"} /\ c.a \in 0..(Weight[ADDR_LEN] - 1) /\ c.a \in Nat
         /\ \E n \in Nat : c.x \in [1..n -> Byte]
         /\ c.op \in {"wr", "rd"} => c.a \in Addresses
<1>0. Weight[ADDR_LEN] \in Nat \ {0}
  BY Sizes, WeightDef
<1>1. CASE c = [op |-> "conf", a |-> 0, x |-> <<>>]
  <2>1. 0 \in Nat /\ <<>> \in [1..0 -> Byte]
    OBVIOUS
  <2>2. 0 \in 0..(Weight[ADDR_LEN] - 1)
    BY <1>0
  <2> QED BY <1>1, <2>1, <2>2
<1>2. CASE \E a \in Addresses : c \in CallsTo(a)
  <2>1. PICK a \in Addresses : c \in CallsTo(a)
    BY <1>2
  <2>2. a \in 0..(Weight[ADDR_LEN] - 1) /\ a \in Nat
    BY <1>0, DiskLinkAssumption
  <2>3. CASE c = [op |-> "rd", a |-> a, x |-> <<>>]
    <3>1. 0 \in Nat /\ <<>> \in [1..0 -> Byte]
      OBVIOUS
    <3> QED BY <2>2, <2>3, <3>1
  <2>4. CASE c \in [op : {"wr"}, a : {a}, x : UNION {[1..n -> Bytes] : n \in 1..BLOCK_LEN}]
    <3>1. c.op = "wr" /\ c.a = a /\ c.x \in UNION {[1..n -> Bytes] : n \in 1..BLOCK_LEN}
      BY <2>4
    <3>2. PICK n \in 1..BLOCK_LEN : c.x \in [1..n -> Bytes]
      BY <3>1
    <3>3. n \in Nat /\ c.x \in [1..n -> Byte]
      BY <3>2, Sizes
    <3> QED BY <2>2, <3>1, <3>3
  <2>5. \/ c = [op |-> "rd", a |-> a, x |-> <<>>]
        \/ c \in [op : {"wr"}, a : {a}, x : UNION {[1..n -> Bytes] : n \in 1..BLOCK_LEN}]
    BY <2>1, Zenon DEF CallsTo
  <2> QED BY <2>3, <2>4, <2>5, Zenon
<1>3. c = [op |-> "conf", a |-> 0, x |-> <<>>] \/ \E a \in Addresses : c \in CallsTo(a)
  BY Zenon DEF Calls
<1> QED BY <1>1, <1>2, <1>3

\* The address in a request.
LEMMA AddrText ==
  ASSUME NEW a \in 0..(Weight[ADDR_LEN] - 1)
  PROVE  /\ AddrPuth(a) \in Seq(Digits) /\ Len(AddrPuth(a)) = 2 * ADDR_LEN
         /\ Unpack(Unhexlify(AddrPuth(a)))
              = IF a >= Weight[ADDR_LEN] \div 2 THEN a - Weight[ADDR_LEN] ELSE a
<1>1. a \in Nat /\ ADDR_LEN \in Nat
  BY Sizes, WeightDef
<1>2. Little(a) \in [1..ADDR_LEN -> Byte]
  BY <1>1, LittleBytes
<1>3. /\ AddrPuth(a) \in Seq(Digits) /\ Len(AddrPuth(a)) = 2 * ADDR_LEN
      /\ Unhexlify(AddrPuth(a)) = Little(a)
  BY <1>1, <1>2, DataPuthSeq DEF AddrPuth
<1> QED BY <1>3, UnpackLittle

\* The commands are bytes.
LEMMA CommandBytes ==
  0 \in Byte /\ 1 \in Byte /\ 2 \in Byte
BY DEF Byte

\* The beginning of a line: a command and a separator.
LEMMA Opening ==
  ASSUME NEW b \in Byte, NEW q \in Seq(Chars)
  PROVE  /\ Puth(b) \o <<SEP>> \in Seq(Digits \cup {SEP}) /\ Len(Puth(b) \o <<SEP>>) = 3
         /\ Geth(((Puth(b) \o <<SEP>>) \o q)[1], ((Puth(b) \o <<SEP>>) \o q)[2]) = b
<1> DEFINE S == Digits \cup {SEP}
<1>1. PICK p : p = Puth(b)
  OBVIOUS
<1>2. p \in Seq(S) /\ <<SEP>> \in Seq(S) /\ Len(p) = 2 /\ Len(<<SEP>>) = 1
  <2>1. p \in Seq(Digits) /\ Len(p) = 2
    BY <1>1, PuthSeq
  <2>2. Digits \subseteq S
    OBVIOUS
  <2>3. p \in Seq(S)
    BY <2>1, <2>2, SeqMonotonic
  <2> QED BY <2>1, <2>3
<1> HIDE DEF S
<1>3. PICK h : h = p \o <<SEP>>
  OBVIOUS
<1>4. /\ h \in Seq(S) /\ Len(h) = Len(p) + Len(<<SEP>>)
      /\ \A i \in 1..Len(p) : h[i] = p[i]
  BY <1>2, <1>3, Cat
<1>5. Len(h) = 3 /\ h[1] = p[1] /\ h[2] = p[2]
  BY <1>2, <1>4
<1>6. h \in Seq(Chars)
  <2>1. S \subseteq Chars
    BY DEF S, Chars
  <2> QED BY <1>4, <2>1, SeqMonotonic
<1>7. \A i \in 1..Len(h) : (h \o q)[i] = h[i]
  BY <1>6, Cat
<1>8. (h \o q)[1] = p[1] /\ (h \o q)[2] = p[2]
  BY <1>5, <1>7
<1> QED BY <1>1, <1>3, <1>4, <1>5, <1>8, PuthGeth DEF S

\* A request is one line, whose fields the disk program reads as the driver meant them.
LEMMA RequestLine ==
  ASSUME NEW c \in Calls, NEW r, r = Request(c)
  PROVE  /\ r \in Seq(Chars) /\ Len(r) \in Nat \ {0, 1} /\ r[Len(r)] = EOL
         /\ \A i \in 1..(Len(r) - 1) : r[i] # EOL
         /\ Geth(r[1], r[2]) = CASE c.op = "conf" -> 0 [] c.op = "wr" -> 1 [] c.op = "rd" -> 2
         /\ c.op # "conf" =>
              Unpack(Unhexlify(SubSeq(r, 4, 3 + 2 * ADDR_LEN)))
                = IF c.a >= Weight[ADDR_LEN] \div 2 THEN c.a - Weight[ADDR_LEN] ELSE c.a
         /\ c.op = "wr" => Unhexlify(SubSeq(r, 5 + 2 * ADDR_LEN, Len(r) - 1)) = c.x
<1> DEFINE S == Digits \cup {SEP}
<1>0. S \subseteq Chars /\ Digits \subseteq S /\ <<SEP>> \in Seq(S) /\ Len(<<SEP>>) = 1 /\ ADDR_LEN \in Nat
  BY Sizes DEF Chars
<1> HIDE DEF S
<1>1. CASE c.op = "conf"
  <2>1. PICK p : p = Puth(0)
    OBVIOUS
  <2>2. p \in Seq(S) /\ Len(p) = 2 /\ Geth(p[1], p[2]) = 0
    <3>1. p \in Seq(Digits) /\ Len(p) = 2 /\ Geth(p[1], p[2]) = 0
      BY <2>1, CommandBytes, PuthSeq, PuthGeth
    <3> QED BY <1>0, <3>1, SeqMonotonic
  <2>3. r = p \o <<EOL>>
    BY <1>1, <2>1 DEF Request
  <2>4. /\ r \in Seq(Chars) /\ Len(r) = 3 /\ r[3] = EOL
        /\ \A i \in 1..2 : r[i] = p[i] /\ p[i] # EOL
    <3>1. /\ r \in Seq(Chars) /\ Len(r) = Len(p) + 1 /\ r[Len(p) + 1] = EOL
          /\ \A i \in 1..Len(p) : r[i] = p[i] /\ p[i] # EOL
      BY <2>2, <2>3, LineEnd DEF S
    <3> QED BY <2>2, <3>1
  <2> QED BY <1>1, <2>2, <2>4
<1>2. ASSUME c.op \in {"wr", "rd"}
      PROVE  /\ AddrPuth(c.a) \in Seq(S) /\ Len(AddrPuth(c.a)) = 2 * ADDR_LEN
             /\ Unpack(Unhexlify(AddrPuth(c.a)))
                  = IF c.a >= Weight[ADDR_LEN] \div 2 THEN c.a - Weight[ADDR_LEN] ELSE c.a
  <2>1. c.a \in 0..(Weight[ADDR_LEN] - 1)
    BY CallFacts
  <2>2. AddrPuth(c.a) \in Seq(Digits)
    BY <2>1, AddrText
  <2>3. AddrPuth(c.a) \in Seq(S)
    BY <1>0, <2>2, SeqMonotonic
  <2> QED BY <2>1, <2>3, AddrText
<1>3. CASE c.op = "rd"
  <2>1. PICK h : h = Puth(2) \o <<SEP>>
    OBVIOUS
  <2>2. PICK d : d = AddrPuth(c.a)
    OBVIOUS
  <2>3. d \in Seq(S) /\ Len(d) = 2 * ADDR_LEN
    BY <1>2, <1>3, <2>2
  <2>4. h \in Seq(S) /\ Len(h) = 3
    BY <2>1, CommandBytes, EmptySeq, Opening DEF S
  <2>5. r = (h \o d) \o <<EOL>>
    BY <1>3, <2>1, <2>2 DEF Request
  <2>6. h \o d \in Seq(S) /\ Len(h \o d) = 3 + 2 * ADDR_LEN
    <3>1. h \in Seq(S) /\ d \in Seq(S)
      BY <2>3, <2>4
    <3>2. h \o d \in Seq(S) /\ Len(h \o d) = Len(h) + Len(d)
      BY <3>1, Cat
    <3> QED BY <2>3, <2>4, <3>2
  <2>7. /\ r \in Seq(Chars) /\ Len(r) = 3 + 2 * ADDR_LEN + 1 /\ r[3 + 2 * ADDR_LEN + 1] = EOL
        /\ \A i \in 1..(3 + 2 * ADDR_LEN) : r[i] # EOL
    <3>1. /\ r \in Seq(Chars) /\ Len(r) = Len(h \o d) + 1 /\ r[Len(h \o d) + 1] = EOL
          /\ \A i \in 1..Len(h \o d) : r[i] = (h \o d)[i] /\ (h \o d)[i] # EOL
      BY <2>5, <2>6, LineEnd DEF S
    <3> QED BY <2>6, <3>1
  <2>8. h \in Seq(Chars) /\ d \in Seq(Chars) /\ <<EOL>> \in Seq(Chars)
    BY <1>0, <2>3, <2>4, SeqMonotonic DEF Chars
  <2>9. SubSeq(r, 4, 3 + 2 * ADDR_LEN) = d
    <3>1. SubSeq(r, Len(h) + 1, Len(h) + Len(d)) = d
      BY <2>5, <2>8, Field
    <3> QED BY <2>3, <2>4, <3>1
  <2>10. Geth(r[1], r[2]) = 2
    <3>1. PICK q \in Seq(Chars) : q = d \o <<EOL>>
      BY <2>8, Cat
    <3>2. r = h \o q
      BY <2>5, <2>8, <3>1, ConcatAssociative
    <3> QED BY <2>1, <3>2, CommandBytes, Opening
  <2>11. /\ Len(r) \in Nat \ {0, 1} /\ r[Len(r)] = EOL
         /\ \A i \in 1..(Len(r) - 1) : r[i] # EOL
    <3>1. Len(r) - 1 = 3 + 2 * ADDR_LEN /\ Len(r) \in Nat \ {0, 1}
      BY <1>0, <2>7
    <3> QED BY <2>7, <3>1
  <2>12. Unpack(Unhexlify(SubSeq(r, 4, 3 + 2 * ADDR_LEN)))
           = IF c.a >= Weight[ADDR_LEN] \div 2 THEN c.a - Weight[ADDR_LEN] ELSE c.a
    BY <1>2, <1>3, <2>2, <2>9
  <2> QED BY <1>3, <2>7, <2>10, <2>11, <2>12
<1>4. CASE c.op = "wr"
  <2>1. PICK h : h = Puth(1) \o <<SEP>>
    OBVIOUS
  <2>2. PICK d : d = AddrPuth(c.a)
    OBVIOUS
  <2>3. PICK n \in Nat : c.x \in [1..n -> Byte]
    BY CallFacts
  <2>4. PICK x : x = DataPuth(c.x)
    OBVIOUS
  <2>5. d \in Seq(S) /\ Len(d) = 2 * ADDR_LEN
    BY <1>2, <1>4, <2>2
  <2>6. h \in Seq(S) /\ Len(h) = 3
    BY <2>1, CommandBytes, EmptySeq, Opening DEF S
  <2>7. x \in Seq(S) /\ Len(x) = 2 * n /\ Unhexlify(x) = c.x
    <3>1. x \in Seq(Digits) /\ Len(x) = 2 * n /\ Unhexlify(x) = c.x
      BY <2>3, <2>4, DataPuthSeq
    <3> QED BY <1>0, <3>1, SeqMonotonic
  <2>8. PICK p : p = (h \o d) \o <<SEP>>
    OBVIOUS
  <2>9. h \o d \in Seq(S) /\ Len(h \o d) = 3 + 2 * ADDR_LEN
    <3>1. h \in Seq(S) /\ d \in Seq(S)
      BY <2>5, <2>6
    <3>2. h \o d \in Seq(S) /\ Len(h \o d) = Len(h) + Len(d)
      BY <3>1, Cat
    <3> QED BY <2>5, <2>6, <3>2
  <2>10. p \in Seq(S) /\ Len(p) = 4 + 2 * ADDR_LEN
    <3>1. PICK e \in Seq(S) : e = <<SEP>> /\ Len(e) = 1
      BY <1>0
    <3>2. PICK f \in Seq(S) : f = h \o d /\ Len(f) = 3 + 2 * ADDR_LEN
      BY <2>9
    <3>3. f \o e \in Seq(S) /\ Len(f \o e) = Len(f) + Len(e)
      BY Cat
    <3>4. p = f \o e
      BY <2>8, <3>1, <3>2
    <3> QED BY <1>0, <3>1, <3>2, <3>3, <3>4
  <2>11. p \o x \in Seq(S) /\ Len(p \o x) = 4 + 2 * ADDR_LEN + 2 * n
    <3>1. p \o x \in Seq(S) /\ Len(p \o x) = Len(p) + Len(x)
      BY <2>7, <2>10, Cat
    <3> QED BY <2>7, <2>10, <3>1
  <2>12. r = (p \o x) \o <<EOL>>
    BY <1>4, <2>1, <2>2, <2>4, <2>8 DEF Request
  <2>13. /\ r \in Seq(Chars) /\ Len(r) = 5 + 2 * ADDR_LEN + 2 * n /\ r[Len(r)] = EOL
         /\ \A i \in 1..(Len(r) - 1) : r[i] # EOL
    <3>1. /\ r \in Seq(Chars) /\ Len(r) = Len(p \o x) + 1 /\ r[Len(p \o x) + 1] = EOL
          /\ \A i \in 1..Len(p \o x) : r[i] = (p \o x)[i] /\ (p \o x)[i] # EOL
      BY <2>11, <2>12, LineEnd DEF S
    <3>2. Len(r) - 1 = Len(p \o x) /\ Len(r) = 5 + 2 * ADDR_LEN + 2 * n
      BY <1>0, <2>11, <3>1
    <3>3. r[Len(r)] = EOL
      BY <3>1
    <3>4. \A i \in 1..(Len(r) - 1) : r[i] # EOL
      BY <3>1, <3>2
    <3> QED BY <3>1, <3>2, <3>3, <3>4
  <2>14. /\ h \in Seq(Chars) /\ d \in Seq(Chars) /\ x \in Seq(Chars) /\ p \in Seq(Chars)
         /\ <<EOL>> \in Seq(Chars) /\ <<SEP>> \in Seq(Chars)
    BY <1>0, <2>5, <2>6, <2>7, <2>10, SeqMonotonic DEF Chars
  <2>15. SubSeq(r, 5 + 2 * ADDR_LEN, Len(r) - 1) = x
    <3>1. SubSeq(r, Len(p) + 1, Len(p) + Len(x)) = x
      BY <2>12, <2>14, Field
    <3>2. Len(p) + 1 = 5 + 2 * ADDR_LEN /\ Len(p) + Len(x) = Len(r) - 1
      BY <1>0, <2>7, <2>10, <2>13
    <3> QED BY <3>1, <3>2
  <2>16. PICK q \in Seq(Chars) : q = <<SEP>> \o (x \o <<EOL>>)
    <3>1. x \o <<EOL>> \in Seq(Chars)
      BY <2>14, Cat
    <3>2. <<SEP>> \o (x \o <<EOL>>) \in Seq(Chars)
      BY <2>14, <3>1, Cat
    <3> QED BY <3>2
  <2>17. r = (h \o d) \o q
    <3>1. h \o d \in Seq(Chars) /\ x \o <<EOL>> \in Seq(Chars)
      BY <2>14, Cat
    <3>2. (p \o x) \o <<EOL>> = p \o (x \o <<EOL>>)
      <4>1. p \in Seq(Chars) /\ x \in Seq(Chars) /\ <<EOL>> \in Seq(Chars)
        BY <2>14
      <4> QED BY <4>1, ConcatAssociative
    <3>3. PICK f \in Seq(Chars), e \in Seq(Chars), g \in Seq(Chars) :
            f = h \o d /\ e = <<SEP>> /\ g = x \o <<EOL>>
      BY <2>14, <3>1
    <3>4. (f \o e) \o g = f \o (e \o g)
      BY ConcatAssociative
    <3> QED BY <2>8, <2>12, <2>16, <3>2, <3>3, <3>4
  <2>18. SubSeq(r, 4, 3 + 2 * ADDR_LEN) = d
    <3>1. SubSeq(r, Len(h) + 1, Len(h) + Len(d)) = d
      BY <2>14, <2>17, Field
    <3> QED BY <2>5, <2>6, <3>1
  <2>19. Geth(r[1], r[2]) = 1
    <3>1. d \o q \in Seq(Chars)
      BY <2>14, Cat
    <3>2. h \in Seq(Chars) /\ d \in Seq(Chars)
      BY <2>14
    <3>3. (h \o d) \o q = h \o (d \o q)
      BY <3>2, ConcatAssociative
    <3>4. r = h \o (d \o q)
      BY <2>17, <3>3
    <3> QED BY <2>1, <3>1, <3>4, CommandBytes, Opening
  <2>20. Len(r) \in Nat \ {0, 1}
    BY <1>0, <2>13
  <2>21. Unpack(Unhexlify(SubSeq(r, 4, 3 + 2 * ADDR_LEN)))
           = IF c.a >= Weight[ADDR_LEN] \div 2 THEN c.a - Weight[ADDR_LEN] ELSE c.a
    BY <1>2, <1>4, <2>2, <2>18
  <2>22. Unhexlify(SubSeq(r, 5 + 2 * ADDR_LEN, Len(r) - 1)) = c.x
    BY <2>7, <2>15
  <2> QED BY <1>4, <2>13, <2>19, <2>20, <2>21, <2>22
<1> QED BY <1>1, <1>3, <1>4, CallFacts

\* The text of an acknowledgement.
LEMMA AckText ==
  <<"0", "0">> = Puth(0) /\ AckFail = Puth(1) \o <<EOL>>
<1>1. HEX[1] = "0" /\ HEX[2] = "1"
  BY DEF HEX
<1>2. /\ ((0 \div 16) % 16) + 1 = 1 /\ (0 % 16) + 1 = 1
      /\ ((1 \div 16) % 16) + 1 = 1 /\ (1 % 16) + 1 = 2
  OBVIOUS
<1>3. Puth(0) = <<"0", "0">> /\ Puth(1) = <<"0", "1">>
  BY <1>1, <1>2 DEF Puth, Itox
<1>4. AckFail = <<"0", "1">> \o <<EOL>>
  BY DEF AckFail
<1> QED BY <1>3, <1>4

\* A line that is only a command.
LEMMA ShortLine ==
  ASSUME NEW b \in Byte, NEW r, r = Puth(b) \o <<EOL>>
  PROVE  r \in Seq(Chars) /\ Len(r) = 3 /\ Geth(r[1], r[2]) = b
<1>1. PICK p : p = Puth(b)
  OBVIOUS
<1>2. p \in Seq(Digits \cup {SEP}) /\ Len(p) = 2 /\ Geth(p[1], p[2]) = b
  <2>1. p \in Seq(Digits) /\ Len(p) = 2 /\ Geth(p[1], p[2]) = b
    BY <1>1, PuthSeq, PuthGeth
  <2>2. Digits \subseteq Digits \cup {SEP}
    OBVIOUS
  <2>3. p \in Seq(Digits \cup {SEP})
    BY <2>1, <2>2, SeqMonotonic
  <2> QED BY <2>1, <2>3
<1>3. r \in Seq(Chars) /\ Len(r) = Len(p) + 1 /\ \A i \in 1..Len(p) : r[i] = p[i]
  BY <1>1, <1>2, LineEnd
<1>4. Len(r) = 3 /\ r[1] = p[1] /\ r[2] = p[2]
  BY <1>2, <1>3
<1> QED BY <1>2, <1>3, <1>4

\* The bytes that describe the disk.
LEMMA ConfSeq ==
  ConfBytes \in [1..(2 * ADDR_LEN) -> Byte]
<1>1. PICK s : s = Little(BLOCK_NUM)
  OBVIOUS
<1>2. PICK t : t = Little(BLOCK_LEN)
  OBVIOUS
<1>3. ADDR_LEN \in Nat /\ s \in [1..ADDR_LEN -> Byte] /\ t \in [1..ADDR_LEN -> Byte]
  BY <1>1, <1>2, Sizes, LittleBytes
<1>4. s \in Seq(Byte) /\ t \in Seq(Byte) /\ Len(s) = ADDR_LEN /\ Len(t) = ADDR_LEN
  BY <1>3
<1>5. s \o t \in Seq(Byte) /\ Len(s \o t) = Len(s) + Len(t)
  BY <1>4, Cat
<1>6. Len(s \o t) = 2 * ADDR_LEN
  BY <1>3, <1>4, <1>5
<1> QED BY <1>1, <1>2, <1>5, <1>6, LenProperties DEF ConfBytes

\* What is read after an acknowledgement is known before it comes.
LEMMA DataKnown ==
  ASSUME NEW c \in Calls, NEW d \in Images, Accepted(c), c.op # "wr"
  PROVE  DataLen(c) \in Nat \ {0} /\ ReplyData(c, d) \in [1..DataLen(c) -> Byte]
<1>1. CASE c.op = "conf"
  <2>1. 2 * ADDR_LEN \in Nat \ {0}
    BY Sizes
  <2> QED BY <1>1, <2>1, ConfSeq DEF DataLen, ReplyData
<1>2. CASE c.op = "rd"
  <2>1. c.a \in Blocks
    BY <1>2 DEF Accepted
  <2>2. d[c.a] \in [1..BLOCK_LEN -> Byte]
    <3>1. d[c.a] \in [1..BLOCK_LEN -> Bytes]
      BY <2>1 DEF Images
    <3> QED BY <3>1, Sizes
  <2> QED BY <1>2, <2>2, Sizes DEF DataLen, ReplyData
<1> QED BY <1>1, <1>2, CallFacts

\* An answer is what the driver reads: its length, which the driver computes from the
\* first two characters, and the data.
LEMMA ReplyLine ==
  ASSUME NEW c \in Calls, NEW d \in Images, NEW r, r = Reply(c, d)
  PROVE  /\ r \in Seq(Chars) /\ (Geth(r[1], r[2]) = 0 <=> Accepted(c))
         /\ Len(r) = 3 + IF Accepted(c) /\ c.op # "wr" THEN 1 + 2 * DataLen(c) ELSE 0
         /\ Len(r) \in Nat /\ Len(r) >= 3
         /\ Accepted(c) /\ c.op # "wr" => DataGeth(SubSeq(r, 4, 3 + 2 * DataLen(c))) = ReplyData(c, d)
<1>1. CASE ~Accepted(c)
  <2>1. r = Puth(1) \o <<EOL>>
    BY <1>1, AckText DEF Reply
  <2>2. r \in Seq(Chars) /\ Len(r) = 3 /\ Geth(r[1], r[2]) = 1
    BY <2>1, CommandBytes, ShortLine
  <2> QED BY <1>1, <2>2
<1>2. CASE Accepted(c) /\ c.op = "wr"
  <2>1. r = Puth(0) \o <<EOL>>
    <3>1. r = (<<"0", "0">> \o <<>>) \o <<EOL>>
      BY <1>2 DEF Reply, ReplyData, AckOkay
    <3>2. Puth(0) \o <<>> = Puth(0)
      BY CommandBytes, PuthSeq, ConcatEmptySeq
    <3> QED BY <3>1, <3>2, AckText
  <2>2. r \in Seq(Chars) /\ Len(r) = 3 /\ Geth(r[1], r[2]) = 0
    BY <2>1, CommandBytes, ShortLine
  <2> QED BY <1>2, <2>2
<1>3. CASE Accepted(c) /\ c.op # "wr"
  <2>1. PICK n \in Nat \ {0} : n = DataLen(c)
    BY <1>3, DataKnown
  <2>2. PICK s \in [1..n -> Byte] : s = ReplyData(c, d)
    BY <1>3, <2>1, DataKnown
  <2>3. s # <<>>
    <3>1. Len(s) = n /\ Len(<<>>) = 0
      OBVIOUS
    <3> QED BY <3>1
  <2>4. PICK x : x = Hexlify(s)
    OBVIOUS
  <2>5. x \in Seq(Digits) /\ Len(x) = 2 * n /\ Unhexlify(x) = s
    BY <2>4, DataPuthSeq
  <2>6. PICK p : p = Puth(0)
    OBVIOUS
  <2>7. PICK e : e = <<SEP>>
    OBVIOUS
  <2>8. r = (p \o (e \o x)) \o <<EOL>>
    BY <1>3, <2>2, <2>3, <2>4, <2>6, <2>7, AckText DEF Reply, AckOkay
  <2>9. x \in Seq(Chars) /\ p \in Seq(Chars) /\ e \in Seq(Chars) /\ <<EOL>> \in Seq(Chars)
    BY <2>5, <2>6, <2>7, CommandBytes, PuthSeq, DigitsAreChars
  <2>10. PICK h : h = p \o e
    OBVIOUS
  <2>11. p \o (e \o x) = h \o x
    BY <2>9, <2>10, ConcatAssociative
  <2>12. h \in Seq(Digits \cup {SEP}) /\ h \in Seq(Chars) /\ Len(h) = 3
    BY <2>6, <2>7, <2>9, <2>10, CommandBytes, Opening, Cat
  <2>13. r = (h \o x) \o <<EOL>>
    BY <2>8, <2>11
  <2>14. r \in Seq(Chars) /\ Len(r) = 4 + 2 * n
    <3>1. h \o x \in Seq(Chars) /\ Len(h \o x) = Len(h) + Len(x)
      BY <2>9, <2>12, Cat
    <3>2. PICK f \in Seq(Chars) : f = <<EOL>> /\ Len(f) = 1
      BY <2>9
    <3>3. r \in Seq(Chars) /\ Len(r) = Len(h \o x) + Len(f)
      BY <2>13, <3>1, <3>2, Cat
    <3> QED BY <2>5, <2>12, <3>1, <3>2, <3>3
  <2>15. SubSeq(r, 4, 3 + 2 * n) = x
    <3>1. h \in Seq(Chars)
      BY <2>12
    <3>2. SubSeq(r, Len(h) + 1, Len(h) + Len(x)) = x
      BY <2>9, <2>13, <3>1, Field
    <3> QED BY <2>5, <2>12, <3>2
  <2>16. Geth(r[1], r[2]) = 0
    <3>1. x \o <<EOL>> \in Seq(Chars)
      BY <2>9, Cat
    <3>2. h \in Seq(Chars)
      BY <2>12
    <3>3. PICK f \in Seq(Chars) : f = <<EOL>>
      BY <2>9
    <3>4. x \in Seq(Chars)
      BY <2>9
    <3>5. (h \o x) \o f = h \o (x \o f)
      BY <3>2, <3>4, ConcatAssociative
    <3>6. r = h \o (x \o <<EOL>>)
      BY <2>13, <3>3, <3>5
    <3> QED BY <2>6, <2>7, <2>10, <3>1, <3>6, CommandBytes, Opening
  <2>17. DataGeth(SubSeq(r, 4, 3 + 2 * DataLen(c))) = ReplyData(c, d)
    BY <2>1, <2>2, <2>5, <2>15 DEF DataGeth
  <2>18. Len(r) = 3 + (1 + 2 * DataLen(c)) /\ Len(r) \in Nat /\ Len(r) >= 3
    BY <2>1, <2>14
  <2> QED BY <1>3, <2>14, <2>16, <2>17, <2>18
<1> QED BY <1>1, <1>2, <1>3

-----------------------------------------------------------------------------
(* The characters on the way. *)

\* A character goes from the beginning of one sequence to the end of another.
LEMMA Move ==
  ASSUME NEW S, NEW s \in Seq(S), NEW t \in Seq(S), t # <<>>
  PROVE  /\ Append(s, Head(t)) \in Seq(S) /\ Tail(t) \in Seq(S)
         /\ Len(Append(s, Head(t))) = Len(s) + 1 /\ Len(Tail(t)) = Len(t) - 1
         /\ Append(s, Head(t)) \o Tail(t) = s \o t
<1>1. /\ Head(t) \in S /\ Tail(t) \in Seq(S) /\ Len(t) \in Nat \ {0} /\ Len(s) \in Nat
      /\ Len(Tail(t)) = Len(t) - 1 /\ \A i \in 1..Len(Tail(t)) : Tail(t)[i] = t[i + 1]
  BY HeadTailProperties, EmptySeq, LenProperties
<1>2. PICK a : a = Append(s, Head(t))
  OBVIOUS
<1>3. /\ a \in Seq(S) /\ Len(a) = Len(s) + 1 /\ a[Len(s) + 1] = t[1]
      /\ \A i \in 1..Len(s) : a[i] = s[i]
  BY <1>1, <1>2
<1>4. PICK b \in Seq(S) : b = Tail(t)
  BY <1>1
<1>5. /\ a \o b \in Seq(S) /\ Len(a \o b) = Len(a) + Len(b)
      /\ \A i \in 1..Len(a) : (a \o b)[i] = a[i]
      /\ \A i \in 1..Len(b) : (a \o b)[Len(a) + i] = b[i]
  <2>1. a \in Seq(S)
    BY <1>3
  <2> QED BY <2>1, Cat
<1>6. /\ s \o t \in Seq(S) /\ Len(s \o t) = Len(s) + Len(t)
      /\ \A i \in 1..Len(s) : (s \o t)[i] = s[i]
      /\ \A i \in 1..Len(t) : (s \o t)[Len(s) + i] = t[i]
  BY Cat
<1>7. Len(a \o b) = Len(s \o t)
  BY <1>1, <1>3, <1>4, <1>5, <1>6
<1>8. ASSUME NEW i \in 1..Len(a \o b) PROVE (a \o b)[i] = (s \o t)[i]
  <2>1. CASE i \in 1..Len(s)
    <3>1. i \in 1..Len(a)
      BY <1>1, <1>3, <2>1
    <3> QED BY <1>3, <1>5, <1>6, <2>1, <3>1
  <2>2. CASE i = Len(s) + 1
    <3>1. i \in 1..Len(a) /\ 1 \in 1..Len(t)
      BY <1>1, <1>3, <2>2
    <3>2. (a \o b)[i] = t[1]
      BY <1>3, <1>5, <2>2, <3>1
    <3>3. (s \o t)[i] = t[1]
      BY <1>6, <2>2, <3>1
    <3> QED BY <3>2, <3>3
  <2>3. CASE i > Len(s) + 1
    <3>1. PICK k \in Nat : i = Len(s) + 1 + k
      <4>1. i - (Len(s) + 1) \in Nat /\ i = Len(s) + 1 + (i - (Len(s) + 1))
        BY <1>1, <1>3, <1>5, <2>3
      <4> QED BY <4>1
    <3>2. k \in 1..Len(b) /\ k + 1 \in 1..Len(t) /\ i = Len(a) + k /\ i = Len(s) + (k + 1)
      BY <1>1, <1>3, <1>4, <1>5, <2>3, <3>1
    <3>3. (a \o b)[i] = b[k]
      BY <1>5, <3>2
    <3>4. (s \o t)[i] = t[k + 1]
      BY <1>6, <3>2
    <3> QED BY <1>1, <1>4, <3>2, <3>3, <3>4
  <2>4. i \in 1..Len(s) \/ i = Len(s) + 1 \/ i > Len(s) + 1
    BY <1>1, <1>3, <1>5
  <2> QED BY <2>1, <2>2, <2>3, <2>4
<1>9. a \o b = s \o t
  BY <1>5, <1>6, <1>7, <1>8, SeqEqual
<1> QED BY <1>1, <1>2, <1>3, <1>4, <1>9

\* What has arrived of a line is its beginning, and all of it when it is long enough.
LEMMA Arrived ==
  ASSUME NEW S, NEW s \in Seq(S), NEW t \in Seq(S), NEW u \in Seq(S), NEW m, m = (s \o t) \o u
  PROVE  /\ m \in Seq(S) /\ Len(s) \in Nat /\ Len(m) \in Nat /\ Len(s) <= Len(m)
         /\ \A i \in 1..Len(s) : s[i] = m[i]
         /\ Len(s) = Len(m) => s = m /\ t = <<>> /\ u = <<>>
<1>1. Len(s) \in Nat /\ Len(t) \in Nat /\ Len(u) \in Nat
  BY LenProperties
<1>2. PICK v \in Seq(S) : v = t \o u /\ Len(v) = Len(t) + Len(u)
  BY Cat
<1>3. m = s \o v
  BY <1>2, ConcatAssociative
<1>4. /\ m \in Seq(S) /\ Len(m) = Len(s) + Len(v)
      /\ \A i \in 1..Len(s) : m[i] = s[i]
  BY <1>3, Cat
<1>5. ASSUME Len(s) = Len(m) PROVE s = m /\ t = <<>> /\ u = <<>>
  <2>1. Len(t) = 0 /\ Len(u) = 0
    BY <1>1, <1>2, <1>4, <1>5
  <2>2. t = <<>> /\ u = <<>>
    BY <2>1, EmptySeq
  <2>3. s = m
    BY <1>4, <1>5, SeqEqual
  <2> QED BY <2>2, <2>3
<1> QED BY <1>1, <1>2, <1>4, <1>5

\* The disk program has read a whole line: it is the request of the call in progress,
\* and the disk program takes it for what the driver meant.
LEMMA Understood ==
  ASSUME IInv, HaveLine
  PROVE  \E c \in Calls :
           /\ call = <<c>> /\ Sending(c) /\ tx = <<>> /\ out = <<>>
           /\ Command = CASE c.op = "conf" -> 0 [] c.op = "wr" -> 1 [] c.op = "rd" -> 2
           /\ c.op # "conf" =>
                Address = IF c.a >= Weight[ADDR_LEN] \div 2 THEN c.a - Weight[ADDR_LEN] ELSE c.a
           /\ c.op = "wr" => WriteData = c.x
<1>1. /\ line # <<>> /\ Last(line) = EOL
      /\ line \in Seq(Chars) /\ tx \in Seq(Chars) /\ out \in Seq(Chars)
  BY DEF HaveLine, WholeLine, IInv, Types
<1>2. PICK c \in Calls : call = <<c>>
  BY <1>1 DEF IInv, Types, Quiet
<1>3. call # <<>> /\ call[1] = c
  BY <1>2
<1>4. Sending(c)
  BY <1>1, <1>3 DEF IInv, Answering
<1>5. PICK r : r = Request(c)
  OBVIOUS
<1>6. /\ r \in Seq(Chars) /\ Len(r) \in Nat \ {0, 1} /\ r[Len(r)] = EOL
      /\ \A i \in 1..(Len(r) - 1) : r[i] # EOL
  BY <1>5, RequestLine
<1>7. r = (line \o tx) \o out
  BY <1>4, <1>5 DEF Sending
<1>8. /\ Len(line) \in Nat /\ Len(line) <= Len(r)
      /\ \A i \in 1..Len(line) : line[i] = r[i]
      /\ Len(line) = Len(r) => line = r /\ tx = <<>> /\ out = <<>>
  BY <1>1, <1>7, Arrived
<1>9. Len(line) # 0
  BY <1>1, EmptySeq
<1>10. Len(line) = Len(r)
  <2>1. SUFFICES ASSUME Len(line) # Len(r) PROVE FALSE
    OBVIOUS
  <2>2. Len(line) \in 1..(Len(r) - 1) /\ Len(line) \in 1..Len(line)
    BY <1>6, <1>8, <1>9, <2>1
  <2>3. line[Len(line)] # EOL
    BY <1>6, <1>8, <2>2
  <2> QED BY <1>1, <2>3 DEF Last
<1>11. line = r /\ tx = <<>> /\ out = <<>>
  BY <1>8, <1>10
<1>12. Command = CASE c.op = "conf" -> 0 [] c.op = "wr" -> 1 [] c.op = "rd" -> 2
  BY <1>5, <1>11, RequestLine DEF Command
<1>13. c.op # "conf" =>
         Address = IF c.a >= Weight[ADDR_LEN] \div 2 THEN c.a - Weight[ADDR_LEN] ELSE c.a
  BY <1>5, <1>11, RequestLine DEF Address
<1>14. c.op = "wr" => WriteData = c.x
  BY <1>5, <1>11, RequestLine DEF WriteData
<1> QED BY <1>2, <1>4, <1>11, <1>12, <1>13, <1>14

\* The driver has read all that it expects: it is the answer to the call in progress.
LEMMA AllRead ==
  ASSUME IInv, Answered
  PROVE  \E c \in Calls :
           /\ call = <<c>> /\ Answering(c) /\ got = Reply(c, disk) /\ rx = <<>> /\ ack = <<>>
           /\ Acked(got) <=> Accepted(c)
<1>1. /\ got \in Seq(Chars) /\ rx \in Seq(Chars) /\ ack \in Seq(Chars) /\ disk \in Images
      /\ call # <<>>
  BY DEF IInv, Types, Answered, Reading
<1>2. PICK c \in Calls : call = <<c>>
  BY <1>1 DEF IInv, Types
<1>3. call[1] = c
  BY <1>2
<1>4. Len(got) >= 2 /\ Len(got) = Expects(c, got) /\ Len(got) \in Nat
  BY <1>1, <1>3, LenProperties DEF Answered
<1>5. Answering(c)
  <2>1. got # <<>>
    BY <1>4
  <2> QED BY <1>1, <1>3, <2>1 DEF IInv, Sending
<1>6. PICK r : r = Reply(c, disk)
  OBVIOUS
<1>7. r = (got \o rx) \o ack
  BY <1>5, <1>6 DEF Answering
<1>8. /\ \A i \in 1..Len(got) : got[i] = r[i]
      /\ Len(got) = Len(r) => got = r /\ rx = <<>> /\ ack = <<>>
  BY <1>1, <1>7, Arrived
<1>9. got[1] = r[1] /\ got[2] = r[2]
  <2>1. 1 \in 1..Len(got) /\ 2 \in 1..Len(got)
    BY <1>4
  <2> QED BY <1>8, <2>1
<1>10. Acked(got) <=> Accepted(c)
  BY <1>1, <1>6, <1>9, ReplyLine DEF Acked
<1>11. Expects(c, got) = 3 + IF Acked(got) /\ c.op # "wr" THEN 1 + 2 * DataLen(c) ELSE 0
  BY <1>4 DEF Expects
<1>12. Len(got) = Len(r)
  <2>1. Len(r) = 3 + IF Accepted(c) /\ c.op # "wr" THEN 1 + 2 * DataLen(c) ELSE 0
    BY <1>1, <1>6, ReplyLine
  <2> QED BY <1>4, <1>10, <1>11, <2>1
<1> QED BY <1>2, <1>5, <1>6, <1>8, <1>10, <1>12

-----------------------------------------------------------------------------
(* The steps of the driver and of the socket. *)

\* A call that is being sent, when the character that moves is in out or tx.
LEMMA SendingNow ==
  ASSUME IInv, out # <<>> \/ tx # <<>> \/ line # <<>>
  PROVE  \E c \in Calls : call = <<c>> /\ Sending(c)
<1>1. PICK c \in Calls : call = <<c>>
  BY DEF IInv, Types, Quiet
<1>2. call # <<>> /\ call[1] = c
  BY <1>1
<1> QED BY <1>1, <1>2 DEF IInv, Answering

\* A call whose answer is on the way.
LEMMA AnsweringNow ==
  ASSUME IInv, rx # <<>> \/ ack # <<>>
  PROVE  \E c \in Calls : call = <<c>> /\ Answering(c)
<1>1. PICK c \in Calls : call = <<c>>
  BY DEF IInv, Types, Quiet
<1>2. call # <<>> /\ call[1] = c
  BY <1>1
<1> QED BY <1>1, <1>2 DEF IInv, Sending

\* A new call finds nothing on the way; its request is all in out.
LEMMA InvokeStep ==
  ASSUME IInv, NEW c \in Calls, Invoke(c)
  PROVE  IInv'
<1>1. /\ call' = <<c>> /\ tries' = 0 /\ out' = Request(c) /\ got' = <<>> /\ done' = FALSE
      /\ tx' = <<>> /\ rx' = <<>> /\ line' = <<>> /\ ack' = <<>> /\ alive' = alive /\ disk' = disk
  BY DEF Invoke, IInv, Quiet
<1>2. Request(c) \in Seq(Chars)
  BY RequestLine
<1>3. Types'
  <2>1. 0 \in 0..(RETRY - 1) /\ 0 <= FIFO
    BY Sizes
  <2>2. <<>> \in Seq(Chars) /\ Len(<<>>) = 0
    OBVIOUS
  <2> QED BY <1>1, <1>2, <2>1, <2>2 DEF IInv, Types
<1>4. call' # <<>> /\ call'[1] = c
  BY <1>1
<1>5. Sending(c)'
  <2>1. (<<>> \o <<>>) \o Request(c) = Request(c)
    <3>1. <<>> \o <<>> = <<>>
      OBVIOUS
    <3> QED BY <1>2, <3>1, ConcatEmptySeq
  <2> QED BY <1>1, <2>1 DEF Sending
<1> QED BY <1>3, <1>4, <1>5 DEF IInv

\* PL011_putc moves one character of the request into the FIFO.
LEMMA PutStep ==
  ASSUME IInv, Put
  PROVE  IInv'
<1>1. /\ out # <<>> /\ Len(tx) < FIFO /\ tx' = Append(tx, Head(out)) /\ out' = Tail(out)
      /\ UNCHANGED <<call, tries, got, buf, rx, line, ack, alive, disk, done>>
  BY DEF Put
<1>2. PICK c \in Calls : call = <<c>> /\ Sending(c)
  BY <1>1, SendingNow
<1>3. out \in Seq(Chars) /\ tx \in Seq(Chars) /\ line \in Seq(Chars) /\ Len(tx) \in Nat
  BY LenProperties DEF IInv, Types
<1>4. /\ tx' \in Seq(Chars) /\ out' \in Seq(Chars) /\ Len(tx') = Len(tx) + 1
      /\ tx' \o out' = tx \o out
  <2>1. tx \in Seq(Chars) /\ out \in Seq(Chars) /\ out # <<>>
    BY <1>1, <1>3
  <2>2. /\ Append(tx, Head(out)) \in Seq(Chars) /\ Tail(out) \in Seq(Chars)
        /\ Len(Append(tx, Head(out))) = Len(tx) + 1
        /\ Append(tx, Head(out)) \o Tail(out) = tx \o out
    BY <2>1, Move
  <2> QED BY <1>1, <2>2
<1>5. Types'
  <2>1. Len(tx') <= FIFO
    BY <1>1, <1>3, <1>4, Sizes
  <2> QED BY <1>1, <1>4, <2>1 DEF IInv, Types
<1>6. (line \o tx') \o out' = (line \o tx) \o out
  <2>1. line \in Seq(Chars) /\ tx \in Seq(Chars) /\ out \in Seq(Chars)
    BY <1>3
  <2>2. (line \o tx) \o out = line \o (tx \o out)
    BY <2>1, ConcatAssociative
  <2>3. line \in Seq(Chars) /\ tx' \in Seq(Chars) /\ out' \in Seq(Chars)
    BY <1>3, <1>4
  <2>4. (line \o tx') \o out' = line \o (tx' \o out')
    BY <2>3, ConcatAssociative
  <2>5. tx' \o out' = tx \o out
    BY <1>4
  <2> QED BY <2>2, <2>4, <2>5
<1>7. Sending(c)'
  BY <1>1, <1>2, <1>6 DEF Sending
<1>8. call' # <<>> /\ call'[1] = c
  BY <1>1, <1>2
<1> QED BY <1>5, <1>7, <1>8 DEF IInv

\* The disk program reads one character of the request.
LEMMA ReadCharStep ==
  ASSUME IInv, ReadChar
  PROVE  IInv'
<1>1. /\ tx # <<>> /\ line' = Append(line, Head(tx)) /\ tx' = Tail(tx)
      /\ UNCHANGED <<call, tries, out, got, buf, rx, ack, alive, disk, done>>
  BY DEF ReadChar
<1>2. PICK c \in Calls : call = <<c>> /\ Sending(c)
  BY <1>1, SendingNow
<1>3. tx \in Seq(Chars) /\ line \in Seq(Chars) /\ Len(tx) \in Nat /\ Len(tx) <= FIFO
  BY LenProperties DEF IInv, Types
<1>4. /\ line' \in Seq(Chars) /\ tx' \in Seq(Chars) /\ Len(tx') = Len(tx) - 1
      /\ line' \o tx' = line \o tx
  <2>1. line \in Seq(Chars) /\ tx \in Seq(Chars) /\ tx # <<>>
    BY <1>1, <1>3
  <2>2. /\ Append(line, Head(tx)) \in Seq(Chars) /\ Tail(tx) \in Seq(Chars)
        /\ Len(Tail(tx)) = Len(tx) - 1 /\ Append(line, Head(tx)) \o Tail(tx) = line \o tx
    BY <2>1, Move
  <2> QED BY <1>1, <2>2
<1>5. Types'
  <2>1. Len(tx') <= FIFO
    BY <1>3, <1>4, Sizes
  <2> QED BY <1>1, <1>4, <2>1 DEF IInv, Types
<1>6. Sending(c)'
  BY <1>1, <1>2, <1>4 DEF Sending
<1>7. call' # <<>> /\ call'[1] = c
  BY <1>1, <1>2
<1> QED BY <1>5, <1>6, <1>7 DEF IInv

\* The socket moves one character of the answer into the FIFO.
LEMMA DeliverStep ==
  ASSUME IInv, Deliver
  PROVE  IInv'
<1>1. /\ ack # <<>> /\ Len(rx) < FIFO /\ rx' = Append(rx, Head(ack)) /\ ack' = Tail(ack)
      /\ UNCHANGED <<call, tries, out, got, buf, tx, line, alive, disk, done>>
  BY DEF Deliver
<1>2. PICK c \in Calls : call = <<c>> /\ Answering(c)
  BY <1>1, AnsweringNow
<1>3. ack \in Seq(Chars) /\ rx \in Seq(Chars) /\ got \in Seq(Chars) /\ Len(rx) \in Nat
  BY LenProperties DEF IInv, Types
<1>4. /\ rx' \in Seq(Chars) /\ ack' \in Seq(Chars) /\ Len(rx') = Len(rx) + 1
      /\ rx' \o ack' = rx \o ack
  <2>1. rx \in Seq(Chars) /\ ack \in Seq(Chars) /\ ack # <<>>
    BY <1>1, <1>3
  <2>2. /\ Append(rx, Head(ack)) \in Seq(Chars) /\ Tail(ack) \in Seq(Chars)
        /\ Len(Append(rx, Head(ack))) = Len(rx) + 1
        /\ Append(rx, Head(ack)) \o Tail(ack) = rx \o ack
    BY <2>1, Move
  <2> QED BY <1>1, <2>2
<1>5. Types'
  <2>1. Len(rx') <= FIFO
    BY <1>1, <1>3, <1>4, Sizes
  <2> QED BY <1>1, <1>4, <2>1 DEF IInv, Types
<1>6. (got \o rx') \o ack' = (got \o rx) \o ack
  <2>1. got \in Seq(Chars) /\ rx \in Seq(Chars) /\ ack \in Seq(Chars)
    BY <1>3
  <2>2. (got \o rx) \o ack = got \o (rx \o ack)
    BY <2>1, ConcatAssociative
  <2>3. got \in Seq(Chars) /\ rx' \in Seq(Chars) /\ ack' \in Seq(Chars)
    BY <1>3, <1>4
  <2>4. (got \o rx') \o ack' = got \o (rx' \o ack')
    BY <2>3, ConcatAssociative
  <2>5. rx' \o ack' = rx \o ack
    BY <1>4
  <2> QED BY <2>2, <2>4, <2>5
<1>7. Answering(c)'
  BY <1>1, <1>2, <1>6 DEF Answering
<1>8. call' # <<>> /\ call'[1] = c
  BY <1>1, <1>2
<1> QED BY <1>5, <1>7, <1>8 DEF IInv

\* PL011_getc reads one character of the answer.
LEMMA GetStep ==
  ASSUME IInv, Get
  PROVE  IInv'
<1>1. /\ rx # <<>> /\ got' = Append(got, Head(rx)) /\ rx' = Tail(rx)
      /\ UNCHANGED <<call, tries, out, buf, tx, line, ack, alive, disk, done>>
  BY DEF Get
<1>2. PICK c \in Calls : call = <<c>> /\ Answering(c)
  BY <1>1, AnsweringNow
<1>3. rx \in Seq(Chars) /\ got \in Seq(Chars) /\ Len(rx) \in Nat /\ Len(rx) <= FIFO
  BY LenProperties DEF IInv, Types
<1>4. /\ got' \in Seq(Chars) /\ rx' \in Seq(Chars) /\ Len(rx') = Len(rx) - 1
      /\ got' \o rx' = got \o rx
  <2>1. got \in Seq(Chars) /\ rx \in Seq(Chars) /\ rx # <<>>
    BY <1>1, <1>3
  <2>2. /\ Append(got, Head(rx)) \in Seq(Chars) /\ Tail(rx) \in Seq(Chars)
        /\ Len(Tail(rx)) = Len(rx) - 1 /\ Append(got, Head(rx)) \o Tail(rx) = got \o rx
    BY <2>1, Move
  <2> QED BY <1>1, <2>2
<1>5. Types'
  <2>1. Len(rx') <= FIFO
    BY <1>3, <1>4, Sizes
  <2> QED BY <1>1, <1>4, <2>1 DEF IInv, Types
<1>6. Answering(c)'
  BY <1>1, <1>2, <1>4 DEF Answering
<1>7. call' # <<>> /\ call'[1] = c
  BY <1>1, <1>2
<1> QED BY <1>5, <1>6, <1>7 DEF IInv

\* The call ends: nothing is left on the way.
LEMMA ReturnStep ==
  ASSUME IInv, ReturnOk \/ GiveUp
  PROVE  IInv'
<1>1. /\ Answered /\ call' = <<>>
      /\ UNCHANGED <<tries, out, got, tx, rx, line, ack, alive, disk, done>>
  BY DEF ReturnOk, GiveUp
<1>2. Quiet
  BY <1>1, AllRead DEF Answering, Quiet
<1>3. Quiet'
  BY <1>1, <1>2 DEF Quiet
<1>4. Types'
  BY <1>1 DEF IInv, Types
<1> QED BY <1>1, <1>3, <1>4 DEF IInv

\* The answer is read completely before the request is sent again.
LEMMA RetryStep ==
  ASSUME IInv, Retry
  PROVE  IInv'
<1>1. /\ Answered /\ ~Acked(got) /\ tries + 1 < RETRY
      /\ tries' = tries + 1 /\ out' = Request(call[1]) /\ got' = <<>>
      /\ UNCHANGED <<call, buf, tx, rx, line, ack, alive, disk, done>>
  BY DEF Retry
<1>2. PICK c \in Calls : /\ call = <<c>> /\ Answering(c) /\ rx = <<>> /\ ack = <<>>
                         /\ Acked(got) <=> Accepted(c)
  BY <1>1, AllRead
<1>3. out' = Request(c) /\ Request(c) \in Seq(Chars) /\ call' # <<>> /\ call'[1] = c
  BY <1>1, <1>2, RequestLine
<1>4. Types'
  <2>1. tries' \in 0..(RETRY - 1)
    BY <1>1, Sizes DEF IInv, Types
  <2>2. <<>> \in Seq(Chars)
    OBVIOUS
  <2> QED BY <1>1, <1>3, <2>1, <2>2 DEF IInv, Types
<1>5. Sending(c)'
  <2>1. (<<>> \o <<>>) \o Request(c) = Request(c)
    <3>1. <<>> \o <<>> = <<>>
      OBVIOUS
    <3> QED BY <1>3, <3>1, ConcatEmptySeq
  <2> QED BY <1>1, <1>2, <1>3, <2>1 DEF Sending, Answering
<1> QED BY <1>3, <1>4, <1>5 DEF IInv

-----------------------------------------------------------------------------
(* The steps of the disk program. *)

\* An answer leaves.
LEMMA AnswerStep ==
  ASSUME IInv, HaveLine, NEW c \in Calls, call = <<c>>, tx = <<>>, out = <<>>, Sending(c),
         NEW a, NEW d \in Images, Answer(a, d), a = Reply(c, d), a # AckFail <=> Accepted(c)
  PROVE  IInv'
<1>1. /\ ack' = ack \o a /\ disk' = d /\ line' = <<>>
      /\ done' = (done \/ a # AckFail)
      /\ UNCHANGED <<call, tries, out, got, buf, tx, rx, alive>>
  BY DEF Answer
<1>2. got = <<>> /\ rx = <<>> /\ ack = <<>> /\ done = FALSE
  BY DEF Sending, IInv, Types
<1>3. a \in Seq(Chars)
  BY ReplyLine
<1>4. ack' = a
  BY <1>1, <1>2, <1>3, ConcatEmptySeq
<1>5. done' = Accepted(c) /\ done' \in BOOLEAN
  BY <1>1, <1>2 DEF Accepted
<1>6. Types'
  <2>1. <<>> \in Seq(Chars)
    OBVIOUS
  <2> QED BY <1>1, <1>3, <1>4, <1>5, <2>1 DEF IInv, Types
<1>7. call' # <<>> /\ call'[1] = c
  BY <1>1
<1>8. Answering(c)'
  <2>1. (<<>> \o <<>>) \o a = a
    <3>1. <<>> \o <<>> = <<>>
      OBVIOUS
    <3> QED BY <1>3, <3>1, ConcatEmptySeq
  <2> QED BY <1>1, <1>2, <1>4, <1>5, <2>1 DEF Answering, Accepted
<1> QED BY <1>6, <1>7, <1>8 DEF IInv

\* An acknowledgement with data is not a refusal.
LEMMA OkayIsNotFail ==
  ASSUME NEW c \in Calls, NEW d \in Images
  PROVE  Reply(c, d) # AckFail <=> Accepted(c)
<1>1. CASE ~Accepted(c)
  BY <1>1 DEF Reply
<1>2. CASE Accepted(c)
  <2>1. Geth(Reply(c, d)[1], Reply(c, d)[2]) = 0
    BY <1>2, ReplyLine
  <2>2. Geth(AckFail[1], AckFail[2]) = 1
    BY AckText, CommandBytes, ShortLine
  <2> QED BY <1>2, <2>1, <2>2
<1> QED BY <1>1, <1>2

\* The addresses of blocks are those that are not negative for the disk program and
\* small enough.
LEMMA AddressSound ==
  ASSUME NEW a \in 0..(Weight[ADDR_LEN] - 1), NEW s,
         s = IF a >= Weight[ADDR_LEN] \div 2 THEN a - Weight[ADDR_LEN] ELSE a
  PROVE  /\ s \in Blocks => a = s
         /\ s >= BLOCK_NUM => a \notin Blocks
         /\ s < 0 => a \notin Blocks
<1>1. PICK w \in Nat \ {0} : w = Weight[ADDR_LEN]
  BY Sizes, WeightDef
<1>2. PICK h \in Nat : h = w \div 2
  OBVIOUS
<1>3. BLOCK_NUM \in Nat /\ BLOCK_NUM < h
  BY <1>1, <1>2, DiskLinkAssumption
<1>4. a \in 0..(w - 1) /\ s = IF a >= h THEN a - w ELSE a
  BY <1>1, <1>2
<1> QED BY <1>3, <1>4 DEF Blocks

\* A write leaves an image behind.
LEMMA WriteImage ==
  ASSUME NEW c \in Calls, c.op = "wr", c.a \in Blocks, NEW d \in Images
  PROVE  [d EXCEPT ![c.a] = [i \in 1..BLOCK_LEN |-> IF i <= Len(c.x) THEN c.x[i] ELSE @[i]]] \in Images
<1>1. c.x \in UNION {[1..n -> Bytes] : n \in 1..BLOCK_LEN}
  <2>1. PICK a \in Addresses : c \in CallsTo(a)
    <3>1. c = [op |-> "conf", a |-> 0, x |-> <<>>] \/ \E a \in Addresses : c \in CallsTo(a)
      BY Zenon DEF Calls
    <3> QED BY <3>1
  <2>2. \/ c = [op |-> "rd", a |-> a, x |-> <<>>]
        \/ c \in [op : {"wr"}, a : {a}, x : UNION {[1..n -> Bytes] : n \in 1..BLOCK_LEN}]
    BY <2>1, Zenon DEF CallsTo
  <2> QED BY <2>2
<1>2. PICK n \in 1..BLOCK_LEN : c.x \in [1..n -> Bytes]
  BY <1>1
<1>3. n \in Nat /\ BLOCK_LEN \in Nat
  BY Sizes
<1>4. Len(c.x) = n
  BY <1>2, <1>3
<1>5. d[c.a] \in [1..BLOCK_LEN -> Bytes]
  BY DEF Images
<1>6. [i \in 1..BLOCK_LEN |-> IF i <= Len(c.x) THEN c.x[i] ELSE d[c.a][i]] \in [1..BLOCK_LEN -> Bytes]
  <2>1. ASSUME NEW i \in 1..BLOCK_LEN PROVE (IF i <= Len(c.x) THEN c.x[i] ELSE d[c.a][i]) \in Bytes
    <3>1. CASE i <= n
      <4>1. i \in 1..n
        BY <1>3, <3>1
      <4> QED BY <1>2, <1>4, <3>1, <4>1
    <3>2. CASE ~(i <= n)
      BY <1>4, <1>5, <3>2
    <3> QED BY <3>1, <3>2
  <2> QED BY <2>1
<1> QED BY <1>6 DEF Images

\* What each step of the disk program does to the call in progress.
LEMMA ServeFacts ==
  ASSUME IInv, NEW c \in Calls, call = <<c>>,
         Command = CASE c.op = "conf" -> 0 [] c.op = "wr" -> 1 [] c.op = "rd" -> 2,
         c.op # "conf" =>
           Address = IF c.a >= Weight[ADDR_LEN] \div 2 THEN c.a - Weight[ADDR_LEN] ELSE c.a,
         c.op = "wr" => WriteData = c.x
  PROVE  /\ ServeConf => c.op = "conf" /\ Answer(Reply(c, disk), disk)
         /\ ServeRefuse => ~Accepted(c) /\ Answer(Reply(c, disk), disk)
         /\ ServeRead => c.op = "rd" /\ c.a \in Blocks /\ Answer(Reply(c, disk), disk)
         /\ ServeWrite =>
              /\ c.op = "wr" /\ c.a \in Blocks
              /\ LET d == [disk EXCEPT ![c.a] = [i \in 1..BLOCK_LEN |->
                                                   IF i <= Len(c.x) THEN c.x[i] ELSE @[i]]]
                 IN Answer(Reply(c, d), d)
<1>1. c.op \in {"conf", "wr", "rd"} /\ c.a \in 0..(Weight[ADDR_LEN] - 1)
  BY CallFacts
<1>2. c.op # "conf" => /\ Address \in Blocks => c.a = Address
                       /\ Address >= BLOCK_NUM => c.a \notin Blocks
  BY <1>1, AddressSound
<1>3. ASSUME ServeConf PROVE c.op = "conf" /\ Answer(Reply(c, disk), disk)
  <2>1. c.op = "conf"
    BY <1>1, <1>3 DEF ServeConf
  <2>2. Reply(c, disk) = AckOkay(ConfBytes)
    BY <2>1 DEF Reply, ReplyData, Accepted
  <2> QED BY <1>3, <2>1, <2>2 DEF ServeConf
<1>4. ASSUME ServeRefuse PROVE ~Accepted(c) /\ Answer(Reply(c, disk), disk)
  <2>1. c.op # "conf" /\ Address >= BLOCK_NUM
    BY <1>1, <1>4 DEF ServeRefuse, Refused
  <2>2. ~Accepted(c)
    BY <1>2, <2>1 DEF Accepted
  <2>3. Reply(c, disk) = AckFail
    BY <2>2 DEF Reply
  <2> QED BY <1>4, <2>2, <2>3 DEF ServeRefuse
<1>5. ASSUME ServeRead PROVE c.op = "rd" /\ c.a \in Blocks /\ Answer(Reply(c, disk), disk)
  <2>1. c.op = "rd" /\ Address \in Blocks
    BY <1>1, <1>5 DEF ServeRead
  <2>2. c.a = Address
    BY <1>2, <2>1
  <2>3. Reply(c, disk) = AckOkay(disk[Address])
    BY <2>1, <2>2 DEF Reply, ReplyData, Accepted
  <2> QED BY <1>5, <2>1, <2>2, <2>3 DEF ServeRead
<1>6. ASSUME ServeWrite
      PROVE  /\ c.op = "wr" /\ c.a \in Blocks
             /\ LET d == [disk EXCEPT ![c.a] = [i \in 1..BLOCK_LEN |->
                                                  IF i <= Len(c.x) THEN c.x[i] ELSE @[i]]]
                IN Answer(Reply(c, d), d)
  <2>1. c.op = "wr" /\ Address \in Blocks
    BY <1>1, <1>6 DEF ServeWrite
  <2>2. c.a = Address /\ WriteData = c.x
    BY <1>2, <2>1
  <2>3. \A d : Reply(c, d) = AckOkay(<<>>)
    BY <2>1, <2>2 DEF Reply, ReplyData, Accepted
  <2> QED BY <1>6, <2>1, <2>2, <2>3 DEF ServeWrite
<1> QED BY <1>3, <1>4, <1>5, <1>6

\* The disk program reads the whole request before it answers, and the answer is the only
\* one on the way.
LEMMA ServeStep ==
  ASSUME IInv, ServeConf \/ ServeRefuse \/ ServeWrite \/ ServeRead
  PROVE  IInv'
<1>1. HaveLine
  BY DEF ServeConf, ServeRefuse, ServeWrite, ServeRead
<1>2. PICK c \in Calls :
        /\ call = <<c>> /\ Sending(c) /\ tx = <<>> /\ out = <<>>
        /\ Command = CASE c.op = "conf" -> 0 [] c.op = "wr" -> 1 [] c.op = "rd" -> 2
        /\ c.op # "conf" =>
             Address = IF c.a >= Weight[ADDR_LEN] \div 2 THEN c.a - Weight[ADDR_LEN] ELSE c.a
        /\ c.op = "wr" => WriteData = c.x
  BY <1>1, Understood
<1>3. disk \in Images
  BY DEF IInv, Types
<1>4. CASE ServeConf \/ ServeRefuse \/ ServeRead
  <2>1. Answer(Reply(c, disk), disk)
    BY <1>2, <1>4, ServeFacts
  <2> QED BY <1>1, <1>2, <1>3, <2>1, AnswerStep, OkayIsNotFail
<1>5. CASE ServeWrite
  <2>1. PICK d : d = [disk EXCEPT ![c.a] = [i \in 1..BLOCK_LEN |->
                                              IF i <= Len(c.x) THEN c.x[i] ELSE @[i]]]
    OBVIOUS
  <2>2. c.op = "wr" /\ c.a \in Blocks /\ Answer(Reply(c, d), d)
    BY <1>2, <1>5, <2>1, ServeFacts
  <2>3. d \in Images
    BY <1>3, <2>1, <2>2, WriteImage
  <2> QED BY <1>1, <1>2, <2>2, <2>3, AnswerStep, OkayIsNotFail
<1> QED BY <1>4, <1>5

-----------------------------------------------------------------------------
(* The invariant holds. *)

\* Initially nothing is on the way.
LEMMA InitOK ==
  Init => IInv
<1> SUFFICES ASSUME Init PROVE IInv
  OBVIOUS
<1>1. /\ call = <<>> /\ tries = 0 /\ out = <<>> /\ got = <<>> /\ tx = <<>> /\ rx = <<>>
      /\ line = <<>> /\ ack = <<>> /\ alive = TRUE /\ done = FALSE /\ disk \in Images
  BY DEF Init, Images
<1>2. 0 \in 0..(RETRY - 1) /\ 0 <= FIFO
  BY Sizes
<1>3. <<>> \in Seq(Chars) /\ Len(<<>>) = 0
  OBVIOUS
<1> QED BY <1>1, <1>2, <1>3 DEF IInv, Types, Quiet

\* A step that only ends the disk program, or that changes nothing.
LEMMA IdleStep ==
  ASSUME IInv, UNCHANGED <<call, tries, out, got, tx, rx, line, ack, disk, done>>, alive' \in BOOLEAN
  PROVE  IInv'
BY DEF IInv, Types, Quiet, Sending, Answering, Request, Reply, ReplyData, Accepted

\* Every step preserves the invariant.
LEMMA Inductive ==
  IInv /\ [Next]_vars => IInv'
<1> SUFFICES ASSUME IInv, [Next]_vars PROVE IInv'
  OBVIOUS
<1>1. CASE \E c \in Calls : Invoke(c)
  BY <1>1, InvokeStep
<1>2. CASE Put
  BY <1>2, PutStep
<1>3. CASE Get
  BY <1>3, GetStep
<1>4. CASE ReturnOk \/ GiveUp
  BY <1>4, ReturnStep
<1>5. CASE Retry
  BY <1>5, RetryStep
<1>6. CASE ReadChar
  BY <1>6, ReadCharStep
<1>7. CASE ServeConf \/ ServeRefuse \/ ServeWrite \/ ServeRead
  BY <1>7, ServeStep
<1>8. CASE ServeSeekError
  BY <1>8, IdleStep DEF ServeSeekError
<1>9. CASE Deliver
  BY <1>9, DeliverStep
<1>10. CASE UNCHANGED vars
  <2>1. alive \in BOOLEAN
    BY DEF IInv, Types
  <2> QED BY <1>10, <2>1, IdleStep DEF vars
<1>11. CASE Spin
  BY <1>10, <1>11 DEF Spin
<1> QED BY <1>1, <1>2, <1>3, <1>4, <1>5, <1>6, <1>7, <1>8, <1>9, <1>10, <1>11
        DEF Next, Driver, Server

\* In every state a call is either being sent or being answered, and the characters on the
\* way are exactly those of its request or of the answer that the disk gives.
THEOREM Invariance == Spec => []IInv
<1> QED BY InitOK, Inductive, PTL DEF Spec

-----------------------------------------------------------------------------
(* The two sides stay in step. *)

\* The members of a sequence.
LEMMA Members ==
  ASSUME NEW S, NEW s \in Seq(S)
  PROVE  ToSet(s) \subseteq S
<1>1. \A i \in DOMAIN s : s[i] \in S
  OBVIOUS
<1> QED BY <1>1, Zenon DEF ToSet

\* All characters on the way are hexadecimal digits, separators and ends of lines.
LEMMA CharsOnly ==
  ASSUME Types
  PROVE  ToSet(out \o got \o tx \o rx \o line \o ack) \subseteq Chars
<1>1. PICK a : a = out \o got
  OBVIOUS
<1>2. PICK b : b = a \o tx
  OBVIOUS
<1>3. PICK c : c = b \o rx
  OBVIOUS
<1>4. PICK d : d = c \o line
  OBVIOUS
<1>5. PICK e : e = d \o ack
  OBVIOUS
<1>6. a \in Seq(Chars)
  BY <1>1, ConcatProperties DEF Types
<1>7. b \in Seq(Chars)
  BY <1>2, <1>6, ConcatProperties DEF Types
<1>8. c \in Seq(Chars)
  BY <1>3, <1>7, ConcatProperties DEF Types
<1>9. d \in Seq(Chars)
  BY <1>4, <1>8, ConcatProperties DEF Types
<1>10. e \in Seq(Chars)
  BY <1>5, <1>9, ConcatProperties DEF Types
<1>11. ToSet(e) \subseteq Chars
  BY <1>10, Members
<1> QED BY <1>1, <1>2, <1>3, <1>4, <1>5, <1>11

\* The driver reads exactly what the disk program sends: between two calls nothing is left
\* in the UART, the socket or the disk program, and no FIFO is overrun.
THEOREM SyncCorrect == Spec => []InSync
<1>1. ASSUME IInv PROVE InSync
  <2>1. Types /\ (call = <<>> => Quiet)
    BY <1>1 DEF IInv
  <2>2. ToSet(out \o got \o tx \o rx \o line \o ack) \subseteq ToSet(HEX \o hex) \cup {EOL, SEP}
    BY <2>1, CharsOnly DEF Chars, Digits
  <2>3. call = <<>> \/ call[1] \in Calls
    <3>1. call = <<>> \/ \E c \in Calls : call = <<c>>
      BY <2>1 DEF Types
    <3> QED BY <3>1
  <2>4. /\ tries \in 0..(RETRY - 1) /\ Len(tx) <= FIFO /\ Len(rx) <= FIFO
        /\ disk \in [Blocks -> [1..BLOCK_LEN -> Bytes]] /\ alive \in BOOLEAN /\ done \in BOOLEAN
    BY <2>1 DEF Types, Images
  <2>5. TypeOK
    BY <2>2, <2>3, <2>4 DEF TypeOK
  <2>6. ASSUME call = <<>> PROVE tx \o rx \o line \o ack = <<>>
    <3>1. tx = <<>> /\ rx = <<>> /\ line = <<>> /\ ack = <<>>
      BY <2>1, <2>6 DEF Quiet
    <3>2. <<>> \o <<>> = <<>>
      OBVIOUS
    <3> QED BY <3>1, <3>2
  <2> QED BY <2>5, <2>6 DEF InSync
<1> QED BY <1>1, Invariance, PTL

-----------------------------------------------------------------------------
(* The link implements the block device. *)

\* The disk program carries out the call in progress, which it had not done before.
LEMMA PerformStep ==
  ASSUME IInv, ServeConf \/ ServeRefuse \/ ServeWrite \/ ServeRead
  PROVE  [Device!DevNext]_(Device!devVars)
<1>1. HaveLine
  BY DEF ServeConf, ServeRefuse, ServeWrite, ServeRead
<1>2. PICK c \in Calls :
        /\ call = <<c>> /\ Sending(c) /\ tx = <<>> /\ out = <<>>
        /\ Command = CASE c.op = "conf" -> 0 [] c.op = "wr" -> 1 [] c.op = "rd" -> 2
        /\ c.op # "conf" =>
             Address = IF c.a >= Weight[ADDR_LEN] \div 2 THEN c.a - Weight[ADDR_LEN] ELSE c.a
        /\ c.op = "wr" => WriteData = c.x
  BY <1>1, Understood
<1>3. call # <<>> /\ call[1] = c /\ done = FALSE /\ disk \in Images
  BY <1>2 DEF Sending, IInv, Types
<1>4. CASE ServeRefuse
  <2>1. ~Accepted(c) /\ Answer(Reply(c, disk), disk)
    BY <1>2, <1>4, ServeFacts
  <2>2. Reply(c, disk) = AckFail
    BY <2>1 DEF Reply
  <2>3. done' = done /\ disk' = disk /\ call' = call /\ buf' = buf
    BY <1>3, <2>1, <2>2 DEF Answer
  <2> QED BY <2>3 DEF Device!devVars
<1>5. CASE ServeConf \/ ServeRead
  <2>1. c.op # "wr" /\ Accepted(c) /\ Answer(Reply(c, disk), disk)
    BY <1>2, <1>5, ServeFacts DEF Accepted
  <2>2. Reply(c, disk) # AckFail
    BY <1>3, <2>1, OkayIsNotFail
  <2>3. done' = TRUE /\ disk' = disk /\ call' = call /\ buf' = buf
    BY <2>1, <2>2 DEF Answer
  <2>4. Device!DevPerform
    BY <1>3, <2>1, <2>3 DEF Device!DevPerform, Device!Accepts, Accepted
  <2> QED BY <2>4 DEF Device!DevNext
<1>6. CASE ServeWrite
  <2>1. PICK d : d = [disk EXCEPT ![c.a] = [i \in 1..BLOCK_LEN |->
                                              IF i <= Len(c.x) THEN c.x[i] ELSE @[i]]]
    OBVIOUS
  <2>2. c.op = "wr" /\ c.a \in Blocks /\ Answer(Reply(c, d), d)
    BY <1>2, <1>6, <2>1, ServeFacts
  <2>3. d \in Images
    BY <1>3, <2>1, <2>2, WriteImage
  <2>4. Reply(c, d) # AckFail
    BY <2>2, <2>3, OkayIsNotFail DEF Accepted
  <2>5. done' = TRUE /\ disk' = d /\ call' = call /\ buf' = buf
    BY <2>2, <2>4 DEF Answer
  <2>6. d = [disk EXCEPT ![c.a] = Device!Overwrite(@, c.x)]
    BY <2>1 DEF Device!Overwrite
  <2>7. Device!DevPerform
    BY <1>3, <2>2, <2>5, <2>6 DEF Device!DevPerform, Device!Accepts
  <2> QED BY <2>7 DEF Device!DevNext
<1> QED BY <1>4, <1>5, <1>6

\* The call returns with the data that the disk holds; a call that was refused leaves
\* the buffer alone.
LEMMA ReturnsRight ==
  ASSUME IInv, ReturnOk \/ GiveUp
  PROVE  Device!DevReturn
<1>1. Answered /\ call' = <<>> /\ UNCHANGED <<disk, done>>
  BY DEF ReturnOk, GiveUp
<1>2. PICK c \in Calls : /\ call = <<c>> /\ Answering(c) /\ got = Reply(c, disk)
                         /\ Acked(got) <=> Accepted(c)
  BY <1>1, AllRead
<1>3. call # <<>> /\ call[1] = c /\ disk \in Images /\ (done <=> Accepted(c))
  BY <1>2 DEF Answering, IInv, Types
<1>4. c.op \in {"conf", "wr", "rd"}
  BY CallFacts
<1>5. CASE Accepted(c)
  <2>1. ReturnOk
    BY <1>2, <1>5 DEF GiveUp
  <2>2. buf' = IF c.op = "wr" THEN buf ELSE DataGeth(SubSeq(got, 4, 3 + 2 * DataLen(c)))
    BY <1>3, <2>1 DEF ReturnOk
  <2>3. c.op # "wr" => buf' = ReplyData(c, disk)
    BY <1>2, <1>3, <1>5, <2>2, ReplyLine
  <2>4. /\ c.op = "rd" => buf' = disk[c.a]
        /\ c.op = "conf" => buf' = ConfBytes
        /\ c.op = "wr" => buf' = buf
    BY <2>2, <2>3 DEF ReplyData
  <2>5. done
    BY <1>3, <1>5
  <2> QED BY <1>1, <1>3, <1>4, <2>4, <2>5 DEF Device!DevReturn
<1>6. CASE ~Accepted(c)
  <2>1. c.op # "conf" /\ ~done /\ ~Device!Accepts(c)
    BY <1>3, <1>6 DEF Accepted, Device!Accepts
  <2>2. buf' = buf
    BY <1>2, <1>6 DEF ReturnOk, GiveUp
  <2> QED BY <1>1, <1>3, <2>1, <2>2 DEF Device!DevReturn
<1> QED BY <1>5, <1>6

\* Every step of the link is a step of the block device or changes nothing of it.
LEMMA DeviceStep ==
  IInv /\ [Next]_vars => [Device!DevNext]_(Device!devVars)
<1> SUFFICES ASSUME IInv, [Next]_vars PROVE [Device!DevNext]_(Device!devVars)
  OBVIOUS
<1>1. CASE \E c \in Calls : Invoke(c)
  <2>1. PICK c \in Calls : Invoke(c)
    BY <1>1
  <2>2. Device!DevInvoke
    BY <2>1 DEF Invoke, Device!DevInvoke
  <2> QED BY <2>2 DEF Device!DevNext
<1>2. CASE ReturnOk \/ GiveUp
  BY <1>2, ReturnsRight DEF Device!DevNext
<1>3. CASE ServeConf \/ ServeRefuse \/ ServeWrite \/ ServeRead
  BY <1>3, PerformStep
<1>4. CASE Put \/ Get \/ Retry \/ ReadChar \/ ServeSeekError \/ Deliver \/ Spin \/ UNCHANGED vars
  BY <1>4 DEF Put, Get, Retry, ReadChar, ServeSeekError, Deliver, Spin, vars, Device!devVars
<1> QED BY <1>1, <1>2, <1>3, <1>4 DEF Next, Driver, Server

\* The link with its conversions, FIFOs and repetitions implements a disk that carries out
\* each call exactly once before it returns, or not at all when the address is invalid.
THEOREM RefinementCorrect == Spec => ImplementsDevice
<1>1. Init => Device!DevInit
  BY DEF Init, Device!DevInit
<1>2. IInv /\ [Next]_vars => [Device!DevNext]_(Device!devVars)
  BY DeviceStep
<1> QED BY <1>1, <1>2, Invariance, PTL DEF Spec, ImplementsDevice, Device!DevSpec
=============================================================================
