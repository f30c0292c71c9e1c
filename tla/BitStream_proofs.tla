-------------------------- MODULE BitStream_proofs --------------------------
(***************************************************************************)
(* Proofs about BitStream: what a receiver makes of a stream of which one  *)
(* coefficient has changed, for every message, capacity and way to hide    *)
(* bits in coefficients.                                                   *)
(***************************************************************************)
EXTENDS BitStream, WellFoundedInduction, TLAPS

-----------------------------------------------------------------------------
(* Induction and recursion over an initial segment of the naturals, as     *)
(* facts about sets and functions: the theorems of the library take an     *)
(* operator as parameter.                                                  *)

\* A set that contains 0, and with each number the next, contains them all.
LEMMA SegmentInduction ==
    ASSUME NEW n \in Nat, NEW T,
           0 \in T,
           \A i \in 0 .. n - 1 : i \in T => i + 1 \in T
    PROVE  \A i \in 0 .. n : i \in T
<1> DEFINE Rest == {i \in 0 .. n : i \notin T}
           Less == {s \in Nat \X Nat : s[1] < s[2]}
<1> SUFFICES ASSUME Rest # {} PROVE FALSE
    OBVIOUS
<1>1. IsWellFoundedOn(Less, Nat)
    BY NatLessThanWellFounded, Zenon DEF OpToRel
<1>2. Rest \subseteq Nat
    OBVIOUS
<1> HIDE DEF Rest, Less
<1>3. PICK x \in Rest : \A y \in Rest : ~ (<<y, x>> \in Less)
    BY <1>1, <1>2, WFMin
<1>4. x \in 0 .. n /\ x \notin T /\ x # 0
    BY DEF Rest
<1>5. x - 1 \in 0 .. n - 1 /\ x - 1 \in Nat /\ x \in Nat
    BY <1>4
<1>6. x - 1 \notin T
    BY <1>4, <1>5
<1>7. x - 1 \in Rest
    BY <1>5, <1>6 DEF Rest
<1>8. <<x - 1, x>> \in Less
    BY <1>5 DEF Less
<1> QED
    BY <1>3, <1>7, <1>8

\* Function g is computed by a recursion over 0 .. n, each value from the one
\* before.
IsRecursion(g, n, Codomain, first, step) ==
    /\ g \in [0 .. n -> Codomain]
    /\ g[0] = first
    /\ \A i \in 1 .. n : g[i] = step[i][g[i - 1]]

\* There is such a function.
LEMMA SegmentRecursion ==
    ASSUME NEW n \in Nat, NEW Codomain, NEW first \in Codomain,
           NEW step \in [1 .. n -> [Codomain -> Codomain]]
    PROVE  \E g : IsRecursion(g, n, Codomain, first, step)
<1> DEFINE Solves(g, l) == /\ g[0] = first
                           /\ \A i \in 1 .. l : g[i] = step[i][g[i - 1]]
           T == {l \in 0 .. n : \E g \in [0 .. l -> Codomain] : Solves(g, l)}
<1>1. 0 \in T
  <2> DEFINE g == [i \in 0 .. 0 |-> first]
  <2>1. g \in [0 .. 0 -> Codomain] /\ Solves(g, 0)
      OBVIOUS
  <2> HIDE DEF g, Solves
  <2> QED
      BY <2>1
<1>2. ASSUME NEW l \in 0 .. n - 1, l \in T PROVE l + 1 \in T
  <2>1. PICK g \in [0 .. l -> Codomain] : Solves(g, l)
      BY <1>2
  <2> DEFINE h == [i \in 0 .. l + 1 |->
                      IF i <= l THEN g[i] ELSE step[l + 1][g[l]]]
  <2>2. l + 1 \in 1 .. n /\ g[l] \in Codomain
      OBVIOUS
  <2>3. step[l + 1][g[l]] \in Codomain
      BY <2>2
  <2>4. h \in [0 .. l + 1 -> Codomain]
      BY <2>3
  <2>5. h[0] = first
      BY <2>1
  <2>6. ASSUME NEW i \in 1 .. l + 1 PROVE h[i] = step[i][h[i - 1]]
    <3>1. CASE i <= l
      <4>1. i \in 1 .. l /\ h[i] = g[i] /\ h[i - 1] = g[i - 1]
          BY <3>1
      <4> QED
          BY <2>1, <4>1
    <3>2. CASE i = l + 1
      <4>1. h[i - 1] = g[l] /\ h[i] = step[l + 1][g[l]]
          BY <3>2
      <4> QED
          BY <3>2, <4>1
    <3> QED
        BY <3>1, <3>2
  <2> HIDE DEF h
  <2>7. Solves(h, l + 1)
      BY <2>5, <2>6
  <2>8. \E e \in [0 .. l + 1 -> Codomain] : Solves(e, l + 1)
      BY <2>4, <2>7
  <2>9. l + 1 \in 0 .. n
      BY <2>2
  <2> HIDE DEF Solves
  <2> QED
      BY <2>8, <2>9
<1> HIDE DEF T
<1>3. n \in T
  <2>1. \A i \in 0 .. n - 1 : i \in T => i + 1 \in T
      BY <1>2
  <2>2. \A i \in 0 .. n : i \in T
      BY <1>1, <2>1, SegmentInduction, Zenon
  <2> QED
      BY <2>2
<1>4. PICK g \in [0 .. n -> Codomain] : Solves(g, n)
    BY <1>3 DEF T
<1>5. IsRecursion(g, n, Codomain, first, step)
    BY <1>4 DEF IsRecursion
<1> QED
    BY <1>5, Zenon

-----------------------------------------------------------------------------
(* Bytes and their bits.                                                   *)

\* A power of two is positive, and the next is its double.
LEMMA Powers ==
    ASSUME NEW i \in 0 .. 7
    PROVE  2^i \in 1 .. 128 /\ 2^(i + 1) = 2 * 2^i
<1>1. CASE i = 0 BY <1>1
<1>2. CASE i = 1 BY <1>2
<1>3. CASE i = 2 BY <1>3
<1>4. CASE i = 3 BY <1>4
<1>5. CASE i = 4 BY <1>5
<1>6. CASE i = 5 BY <1>6
<1>7. CASE i = 6 BY <1>7
<1>8. CASE i = 7 BY <1>8
<1>9. \/ i = 0 \/ i = 1 \/ i = 2 \/ i = 3 \/ i = 4 \/ i = 5 \/ i = 6 \/ i = 7
    OBVIOUS
<1> QED
    BY <1>1, <1>2, <1>3, <1>4, <1>5, <1>6, <1>7, <1>8, <1>9, Zenon

\* The lower bits of a number, one by one.
LEMMA BitsAre ==
    ASSUME NEW x \in Int
    PROVE  /\ Bit(x, 0) = x % 2
           /\ Bit(x, 1) = (x \div 2) % 2
           /\ Bit(x, 2) = (x \div 4) % 2
           /\ Bit(x, 3) = (x \div 8) % 2
           /\ Bit(x, 4) = (x \div 16) % 2
           /\ Bit(x, 5) = (x \div 32) % 2
           /\ Bit(x, 6) = (x \div 64) % 2
           /\ Bit(x, 7) = (x \div 128) % 2
    BY DEF Bit

\* A bit is 0 or 1.
LEMMA BitType ==
    ASSUME NEW x \in Int, NEW i \in 0 .. 7
    PROVE  Bit(x, i) \in 0 .. 1
<1>1. 2^i \in 1 .. 128
    BY Powers
<1>2. x \div 2^i \in Int
    BY <1>1
<1> QED
    BY <1>2 DEF Bit

\* A byte is the sum of its bits.
LEMMA ByteIsSum ==
    ASSUME NEW x \in Byte
    PROVE  x = Bit(x, 0) + 2 * Bit(x, 1) + 4 * Bit(x, 2) + 8 * Bit(x, 3)
               + 16 * Bit(x, 4) + 32 * Bit(x, 5) + 64 * Bit(x, 6) + 128 * Bit(x, 7)
<1>1. x \in Int /\ 0 <= x /\ x < 256
    BY DEF Byte
<1> DEFINE q1 == x \div 2
           q2 == x \div 4
           q3 == x \div 8
           q4 == x \div 16
           q5 == x \div 32
           q6 == x \div 64
           q7 == x \div 128
<1>2. /\ q1 \in Int /\ q2 \in Int /\ q3 \in Int /\ q4 \in Int /\ q5 \in Int
      /\ q6 \in Int /\ q7 \in Int
    BY <1>1
<1>3. /\ x = (x % 2) + 2 * q1
      /\ q1 = (q1 % 2) + 2 * q2
      /\ q2 = (q2 % 2) + 2 * q3
      /\ q3 = (q3 % 2) + 2 * q4
    BY <1>1
<1>4. /\ q4 = (q4 % 2) + 2 * q5
      /\ q5 = (q5 % 2) + 2 * q6
      /\ q6 = (q6 % 2) + 2 * q7
      /\ q7 = q7 % 2
    BY <1>1
<1>5. /\ Bit(x, 0) = x % 2 /\ Bit(x, 1) = q1 % 2 /\ Bit(x, 2) = q2 % 2
      /\ Bit(x, 3) = q3 % 2 /\ Bit(x, 4) = q4 % 2 /\ Bit(x, 5) = q5 % 2
      /\ Bit(x, 6) = q6 % 2 /\ Bit(x, 7) = q7 % 2
    BY <1>1, BitsAre
<1> HIDE DEF q1, q2, q3, q4, q5, q6, q7
<1> QED
    BY <1>1, <1>2, <1>3, <1>4, <1>5

\* Bits of a sum of bits.
LEMMA BitsOfSum ==
    ASSUME NEW b0 \in 0 .. 1, NEW b1 \in 0 .. 1, NEW b2 \in 0 .. 1, NEW b3 \in 0 .. 1,
           NEW b4 \in 0 .. 1, NEW b5 \in 0 .. 1, NEW b6 \in 0 .. 1, NEW b7 \in 0 .. 1,
           NEW x,
           x = b0 + 2 * b1 + 4 * b2 + 8 * b3 + 16 * b4 + 32 * b5 + 64 * b6 + 128 * b7
    PROVE  /\ x \in Byte
           /\ Bit(x, 0) = b0 /\ Bit(x, 1) = b1 /\ Bit(x, 2) = b2 /\ Bit(x, 3) = b3
           /\ Bit(x, 4) = b4 /\ Bit(x, 5) = b5 /\ Bit(x, 6) = b6 /\ Bit(x, 7) = b7
<1>1. x \in Int /\ x \in Byte
    BY DEF Byte
<1>2. /\ x \div 2 = b1 + 2 * b2 + 4 * b3 + 8 * b4 + 16 * b5 + 32 * b6 + 64 * b7
      /\ x \div 4 = b2 + 2 * b3 + 4 * b4 + 8 * b5 + 16 * b6 + 32 * b7
      /\ x \div 8 = b3 + 2 * b4 + 4 * b5 + 8 * b6 + 16 * b7
      /\ x \div 16 = b4 + 2 * b5 + 4 * b6 + 8 * b7
    OBVIOUS
<1>3. /\ x \div 32 = b5 + 2 * b6 + 4 * b7
      /\ x \div 64 = b6 + 2 * b7
      /\ x \div 128 = b7
    OBVIOUS
<1> DEFINE q1 == x \div 2
           q2 == x \div 4
           q3 == x \div 8
           q4 == x \div 16
           q5 == x \div 32
           q6 == x \div 64
           q7 == x \div 128
<1>4. /\ Bit(x, 0) = x % 2 /\ Bit(x, 1) = q1 % 2 /\ Bit(x, 2) = q2 % 2
      /\ Bit(x, 3) = q3 % 2 /\ Bit(x, 4) = q4 % 2 /\ Bit(x, 5) = q5 % 2
      /\ Bit(x, 6) = q6 % 2 /\ Bit(x, 7) = q7 % 2
    BY <1>1, BitsAre
<1>5. /\ q1 = b1 + 2 * b2 + 4 * b3 + 8 * b4 + 16 * b5 + 32 * b6 + 64 * b7
      /\ q2 = b2 + 2 * b3 + 4 * b4 + 8 * b5 + 16 * b6 + 32 * b7
      /\ q3 = b3 + 2 * b4 + 4 * b5 + 8 * b6 + 16 * b7
      /\ q4 = b4 + 2 * b5 + 4 * b6 + 8 * b7
    BY <1>2
<1>6. /\ q5 = b5 + 2 * b6 + 4 * b7
      /\ q6 = b6 + 2 * b7
      /\ q7 = b7
    BY <1>3
<1> HIDE DEF q1, q2, q3, q4, q5, q6, q7
<1>7. x % 2 = b0 /\ q1 % 2 = b1 /\ q2 % 2 = b2 /\ q3 % 2 = b3
    BY <1>5
<1>8. q4 % 2 = b4 /\ q5 % 2 = b5 /\ q6 % 2 = b6 /\ q7 % 2 = b7
    BY <1>5, <1>6
<1> QED
    BY <1>1, <1>4, <1>7, <1>8

\* Bytes of the same bits are the same.
LEMMA SameByte ==
    ASSUME NEW x \in Byte, NEW y \in Byte, \A i \in 0 .. 7 : Bit(x, i) = Bit(y, i)
    PROVE  x = y
<1>1. /\ Bit(x, 0) = Bit(y, 0) /\ Bit(x, 1) = Bit(y, 1) /\ Bit(x, 2) = Bit(y, 2)
      /\ Bit(x, 3) = Bit(y, 3) /\ Bit(x, 4) = Bit(y, 4) /\ Bit(x, 5) = Bit(y, 5)
      /\ Bit(x, 6) = Bit(y, 6) /\ Bit(x, 7) = Bit(y, 7)
    OBVIOUS
<1> QED
    BY <1>1, ByteIsSum, Zenon

\* There is a byte of any eight bits.
LEMMA ByteOfBits ==
    ASSUME NEW f \in [0 .. 7 -> 0 .. 1]
    PROVE  \E x \in Byte : \A i \in 0 .. 7 : Bit(x, i) = f[i]
<1> DEFINE x == f[0] + 2 * f[1] + 4 * f[2] + 8 * f[3] + 16 * f[4] + 32 * f[5]
                + 64 * f[6] + 128 * f[7]
<1>1. /\ f[0] \in 0 .. 1 /\ f[1] \in 0 .. 1 /\ f[2] \in 0 .. 1 /\ f[3] \in 0 .. 1
      /\ f[4] \in 0 .. 1 /\ f[5] \in 0 .. 1 /\ f[6] \in 0 .. 1 /\ f[7] \in 0 .. 1
    OBVIOUS
<1>2. /\ x \in Byte
      /\ Bit(x, 0) = f[0] /\ Bit(x, 1) = f[1] /\ Bit(x, 2) = f[2] /\ Bit(x, 3) = f[3]
      /\ Bit(x, 4) = f[4] /\ Bit(x, 5) = f[5] /\ Bit(x, 6) = f[6] /\ Bit(x, 7) = f[7]
    BY <1>1, BitsOfSum
<1> HIDE DEF x
<1>3. \A i \in 0 .. 7 : Bit(x, i) = f[i]
    BY <1>2
<1> QED
    BY <1>2, <1>3

\* A bit of a byte is set, the others stay as they are (jelbs_set_bit).
WithBit(x, i, v) == x + (v - Bit(x, i)) * 2^i

LEMMA SetInByte ==
    ASSUME NEW x \in Byte, NEW i \in 0 .. 7, NEW v \in 0 .. 1
    PROVE  /\ WithBit(x, i, v) \in Byte
           /\ \A j \in 0 .. 7 :
                Bit(WithBit(x, i, v), j) = IF j = i THEN v ELSE Bit(x, j)
<1> DEFINE y == WithBit(x, i, v)
           f == [j \in 0 .. 7 |-> IF j = i THEN v ELSE Bit(x, j)]
<1>1. x \in Int
    BY DEF Byte
<1>2. f \in [0 .. 7 -> 0 .. 1]
    BY <1>1, BitType
<1>3. x = Bit(x, 0) + 2 * Bit(x, 1) + 4 * Bit(x, 2) + 8 * Bit(x, 3)
          + 16 * Bit(x, 4) + 32 * Bit(x, 5) + 64 * Bit(x, 6) + 128 * Bit(x, 7)
    BY ByteIsSum
<1>4. /\ Bit(x, 0) \in 0 .. 1 /\ Bit(x, 1) \in 0 .. 1 /\ Bit(x, 2) \in 0 .. 1
      /\ Bit(x, 3) \in 0 .. 1 /\ Bit(x, 4) \in 0 .. 1 /\ Bit(x, 5) \in 0 .. 1
      /\ Bit(x, 6) \in 0 .. 1 /\ Bit(x, 7) \in 0 .. 1
    BY <1>1, BitType
<1>5. y = f[0] + 2 * f[1] + 4 * f[2] + 8 * f[3] + 16 * f[4] + 32 * f[5]
          + 64 * f[6] + 128 * f[7]
  <2>1. CASE i = 0 BY <2>1, <1>3, <1>4 DEF WithBit
  <2>2. CASE i = 1 BY <2>2, <1>3, <1>4 DEF WithBit
  <2>3. CASE i = 2 BY <2>3, <1>3, <1>4 DEF WithBit
  <2>4. CASE i = 3 BY <2>4, <1>3, <1>4 DEF WithBit
  <2>5. CASE i = 4 BY <2>5, <1>3, <1>4 DEF WithBit
  <2>6. CASE i = 5 BY <2>6, <1>3, <1>4 DEF WithBit
  <2>7. CASE i = 6 BY <2>7, <1>3, <1>4 DEF WithBit
  <2>8. CASE i = 7 BY <2>8, <1>3, <1>4 DEF WithBit
  <2> QED
      BY <2>1, <2>2, <2>3, <2>4, <2>5, <2>6, <2>7, <2>8
<1> HIDE DEF f, y
<1>6. /\ f[0] \in 0 .. 1 /\ f[1] \in 0 .. 1 /\ f[2] \in 0 .. 1 /\ f[3] \in 0 .. 1
      /\ f[4] \in 0 .. 1 /\ f[5] \in 0 .. 1 /\ f[6] \in 0 .. 1 /\ f[7] \in 0 .. 1
    BY <1>2
<1>7. /\ y \in Byte
      /\ Bit(y, 0) = f[0] /\ Bit(y, 1) = f[1] /\ Bit(y, 2) = f[2] /\ Bit(y, 3) = f[3]
      /\ Bit(y, 4) = f[4] /\ Bit(y, 5) = f[5] /\ Bit(y, 6) = f[6] /\ Bit(y, 7) = f[7]
    BY <1>5, <1>6, BitsOfSum
<1>8. \A j \in 0 .. 7 : Bit(y, j) = f[j]
    BY <1>7
<1> QED
    BY <1>7, <1>8 DEF f, y

-----------------------------------------------------------------------------
(* The bits of a jelbs.                                                    *)

\* A jelbs with room for n bytes.
Jelbs(n) == [density : Byte, msgsize : [1 .. 4 -> Byte], checksum : Byte,
             msg : [1 .. n -> Byte]]

\* The positions of its bits.
Places(n) == 0 .. StreamBits(n) - 1

\* The fields, one by one.
LEMMA Fields ==
    ASSUME NEW b, NEW k \in Int
    PROVE  /\ k < 8 => ByteOf(b, k) = b.density
           /\ k \in 8 .. 39 => ByteOf(b, k) = b.msgsize[k \div 8]
           /\ k \in 40 .. 47 => ByteOf(b, k) = b.checksum
           /\ k >= 48 => ByteOf(b, k) = b.msg[(k \div 8) - 5]
    BY DEF ByteOf

\* Its bytes are bytes, and its bits are 0 or 1.
LEMMA ByteOfType ==
    ASSUME NEW n \in Nat, NEW b \in Jelbs(n), NEW k \in Places(n)
    PROVE  /\ ByteOf(b, k) \in Byte
           /\ k % 8 \in 0 .. 7
           /\ GetBit(b, k) \in 0 .. 1
<1>1. k \in Int /\ 0 <= k /\ k < 48 + 8 * n
    BY DEF Places, StreamBits, HeaderBits
<1>2. k % 8 \in 0 .. 7
    BY <1>1
<1>3. ByteOf(b, k) \in Byte
  <2>1. CASE k < 8
      BY <1>1, <2>1, Fields DEF Jelbs
  <2>2. CASE k \in 8 .. 39
    <3>1. k \div 8 \in 1 .. 4
        BY <2>2
    <3> QED
        BY <1>1, <2>2, <3>1, Fields DEF Jelbs
  <2>3. CASE k \in 40 .. 47
      BY <1>1, <2>3, Fields DEF Jelbs
  <2>4. CASE k >= 48
    <3>1. (k \div 8) - 5 \in 1 .. n
        BY <1>1, <2>4
    <3> QED
        BY <1>1, <2>4, <3>1, Fields DEF Jelbs
  <2> QED
      BY <1>1, <2>1, <2>2, <2>3, <2>4
<1>4. ByteOf(b, k) \in Int
    BY <1>3 DEF Byte
<1> QED
    BY <1>2, <1>3, <1>4, BitType DEF GetBit

\* Setting one bit changes that bit and no other (jelbs_set_bit).
LEMMA SetBitSets ==
    ASSUME NEW n \in Nat, NEW b \in Jelbs(n), NEW k \in Places(n), NEW v \in 0 .. 1
    PROVE  /\ SetBit(b, k, v) \in Jelbs(n)
           /\ \A j \in Places(n) :
                GetBit(SetBit(b, k, v), j) = IF j = k THEN v ELSE GetBit(b, j)
<1> DEFINE new == ByteOf(b, k) + (v - GetBit(b, k)) * 2^(k % 8)
           old == ByteOf(b, k)
           place == k % 8
<1>1. k \in Int /\ 0 <= k /\ k < 48 + 8 * n
    BY DEF Places, StreamBits, HeaderBits
<1>2. old \in Byte /\ place \in 0 .. 7
    BY ByteOfType
<1>3. new = WithBit(old, place, v)
    BY DEF GetBit, WithBit
<1>4. SetBit(b, k, v) =
        CASE k < 8 -> [b EXCEPT !.density = new]
          [] k \in 8 .. 39 -> [b EXCEPT !.msgsize[k \div 8] = new]
          [] k \in 40 .. 47 -> [b EXCEPT !.checksum = new]
          [] k >= 48 -> [b EXCEPT !.msg[(k \div 8) - 5] = new]
    BY DEF SetBit
<1> HIDE DEF new, old, place
<1>5. /\ new \in Byte
      /\ \A j \in 0 .. 7 : Bit(new, j) = IF j = place THEN v ELSE Bit(old, j)
    BY <1>2, <1>3, SetInByte
<1> DEFINE c == SetBit(b, k, v)
           Done == /\ c \in Jelbs(n)
                   /\ \A j \in Places(n) :
                        ByteOf(c, j) = IF j \div 8 = k \div 8 THEN new ELSE ByteOf(b, j)
<1>6. ASSUME k < 8 PROVE Done
  <2>1. c = [b EXCEPT !.density = new]
      BY <1>1, <1>4, <1>6
  <2>2. /\ c \in Jelbs(n) /\ c.density = new /\ c.msgsize = b.msgsize
        /\ c.checksum = b.checksum /\ c.msg = b.msg
      BY <1>5, <2>1 DEF Jelbs
  <2> HIDE DEF c
  <2>3. ASSUME NEW j \in Places(n)
        PROVE  ByteOf(c, j) = IF j \div 8 = k \div 8 THEN new ELSE ByteOf(b, j)
    <3>1. j \in Int /\ 0 <= j
        BY DEF Places
    <3>2. j \div 8 = k \div 8 <=> j < 8
        BY <1>1, <1>6, <3>1
    <3>3. ByteOf(b, j) = ByteOf(c, j) \/ j < 8
        BY <2>2, <3>1, Fields
    <3>4. j < 8 => ByteOf(c, j) = new
        BY <2>2, <3>1, Fields
    <3> QED
        BY <3>2, <3>3, <3>4
  <2> QED
      BY <2>2, <2>3
<1>7. ASSUME k \in 8 .. 39 PROVE Done
  <2>0. k \div 8 \in 1 .. 4
      BY <1>7
  <2>1. c = [b EXCEPT !.msgsize[k \div 8] = new]
      BY <1>1, <1>4, <1>7
  <2>2. /\ c \in Jelbs(n) /\ c.density = b.density /\ c.checksum = b.checksum
        /\ c.msg = b.msg
        /\ c.msgsize = [b.msgsize EXCEPT ![k \div 8] = new]
      BY <1>5, <2>0, <2>1, SMTT(30) DEF Jelbs
  <2>4. \A i \in 1 .. 4 : c.msgsize[i] = IF i = k \div 8 THEN new ELSE b.msgsize[i]
      BY <2>0, <2>2 DEF Jelbs
  <2> HIDE DEF c
  <2>3. ASSUME NEW j \in Places(n)
        PROVE  ByteOf(c, j) = IF j \div 8 = k \div 8 THEN new ELSE ByteOf(b, j)
    <3>1. j \in Int /\ 0 <= j
        BY DEF Places
    <3>2. j \div 8 = k \div 8 => j \in 8 .. 39
        BY <1>1, <1>7, <3>1
    <3>3. ByteOf(b, j) = ByteOf(c, j) \/ j \in 8 .. 39
        BY <2>2, <3>1, Fields
    <3>4. j \in 8 .. 39 => /\ j \div 8 \in 1 .. 4
                           /\ ByteOf(c, j) = c.msgsize[j \div 8]
                           /\ ByteOf(b, j) = b.msgsize[j \div 8]
        BY <3>1, Fields
    <3> QED
        BY <2>4, <3>2, <3>3, <3>4
  <2> QED
      BY <2>2, <2>3
<1>8. ASSUME k \in 40 .. 47 PROVE Done
  <2>1. c = [b EXCEPT !.checksum = new]
      BY <1>1, <1>4, <1>8
  <2>2. /\ c \in Jelbs(n) /\ c.checksum = new /\ c.msgsize = b.msgsize
        /\ c.density = b.density /\ c.msg = b.msg
      BY <1>5, <2>1 DEF Jelbs
  <2> HIDE DEF c
  <2>3. ASSUME NEW j \in Places(n)
        PROVE  ByteOf(c, j) = IF j \div 8 = k \div 8 THEN new ELSE ByteOf(b, j)
    <3>1. j \in Int /\ 0 <= j
        BY DEF Places
    <3>2. j \div 8 = k \div 8 <=> j \in 40 .. 47
        BY <1>1, <1>8, <3>1
    <3>3. ByteOf(b, j) = ByteOf(c, j) \/ j \in 40 .. 47
        BY <2>2, <3>1, Fields
    <3>4. j \in 40 .. 47 => ByteOf(c, j) = new
        BY <2>2, <3>1, Fields
    <3> QED
        BY <3>2, <3>3, <3>4
  <2> QED
      BY <2>2, <2>3
<1>9. ASSUME k >= 48 PROVE Done
  <2> DEFINE at == (k \div 8) - 5
  <2>0. at \in 1 .. n /\ k \div 8 \in Int
      BY <1>1, <1>9
  <2>1. c = [b EXCEPT !.msg[(k \div 8) - 5] = new]
      BY <1>1, <1>4, <1>9
  <2> HIDE DEF at
  <2>2. /\ c \in Jelbs(n) /\ c.density = b.density /\ c.checksum = b.checksum
        /\ c.msgsize = b.msgsize
        /\ c.msg = [b.msg EXCEPT ![at] = new]
    <3>1. c = [b EXCEPT !.msg = [b.msg EXCEPT ![at] = new]]
        BY <2>1 DEF at
    <3>2. b.msg \in [1 .. n -> Byte]
        BY DEF Jelbs
    <3>3. [b.msg EXCEPT ![at] = new] \in [1 .. n -> Byte]
        BY <1>5, <2>0, <3>2
    <3> QED
        BY <3>1, <3>3 DEF Jelbs
  <2>4. \A i \in 1 .. n : c.msg[i] = IF i = at THEN new ELSE b.msg[i]
      BY <2>0, <2>2 DEF Jelbs
  <2> HIDE DEF c
  <2>3. ASSUME NEW j \in Places(n)
        PROVE  ByteOf(c, j) = IF j \div 8 = k \div 8 THEN new ELSE ByteOf(b, j)
    <3>1. j \in Int /\ 0 <= j /\ j < 48 + 8 * n
        BY DEF Places, StreamBits, HeaderBits
    <3>2. j \div 8 = k \div 8 => j >= 48
        BY <1>1, <1>9, <3>1
    <3>3. ByteOf(b, j) = ByteOf(c, j) \/ j >= 48
        BY <2>2, <3>1, Fields
    <3>4. j >= 48 => /\ (j \div 8) - 5 \in 1 .. n
                     /\ j \div 8 \in Int
        BY <3>1
    <3>5. j >= 48 => /\ ByteOf(c, j) = c.msg[(j \div 8) - 5]
                     /\ ByteOf(b, j) = b.msg[(j \div 8) - 5]
        BY <3>1, Fields
    <3>6. (j \div 8) - 5 = at <=> j \div 8 = k \div 8
        BY <1>1, <3>1 DEF at
    <3> QED
        BY <2>4, <3>2, <3>3, <3>4, <3>5, <3>6
  <2> QED
      BY <2>2, <2>3
<1> HIDE DEF Done
<1>10. Done
    BY <1>1, <1>6, <1>7, <1>8, <1>9
<1> USE DEF Done
<1> HIDE DEF c
<1>11. ASSUME NEW j \in Places(n)
      PROVE  GetBit(c, j) = IF j = k THEN v ELSE GetBit(b, j)
  <2>0. j \in Int /\ 0 <= j
      BY DEF Places
  <2>1. j % 8 \in 0 .. 7
      BY <2>0
  <2>2. GetBit(c, j) = Bit(ByteOf(c, j), j % 8)
      BY DEF GetBit
  <2>3. CASE j \div 8 = k \div 8
    <3>1. ByteOf(c, j) = new
        BY <1>10, <2>3
    <3>2. j = k <=> j % 8 = k % 8
        BY <1>1, <2>0, <2>3
    <3>3. ByteOf(b, j) = ByteOf(b, k)
      <4>1. /\ j < 8 <=> k < 8
            /\ j \in 8 .. 39 <=> k \in 8 .. 39
            /\ j \in 40 .. 47 <=> k \in 40 .. 47
            /\ j >= 48 <=> k >= 48
          BY <1>1, <2>0, <2>3
      <4> QED
          BY <1>1, <2>0, <2>3, <4>1, Fields
    <3> QED
        BY <1>5, <2>1, <2>2, <3>1, <3>2, <3>3 DEF GetBit, old, place
  <2>4. CASE j \div 8 # k \div 8
    <3>1. ByteOf(c, j) = ByteOf(b, j)
        BY <1>10, <2>4
    <3> QED
        BY <2>2, <2>4, <3>1 DEF GetBit
  <2> QED
      BY <2>3, <2>4
<1> QED
    BY <1>10, <1>11 DEF c

-----------------------------------------------------------------------------
(* Several bits at once.                                                   *)

\* A bit is shifted in.
LEMMA ShiftIn ==
    ASSUME NEW x \in Nat, NEW c \in 0 .. 1, NEW i \in 0 .. 6
    PROVE  Bit(2 * x + c, 0) = c /\ Bit(2 * x + c, i + 1) = Bit(x, i)
<1> DEFINE y == 2 * x + c
<1>1. y \in Int /\ x \in Int
    OBVIOUS
<1>2. /\ y % 2 = c
      /\ y \div 2 = x
      /\ y \div 4 = x \div 2
      /\ y \div 8 = x \div 4
      /\ y \div 16 = x \div 8
    OBVIOUS
<1>3. /\ y \div 32 = x \div 16
      /\ y \div 64 = x \div 32
      /\ y \div 128 = x \div 64
    OBVIOUS
<1> HIDE DEF y
<1>4. /\ Bit(y, 0) = c
      /\ Bit(y, 1) = Bit(x, 0) /\ Bit(y, 2) = Bit(x, 1) /\ Bit(y, 3) = Bit(x, 2)
      /\ Bit(y, 4) = Bit(x, 3) /\ Bit(y, 5) = Bit(x, 4) /\ Bit(y, 6) = Bit(x, 5)
      /\ Bit(y, 7) = Bit(x, 6)
  <2>1. /\ Bit(y, 0) = y % 2
        /\ Bit(y, 1) = (y \div 2) % 2 /\ Bit(y, 2) = (y \div 4) % 2
        /\ Bit(y, 3) = (y \div 8) % 2 /\ Bit(y, 4) = (y \div 16) % 2
        /\ Bit(y, 5) = (y \div 32) % 2 /\ Bit(y, 6) = (y \div 64) % 2
        /\ Bit(y, 7) = (y \div 128) % 2
      BY <1>1, BitsAre, ZenonT(40)
  <2>2. /\ Bit(x, 0) = x % 2
        /\ Bit(x, 1) = (x \div 2) % 2 /\ Bit(x, 2) = (x \div 4) % 2
        /\ Bit(x, 3) = (x \div 8) % 2 /\ Bit(x, 4) = (x \div 16) % 2
        /\ Bit(x, 5) = (x \div 32) % 2 /\ Bit(x, 6) = (x \div 64) % 2
      BY <1>1, BitsAre, ZenonT(40)
  <2>3. Bit(y, 0) = c /\ Bit(y, 1) = Bit(x, 0)
      BY <1>2, <2>1, <2>2
  <2>4. Bit(y, 2) = Bit(x, 1) /\ Bit(y, 3) = Bit(x, 2) /\ Bit(y, 4) = Bit(x, 3)
      BY <1>2, <2>1, <2>2
  <2>5. Bit(y, 5) = Bit(x, 4) /\ Bit(y, 6) = Bit(x, 5) /\ Bit(y, 7) = Bit(x, 6)
      BY <1>3, <2>1, <2>2
  <2> QED
      BY <2>3, <2>4, <2>5
<1>5. Bit(y, i + 1) = Bit(x, i)
  <2>1. CASE i = 0 BY <2>1, <1>4
  <2>2. CASE i = 1 BY <2>2, <1>4
  <2>3. CASE i = 2 BY <2>3, <1>4
  <2>4. CASE i = 3 BY <2>4, <1>4
  <2>5. CASE i = 4 BY <2>5, <1>4
  <2>6. CASE i = 5 BY <2>6, <1>4
  <2>7. CASE i = 6 BY <2>7, <1>4
  <2> QED
      BY <2>1, <2>2, <2>3, <2>4, <2>5, <2>6, <2>7
<1> QED
    BY <1>4, <1>5 DEF y

\* The value of bits, the highest first, has these bits.
LEMMA ValueOfBits ==
    ASSUME NEW b, NEW first \in Nat, NEW n \in 0 .. 8,
           \A j \in 0 .. n - 1 : GetBit(b, first + j) \in 0 .. 1
    PROVE  /\ ValueOf(b, first, n) \in 0 .. 2^n - 1
           /\ \A j \in 0 .. n - 1 :
                Bit(ValueOf(b, first, n), n - 1 - j) = GetBit(b, first + j)
<1> DEFINE IsTable(t) ==
             t = [k \in 0 .. n |-> IF k = 0 THEN 0
                                   ELSE 2 * t[k - 1] + GetBit(b, first + k - 1)]
           val == CHOOSE t : IsTable(t)
           step == [k \in 1 .. n |-> [x \in Nat |-> 2 * x + GetBit(b, first + k - 1)]]
<1>1. ValueOf(b, first, n) = val[n]
    BY DEF ValueOf
<1>2. ASSUME NEW k \in 1 .. n PROVE GetBit(b, first + k - 1) \in 0 .. 1
  <2>1. k - 1 \in 0 .. n - 1 /\ first + (k - 1) = first + k - 1
      OBVIOUS
  <2> QED
      BY <2>1
<1>3. step \in [1 .. n -> [Nat -> Nat]]
  <2>1. \A k \in 1 .. n : \A x \in Nat : 2 * x + GetBit(b, first + k - 1) \in Nat
      BY <1>2
  <2> QED
      BY <2>1
<1>4. \A k \in 1 .. n : \A x \in Nat : step[k][x] = 2 * x + GetBit(b, first + k - 1)
    OBVIOUS
<1> HIDE DEF step
<1>5. PICK s : IsRecursion(s, n, Nat, 0, step)
  <2>1. n \in Nat /\ 0 \in Nat
      OBVIOUS
  <2> QED
      BY <1>3, <2>1, SegmentRecursion
<1>6. /\ s \in [0 .. n -> Nat] /\ s[0] = 0
      /\ \A k \in 1 .. n : s[k] = 2 * s[k - 1] + GetBit(b, first + k - 1)
  <2>1. s \in [0 .. n -> Nat] /\ s[0] = 0 /\ \A k \in 1 .. n : s[k] = step[k][s[k - 1]]
      BY <1>5 DEF IsRecursion
  <2>2. \A k \in 1 .. n : s[k - 1] \in Nat
      BY <2>1
  <2> QED
      BY <1>4, <2>1, <2>2
<1>7. IsTable(s)
  <2>1. \A k \in 0 .. n : s[k] = IF k = 0 THEN 0
                                 ELSE 2 * s[k - 1] + GetBit(b, first + k - 1)
      BY <1>6
  <2>2. s = [k \in 0 .. n |-> s[k]]
      BY <1>6
  <2> QED
      BY <2>1, <2>2
<1>8. IsTable(val)
    BY <1>7
<1> HIDE DEF val
<1>9. \A k \in 0 .. n : val[k] = IF k = 0 THEN 0
                                 ELSE 2 * val[k - 1] + GetBit(b, first + k - 1)
    BY <1>8
<1> DEFINE T == {k \in 0 .. n : /\ val[k] \in Nat /\ val[k] < 2^k
                                /\ \A j \in 0 .. k - 1 :
                                     Bit(val[k], k - 1 - j) = GetBit(b, first + j)}
<1>10. 0 \in T
    BY <1>9
<1>11. ASSUME NEW k \in 0 .. n - 1, k \in T PROVE k + 1 \in T
  <2>1. /\ k + 1 \in 0 .. n /\ k + 1 # 0 /\ (k + 1) - 1 = k /\ k \in 0 .. 7
        /\ first + (k + 1) - 1 = first + k /\ k \in Nat
      OBVIOUS
  <2>2. val[k] \in Nat /\ val[k] < 2^k
      BY <1>11
  <2>3. GetBit(b, first + k) \in 0 .. 1
      BY <2>1
  <2>4. val[k + 1] = 2 * val[k] + GetBit(b, first + k)
      BY <1>9, <2>1
  <2>5. 2^k \in 1 .. 128 /\ 2^(k + 1) = 2 * 2^k
      BY <2>1, Powers
  <2>6. val[k + 1] \in Nat /\ val[k + 1] < 2^(k + 1)
      BY <2>2, <2>3, <2>4, <2>5
  <2>7. ASSUME NEW j \in 0 .. k
        PROVE  Bit(val[k + 1], k - j) = GetBit(b, first + j)
    <3>1. CASE j = k
      <4>1. Bit(val[k + 1], 0) = GetBit(b, first + k)
          BY <2>2, <2>3, <2>4, ShiftIn
      <4> QED
          BY <3>1, <4>1
    <3>2. CASE j # k
      <4>1. j \in 0 .. k - 1 /\ k - 1 - j \in 0 .. 6 /\ (k - 1 - j) + 1 = k - j
          BY <2>1, <3>2
      <4>2. Bit(val[k + 1], k - j) = Bit(val[k], k - 1 - j)
        <5>1. PICK i \in 0 .. 6 : i = k - 1 - j
            BY <4>1
        <5>2. Bit(2 * val[k] + GetBit(b, first + k), i + 1) = Bit(val[k], i)
            BY <2>2, <2>3, ShiftIn
        <5> QED
            BY <2>4, <4>1, <5>1, <5>2
      <4>3. Bit(val[k], k - 1 - j) = GetBit(b, first + j)
          BY <1>11, <4>1
      <4> QED
          BY <4>1, <4>2, <4>3
    <3> QED
        BY <3>1, <3>2
  <2> QED
      BY <2>1, <2>6, <2>7
<1> HIDE DEF T
<1>12. n \in Nat /\ n \in 0 .. n
    OBVIOUS
<1>13. \A k \in 0 .. n : k \in T
    BY <1>10, <1>11, <1>12, SegmentInduction
<1>14. n \in T
    BY <1>12, <1>13
<1>15. /\ val[n] \in Nat /\ val[n] < 2^n
       /\ \A j \in 0 .. n - 1 : Bit(val[n], n - 1 - j) = GetBit(b, first + j)
    BY <1>14 DEF T
<1>16. 2^n \in Nat
  <2>1. CASE n = 8
      BY <2>1
  <2>2. CASE n # 8
    <3>1. n \in 0 .. 7
        BY <2>2
    <3>2. 2^n \in 1 .. 128
        BY <3>1, Powers
    <3> QED
        BY <3>2
  <2> QED
      BY <2>1, <2>2
<1>17. val[n] \in 0 .. 2^n - 1
    BY <1>15, <1>16
<1> QED
    BY <1>1, <1>15, <1>17

\* The stream b with n of its bits, from the first on, those of x.
IsSet(c, b, m, first, n, x, width) ==
    /\ c \in Jelbs(m)
    /\ \A j \in Places(m) :
         GetBit(c, j) =
           IF j \in first .. first + n - 1 THEN Bit(x, width - 1 - (j - first))
                                           ELSE GetBit(b, j)

\* Bits set one after the other are set, and no others change.
LEMMA SetBitsSets ==
    ASSUME NEW m \in Nat, NEW b \in Jelbs(m), NEW first \in Nat,
           NEW width \in 1 .. 8, NEW n \in 0 .. width, first + n <= StreamBits(m),
           NEW x \in Int
    PROVE  IsSet(SetBits(b, first, n, x, width), b, m, first, n, x, width)
<1> DEFINE IsTable(t) ==
             t = [k \in 0 .. n |-> IF k = 0 THEN b
                                   ELSE SetBit(t[k - 1], first + k - 1, Bit(x, width - k))]
           set == CHOOSE t : IsTable(t)
           step == [k \in 1 .. n |-> [c \in Jelbs(m) |->
                       SetBit(c, first + k - 1, Bit(x, width - k))]]
<1>1. SetBits(b, first, n, x, width) = set[n]
    BY DEF SetBits
<1>2. ASSUME NEW k \in 1 .. n
      PROVE  first + k - 1 \in Places(m) /\ Bit(x, width - k) \in 0 .. 1
  <2>1. width - k \in 0 .. 7
      OBVIOUS
  <2>2. Bit(x, width - k) \in 0 .. 1
      BY <2>1, BitType
  <2>3. first + k - 1 \in Places(m)
      BY DEF Places, StreamBits, HeaderBits
  <2> QED
      BY <2>2, <2>3
<1>3. step \in [1 .. n -> [Jelbs(m) -> Jelbs(m)]]
  <2>1. \A k \in 1 .. n : \A c \in Jelbs(m) :
          SetBit(c, first + k - 1, Bit(x, width - k)) \in Jelbs(m)
      BY <1>2, SetBitSets
  <2> QED
      BY <2>1
<1>4. \A k \in 1 .. n : \A c \in Jelbs(m) :
        step[k][c] = SetBit(c, first + k - 1, Bit(x, width - k))
    OBVIOUS
<1> HIDE DEF step
<1>5. n \in Nat
    OBVIOUS
<1>6. PICK s : IsRecursion(s, n, Jelbs(m), b, step)
    BY <1>3, <1>5, SegmentRecursion
<1>7. /\ s \in [0 .. n -> Jelbs(m)] /\ s[0] = b
      /\ \A k \in 1 .. n : s[k] = SetBit(s[k - 1], first + k - 1, Bit(x, width - k))
  <2>1. s \in [0 .. n -> Jelbs(m)] /\ s[0] = b /\ \A k \in 1 .. n : s[k] = step[k][s[k - 1]]
      BY <1>6 DEF IsRecursion
  <2>2. \A k \in 1 .. n : s[k - 1] \in Jelbs(m)
      BY <2>1
  <2> QED
      BY <1>4, <2>1, <2>2
<1>8. IsTable(s)
  <2>1. \A k \in 0 .. n : s[k] = IF k = 0 THEN b
                                 ELSE SetBit(s[k - 1], first + k - 1, Bit(x, width - k))
      BY <1>7
  <2>2. s = [k \in 0 .. n |-> s[k]]
      BY <1>7
  <2> QED
      BY <2>1, <2>2
<1>9. IsTable(set)
    BY <1>8
<1> HIDE DEF set
<1>10. \A k \in 0 .. n : set[k] = IF k = 0 THEN b
                       ELSE SetBit(set[k - 1], first + k - 1, Bit(x, width - k))
    BY <1>9
<1> DEFINE Good(k) ==
             /\ set[k] \in Jelbs(m)
             /\ \A j \in Places(m) :
                  GetBit(set[k], j) =
                    IF j \in first .. first + k - 1 THEN Bit(x, width - 1 - (j - first))
                                                    ELSE GetBit(b, j)
           T == {k \in 0 .. n : Good(k)}
<1>11. 0 \in T
  <2>1. set[0] = b /\ 0 \in 0 .. n
      BY <1>10
  <2>2. first .. first + 0 - 1 = {}
      OBVIOUS
  <2> QED
      BY <2>1, <2>2
<1>12. ASSUME NEW k \in 0 .. n - 1, k \in T PROVE k + 1 \in T
  <2>1. /\ k + 1 \in 0 .. n /\ k + 1 # 0 /\ (k + 1) - 1 = k /\ k + 1 \in 1 .. n
        /\ first + (k + 1) - 1 = first + k /\ width - (k + 1) = width - 1 - k
      OBVIOUS
  <2> DEFINE at == first + k
             v == Bit(x, width - 1 - k)
  <2>2. set[k] \in Jelbs(m)
      BY <1>12
  <2>3. at \in Places(m) /\ v \in 0 .. 1
    <3>1. first + (k + 1) - 1 \in Places(m) /\ Bit(x, width - (k + 1)) \in 0 .. 1
        BY <1>2, <2>1
    <3> QED
        BY <2>1, <3>1
  <2>4. set[k + 1] = SetBit(set[k], at, v)
      BY <1>10, <2>1
  <2> HIDE DEF at, v
  <2>5. /\ set[k + 1] \in Jelbs(m)
        /\ \A j \in Places(m) : GetBit(set[k + 1], j) = IF j = at THEN v ELSE GetBit(set[k], j)
      BY <2>2, <2>3, <2>4, SetBitSets
  <2>6. ASSUME NEW j \in Places(m)
        PROVE  GetBit(set[k + 1], j) =
                 IF j \in first .. first + (k + 1) - 1 THEN Bit(x, width - 1 - (j - first))
                                                       ELSE GetBit(b, j)
    <3>0. j \in Int
        BY DEF Places
    <3>1. CASE j = at
      <4>1. j - first = k /\ j \in first .. first + (k + 1) - 1
          BY <3>1 DEF at
      <4>2. v = Bit(x, width - 1 - (j - first))
          BY <4>1 DEF v
      <4> QED
          BY <2>5, <3>1, <4>1, <4>2
    <3>2. CASE j # at
      <4>1. GetBit(set[k + 1], j) = GetBit(set[k], j)
          BY <2>5, <3>2
      <4>2. j \in first .. first + (k + 1) - 1 <=> j \in first .. first + k - 1
          BY <3>0, <3>2 DEF at
      <4>3. GetBit(set[k], j) =
              IF j \in first .. first + k - 1 THEN Bit(x, width - 1 - (j - first))
                                              ELSE GetBit(b, j)
          BY <1>12
      <4> QED
          BY <4>1, <4>2, <4>3
    <3> QED
        BY <3>1, <3>2
  <2>7. Good(k + 1)
      BY <2>5, <2>6
  <2> HIDE DEF Good
  <2> QED
      BY <2>1, <2>7
<1> HIDE DEF T
<1>13. \A k \in 0 .. n : k \in T
    BY <1>5, <1>11, <1>12, SegmentInduction
<1>14. n \in T
    BY <1>5, <1>13
<1>15. Good(n)
    BY <1>14 DEF T
<1> QED
    BY <1>1, <1>15 DEF IsSet

-----------------------------------------------------------------------------
(* Values in coefficients.                                                 *)

\* The values that a coefficient with room for w bits can hold.
Values(w) == 0 .. 2^w - 1

\* Numbers of the same w lower bits.
Congruent(x, y, w) == (x - y) % 2^w = 0

\* A number with its w lower bits changed.
LowPut(old, val, w) == old - (old % 2^w) + val

\* A number so close to the lowest that can be written.
TooLow(old, w) == old < 2^w - 1024

\* Numbers that differ by a multiple of a power of two have the same lower bits.
LEMMA SameLowBits ==
    ASSUME NEW x \in Int, NEW y \in Int, NEW w \in 1 .. 8, Congruent(x, y, w),
           NEW j \in 0 .. w - 1
    PROVE  Bit(x, j) = Bit(y, j)
<1> DEFINE d == x - y
<1>1. d \in Int
    OBVIOUS
<1>2. /\ d % 256 = 0 => d % 128 = 0
      /\ d % 128 = 0 => d % 64 = 0
      /\ d % 64 = 0 => d % 32 = 0
      /\ d % 32 = 0 => d % 16 = 0
    BY <1>1
<1>3. /\ d % 16 = 0 => d % 8 = 0
      /\ d % 8 = 0 => d % 4 = 0
      /\ d % 4 = 0 => d % 2 = 0
    BY <1>1
<1>4. /\ d % 2 = 0 => x % 2 = y % 2
      /\ d % 4 = 0 => (x \div 2) % 2 = (y \div 2) % 2
    OBVIOUS
<1>5. /\ d % 8 = 0 => (x \div 4) % 2 = (y \div 4) % 2
      /\ d % 16 = 0 => (x \div 8) % 2 = (y \div 8) % 2
    OBVIOUS
<1>6. /\ d % 32 = 0 => (x \div 16) % 2 = (y \div 16) % 2
      /\ d % 64 = 0 => (x \div 32) % 2 = (y \div 32) % 2
    OBVIOUS
<1>7. /\ d % 128 = 0 => (x \div 64) % 2 = (y \div 64) % 2
      /\ d % 256 = 0 => (x \div 128) % 2 = (y \div 128) % 2
    OBVIOUS
<1>8. d % 2^w = 0
    BY DEF Congruent
<1>9. /\ Bit(x, 0) = x % 2 /\ Bit(x, 1) = (x \div 2) % 2 /\ Bit(x, 2) = (x \div 4) % 2
      /\ Bit(x, 3) = (x \div 8) % 2 /\ Bit(x, 4) = (x \div 16) % 2
      /\ Bit(x, 5) = (x \div 32) % 2 /\ Bit(x, 6) = (x \div 64) % 2
      /\ Bit(x, 7) = (x \div 128) % 2
    BY BitsAre
<1>10. /\ Bit(y, 0) = y % 2 /\ Bit(y, 1) = (y \div 2) % 2 /\ Bit(y, 2) = (y \div 4) % 2
       /\ Bit(y, 3) = (y \div 8) % 2 /\ Bit(y, 4) = (y \div 16) % 2
       /\ Bit(y, 5) = (y \div 32) % 2 /\ Bit(y, 6) = (y \div 64) % 2
       /\ Bit(y, 7) = (y \div 128) % 2
    BY BitsAre
<1> HIDE DEF d
<1>11. /\ d % 2 = 0 => Bit(x, 0) = Bit(y, 0)
       /\ d % 4 = 0 => Bit(x, 1) = Bit(y, 1)
       /\ d % 8 = 0 => Bit(x, 2) = Bit(y, 2)
       /\ d % 16 = 0 => Bit(x, 3) = Bit(y, 3)
    BY <1>4, <1>5, <1>9, <1>10
<1>12. /\ d % 32 = 0 => Bit(x, 4) = Bit(y, 4)
       /\ d % 64 = 0 => Bit(x, 5) = Bit(y, 5)
       /\ d % 128 = 0 => Bit(x, 6) = Bit(y, 6)
       /\ d % 256 = 0 => Bit(x, 7) = Bit(y, 7)
    BY <1>6, <1>7, <1>9, <1>10
<1>13. CASE w = 1
  <2>1. d % 2 = 0 /\ j = 0 BY <1>8, <1>13
  <2> QED BY <2>1, <1>11
<1>14. CASE w = 2
  <2>1. d % 4 = 0 /\ j \in 0 .. 1 BY <1>8, <1>14
  <2> QED BY <2>1, <1>3, <1>11
<1>15. CASE w = 3
  <2>1. d % 8 = 0 /\ j \in 0 .. 2 BY <1>8, <1>15
  <2> QED BY <2>1, <1>3, <1>11
<1>16. CASE w = 4
  <2>1. d % 16 = 0 /\ j \in 0 .. 3 BY <1>8, <1>16
  <2> QED BY <2>1, <1>3, <1>11
<1>17. CASE w = 5
  <2>1. d % 32 = 0 /\ j \in 0 .. 4 BY <1>8, <1>17
  <2> QED BY <2>1, <1>2, <1>3, <1>11, <1>12
<1>18. CASE w = 6
  <2>1. d % 64 = 0 /\ j \in 0 .. 5 BY <1>8, <1>18
  <2> QED BY <2>1, <1>2, <1>3, <1>11, <1>12
<1>19. CASE w = 7
  <2>1. d % 128 = 0 /\ j \in 0 .. 6 BY <1>8, <1>19
  <2> QED BY <2>1, <1>2, <1>3, <1>11, <1>12
<1>20. CASE w = 8
  <2>1. d % 256 = 0 /\ j \in 0 .. 7 BY <1>8, <1>20
  <2> QED BY <2>1, <1>2, <1>3, <1>11, <1>12
<1> QED
    BY <1>13, <1>14, <1>15, <1>16, <1>17, <1>18, <1>19, <1>20

\* What putting bits into the low bits of a coefficient makes of it.
LEMMA LowBitsPut ==
    ASSUME NEW old \in Int, NEW w \in 1 .. 8, NEW val \in Values(w)
    PROVE  /\ LowPut(old, val, w) \in Int
           /\ Congruent(LowPut(old, val, w), val, w)
           /\ old \in Coefficient =>
                /\ LowPut(old, val, w) < 1024
                /\ LowPut(old, val, w) > -1024 \/ TooLow(old, w)
<1> DEFINE x == LowPut(old, val, w)
<1>1. CASE w = 1
  <2>1. val \in 0 .. 1 /\ x = old - (old % 2) + val BY <1>1 DEF Values, LowPut
  <2> HIDE DEF x
  <2>2. x \in Int /\ Congruent(x, val, w) BY <1>1, <2>1 DEF Congruent
  <2>3. old \in Coefficient => x < 1024 /\ (x > -1024 \/ TooLow(old, w))
      BY <1>1, <2>1 DEF TooLow, Coefficient
  <2> QED BY <2>2, <2>3 DEF x
<1>2. CASE w = 2
  <2>1. val \in 0 .. 3 /\ x = old - (old % 4) + val BY <1>2 DEF Values, LowPut
  <2> HIDE DEF x
  <2>2. x \in Int /\ Congruent(x, val, w) BY <1>2, <2>1 DEF Congruent
  <2>3. old \in Coefficient => x < 1024 /\ (x > -1024 \/ TooLow(old, w))
      BY <1>2, <2>1 DEF TooLow, Coefficient
  <2> QED BY <2>2, <2>3 DEF x
<1>3. CASE w = 3
  <2>1. val \in 0 .. 7 /\ x = old - (old % 8) + val BY <1>3 DEF Values, LowPut
  <2> HIDE DEF x
  <2>2. x \in Int /\ Congruent(x, val, w) BY <1>3, <2>1 DEF Congruent
  <2>3. old \in Coefficient => x < 1024 /\ (x > -1024 \/ TooLow(old, w))
      BY <1>3, <2>1 DEF TooLow, Coefficient
  <2> QED BY <2>2, <2>3 DEF x
<1>4. CASE w = 4
  <2>1. val \in 0 .. 15 /\ x = old - (old % 16) + val BY <1>4 DEF Values, LowPut
  <2> HIDE DEF x
  <2>2. x \in Int /\ Congruent(x, val, w) BY <1>4, <2>1 DEF Congruent
  <2>3. old \in Coefficient => x < 1024 /\ (x > -1024 \/ TooLow(old, w))
      BY <1>4, <2>1 DEF TooLow, Coefficient
  <2> QED BY <2>2, <2>3 DEF x
<1>5. CASE w = 5
  <2>1. val \in 0 .. 31 /\ x = old - (old % 32) + val BY <1>5 DEF Values, LowPut
  <2> HIDE DEF x
  <2>2. x \in Int /\ Congruent(x, val, w) BY <1>5, <2>1 DEF Congruent
  <2>3. old \in Coefficient => x < 1024 /\ (x > -1024 \/ TooLow(old, w))
      BY <1>5, <2>1 DEF TooLow, Coefficient
  <2> QED BY <2>2, <2>3 DEF x
<1>6. CASE w = 6
  <2>1. val \in 0 .. 63 /\ x = old - (old % 64) + val BY <1>6 DEF Values, LowPut
  <2> HIDE DEF x
  <2>2. x \in Int /\ Congruent(x, val, w) BY <1>6, <2>1 DEF Congruent
  <2>3. old \in Coefficient => x < 1024 /\ (x > -1024 \/ TooLow(old, w))
      BY <1>6, <2>1 DEF TooLow, Coefficient
  <2> QED BY <2>2, <2>3 DEF x
<1>7. CASE w = 7
  <2>1. val \in 0 .. 127 /\ x = old - (old % 128) + val BY <1>7 DEF Values, LowPut
  <2> HIDE DEF x
  <2>2. x \in Int /\ Congruent(x, val, w) BY <1>7, <2>1 DEF Congruent
  <2>3. old \in Coefficient => x < 1024 /\ (x > -1024 \/ TooLow(old, w))
      BY <1>7, <2>1 DEF TooLow, Coefficient
  <2> QED BY <2>2, <2>3 DEF x
<1>8. CASE w = 8
  <2>1. val \in 0 .. 255 /\ x = old - (old % 256) + val BY <1>8 DEF Values, LowPut
  <2> HIDE DEF x
  <2>2. x \in Int /\ Congruent(x, val, w) BY <1>8, <2>1 DEF Congruent
  <2>3. old \in Coefficient => x < 1024 /\ (x > -1024 \/ TooLow(old, w))
      BY <1>8, <2>1 DEF TooLow, Coefficient
  <2> QED BY <2>2, <2>3 DEF x
<1> QED
    BY <1>1, <1>2, <1>3, <1>4, <1>5, <1>6, <1>7, <1>8

\* The values of one coefficient.
LEMMA ValueRange ==
    ASSUME NEW w \in 1 .. 8, NEW val \in Values(w)
    PROVE  val \in 0 .. 255
<1>1. CASE w = 1 BY <1>1 DEF Values
<1>2. CASE w = 2 BY <1>2 DEF Values
<1>3. CASE w = 3 BY <1>3 DEF Values
<1>4. CASE w = 4 BY <1>4 DEF Values
<1>5. CASE w = 5 BY <1>5 DEF Values
<1>6. CASE w = 6 BY <1>6 DEF Values
<1>7. CASE w = 7 BY <1>7 DEF Values
<1>8. CASE w = 8 BY <1>8 DEF Values
<1> QED
    BY <1>1, <1>2, <1>3, <1>4, <1>5, <1>6, <1>7, <1>8

\* One of them is 0.
LEMMA ZeroValue ==
    ASSUME NEW w \in 1 .. 8
    PROVE  0 \in Values(w)
<1>1. CASE w = 1 BY <1>1 DEF Values
<1>2. CASE w = 2 BY <1>2 DEF Values
<1>3. CASE w = 3 BY <1>3 DEF Values
<1>4. CASE w = 4 BY <1>4 DEF Values
<1>5. CASE w = 5 BY <1>5 DEF Values
<1>6. CASE w = 6 BY <1>6 DEF Values
<1>7. CASE w = 7 BY <1>7 DEF Values
<1>8. CASE w = 8 BY <1>8 DEF Values
<1> QED
    BY <1>1, <1>2, <1>3, <1>4, <1>5, <1>6, <1>7, <1>8

\* Bits put into a coefficient are got from it (ijel_insert_bits and
\* ijel_extract_bits).
LEMMA PutGot ==
    ASSUME NEW old \in Int, NEW w \in 1 .. 8, NEW val \in Values(w)
    PROVE  /\ Put(old, val, w) \in Int
           /\ \A j \in 0 .. w - 1 : Bit(Got(Put(old, val, w)), j) = Bit(val, j)
<1>0. val \in 0 .. 255
    BY ValueRange
<1>1. val \in Int /\ val \in 0 .. 255
    BY <1>0
<1>2. CASE job.code.lsbs
  <2> DEFINE x == LowPut(old, val, w)
  <2>1. Put(old, val, w) = x /\ Got(Put(old, val, w)) = x
      BY <1>2 DEF Put, Got, LowPut
  <2>2. x \in Int /\ Congruent(x, val, w)
      BY LowBitsPut
  <2> HIDE DEF x
  <2>3. \A j \in 0 .. w - 1 : Bit(x, j) = Bit(val, j)
      BY <1>1, <2>2, SameLowBits
  <2> QED
      BY <2>1, <2>2, <2>3
<1>3. CASE ~job.code.lsbs
  <2>1. Put(old, val, w) = 2 * val - 2
      BY <1>1, <1>3 DEF Put, XFORM, FACTOR, OFFSET
  <2>2. Got(2 * val - 2) = val
      BY <1>1, <1>3 DEF Got, INVXFORM, FACTOR, OFFSET
  <2> QED
      BY <1>1, <2>1, <2>2
<1> QED
    BY <1>2, <1>3

\* A coefficient with bits in it can be written, unless it has been close to
\* the lowest that can.
LEMMA PutEncodable ==
    ASSUME NEW old \in Coefficient, NEW w \in 1 .. 8, NEW val \in Values(w),
           ~Encodable(Put(old, val, w))
    PROVE  job.code.lsbs /\ TooLow(old, w)
<1>0. val \in 0 .. 255
    BY ValueRange
<1>1. val \in Int /\ val \in 0 .. 255
    BY <1>0
<1>2. CASE job.code.lsbs
  <2> DEFINE x == LowPut(old, val, w)
  <2>1. Put(old, val, w) = x
      BY <1>2 DEF Put, LowPut
  <2>2. /\ x \in Int
        /\ x < 1024
        /\ x > -1024 \/ TooLow(old, w)
    <3>1. old \in Int /\ old \in Coefficient
        BY DEF Coefficient
    <3> QED
        BY <3>1, LowBitsPut
  <2> HIDE DEF x
  <2>3. Encodable(x) <=> -1024 < x /\ x < 1024
      BY <2>2 DEF Encodable, MAX_COEF_BITS
  <2> QED
      BY <1>2, <2>1, <2>2, <2>3
<1>3. CASE ~job.code.lsbs
  <2>1. Put(old, val, w) = 2 * val - 2
      BY <1>1, <1>3 DEF Put, XFORM, FACTOR, OFFSET
  <2>2. Encodable(2 * val - 2)
      BY <1>1 DEF Encodable, MAX_COEF_BITS
  <2> QED
      BY <2>1, <2>2
<1> QED
    BY <1>2, <1>3

-----------------------------------------------------------------------------
(* The header.                                                             *)

\* The bits of the header, one field after the other.
LEMMA HeaderBitsAre ==
    ASSUME NEW b, NEW i \in 0 .. 7
    PROVE  /\ GetBit(b, i) = Bit(b.density, i)
           /\ GetBit(b, 8 + i) = Bit(b.msgsize[1], i)
           /\ GetBit(b, 16 + i) = Bit(b.msgsize[2], i)
           /\ GetBit(b, 24 + i) = Bit(b.msgsize[3], i)
           /\ GetBit(b, 32 + i) = Bit(b.msgsize[4], i)
           /\ GetBit(b, 40 + i) = Bit(b.checksum, i)
<1>1. /\ i % 8 = i /\ (8 + i) % 8 = i /\ (16 + i) % 8 = i /\ (24 + i) % 8 = i
      /\ (32 + i) % 8 = i /\ (40 + i) % 8 = i
    OBVIOUS
<1>2. /\ (8 + i) \div 8 = 1 /\ (16 + i) \div 8 = 2 /\ (24 + i) \div 8 = 3
      /\ (32 + i) \div 8 = 4
    OBVIOUS
<1>3. /\ ByteOf(b, i) = b.density
      /\ ByteOf(b, 8 + i) = b.msgsize[1]
      /\ ByteOf(b, 16 + i) = b.msgsize[2]
  <2>1. i \in Int /\ i < 8 /\ 8 + i \in Int /\ 8 + i \in 8 .. 39
        /\ 16 + i \in Int /\ 16 + i \in 8 .. 39
      OBVIOUS
  <2> QED
      BY <1>2, <2>1, Fields
<1>4. /\ ByteOf(b, 24 + i) = b.msgsize[3]
      /\ ByteOf(b, 32 + i) = b.msgsize[4]
      /\ ByteOf(b, 40 + i) = b.checksum
  <2>1. 24 + i \in Int /\ 24 + i \in 8 .. 39 /\ 32 + i \in Int /\ 32 + i \in 8 .. 39
        /\ 40 + i \in Int /\ 40 + i \in 40 .. 47
      OBVIOUS
  <2> QED
      BY <1>2, <2>1, Fields
<1> QED
    BY <1>1, <1>3, <1>4 DEF GetBit

\* The fields of the header are bytes.
LEMMA HeaderType ==
    ASSUME NEW n \in Nat, NEW b \in Jelbs(n)
    PROVE  /\ b.density \in Byte /\ b.checksum \in Byte
           /\ b.msgsize[1] \in Byte /\ b.msgsize[2] \in Byte
           /\ b.msgsize[3] \in Byte /\ b.msgsize[4] \in Byte
           /\ b.msgsize \in [1 .. 4 -> Byte]
           /\ b.density \in Int /\ b.msgsize[1] \in Int /\ b.msgsize[2] \in Int
           /\ b.msgsize[3] \in Int /\ b.msgsize[4] \in Int
<1>1. /\ b.density \in Byte /\ b.checksum \in Byte
      /\ b.msgsize[1] \in Byte /\ b.msgsize[2] \in Byte
      /\ b.msgsize[3] \in Byte /\ b.msgsize[4] \in Byte
      /\ b.msgsize \in [1 .. 4 -> Byte]
    BY DEF Jelbs
<1>2. \A x \in Byte : x \in Int
    BY DEF Byte
<1> QED
    BY <1>1, <1>2

\* jelbs_compute_checksum: a byte, the exclusive or of the five before it.
LEMMA ChecksumIs ==
    ASSUME NEW n \in Nat, NEW b \in Jelbs(n)
    PROVE  /\ Checksum(b) \in Byte
           /\ \A i \in 0 .. 7 :
                Bit(Checksum(b), i) =
                  (Bit(b.density, i) + Bit(b.msgsize[1], i) + Bit(b.msgsize[2], i)
                   + Bit(b.msgsize[3], i) + Bit(b.msgsize[4], i)) % 2
<1> DEFINE odd(i) == (Bit(b.density, i) + Bit(b.msgsize[1], i) + Bit(b.msgsize[2], i)
                      + Bit(b.msgsize[3], i) + Bit(b.msgsize[4], i)) % 2
           f == [i \in 0 .. 7 |-> odd(i)]
<1>1. /\ b.density \in Int /\ b.msgsize[1] \in Int /\ b.msgsize[2] \in Int
      /\ b.msgsize[3] \in Int /\ b.msgsize[4] \in Int
    BY HeaderType
<1>2. ASSUME NEW i \in 0 .. 7 PROVE odd(i) \in 0 .. 1
  <2>1. /\ Bit(b.density, i) \in 0 .. 1 /\ Bit(b.msgsize[1], i) \in 0 .. 1
        /\ Bit(b.msgsize[2], i) \in 0 .. 1 /\ Bit(b.msgsize[3], i) \in 0 .. 1
        /\ Bit(b.msgsize[4], i) \in 0 .. 1
      BY <1>1, BitType
  <2> QED
      BY <2>1
<1>3. Checksum(b) = CHOOSE sum \in Byte : \A i \in 0 .. 7 : Bit(sum, i) = odd(i)
    BY DEF Checksum
<1> HIDE DEF odd
<1>4. f \in [0 .. 7 -> 0 .. 1]
    BY <1>2
<1>5. PICK x \in Byte : \A i \in 0 .. 7 : Bit(x, i) = f[i]
    BY <1>4, ByteOfBits
<1>6. \A i \in 0 .. 7 : Bit(x, i) = odd(i)
    BY <1>5
<1>7. Checksum(b) \in Byte /\ \A i \in 0 .. 7 : Bit(Checksum(b), i) = odd(i)
    BY <1>3, <1>6
<1> QED
    BY <1>7 DEF odd

\* The bits of the header in the i-th place of a byte, one of each byte.
Parity(b, i) == (GetBit(b, i) + GetBit(b, 8 + i) + GetBit(b, 16 + i)
                 + GetBit(b, 24 + i) + GetBit(b, 32 + i) + GetBit(b, 40 + i)) % 2

\* With the right checksum they are even.
LEMMA ParityIsEven ==
    ASSUME NEW n \in Nat, NEW b \in Jelbs(n), b.checksum = Checksum(b)
    PROVE  \A i \in 0 .. 7 : Parity(b, i) = 0
<1> SUFFICES ASSUME NEW i \in 0 .. 7 PROVE Parity(b, i) = 0
    OBVIOUS
<1>1. /\ b.density \in Int /\ b.msgsize[1] \in Int /\ b.msgsize[2] \in Int
      /\ b.msgsize[3] \in Int /\ b.msgsize[4] \in Int
    BY HeaderType
<1>2. /\ Bit(b.density, i) \in 0 .. 1 /\ Bit(b.msgsize[1], i) \in 0 .. 1
      /\ Bit(b.msgsize[2], i) \in 0 .. 1 /\ Bit(b.msgsize[3], i) \in 0 .. 1
      /\ Bit(b.msgsize[4], i) \in 0 .. 1
    BY <1>1, BitType
<1>3. Bit(b.checksum, i) =
        (Bit(b.density, i) + Bit(b.msgsize[1], i) + Bit(b.msgsize[2], i)
         + Bit(b.msgsize[3], i) + Bit(b.msgsize[4], i)) % 2
    BY ChecksumIs
<1>4. Parity(b, i) =
        (Bit(b.density, i) + Bit(b.msgsize[1], i) + Bit(b.msgsize[2], i)
         + Bit(b.msgsize[3], i) + Bit(b.msgsize[4], i) + Bit(b.checksum, i)) % 2
    BY HeaderBitsAre DEF Parity
<1> QED
    BY <1>2, <1>3, <1>4

\* Two headers with the right checksum that differ in no more than eight bits
\* on end are the same: of each place in a byte one bit at most differs.
LEMMA HeaderDetected ==
    ASSUME NEW n \in Nat, NEW b \in Jelbs(n), NEW m \in Nat, NEW c \in Jelbs(m),
           b.checksum = Checksum(b), c.checksum = Checksum(c),
           NEW first \in Int, NEW last \in Int, last < first + 8,
           \A k \in 0 .. 47 : k \notin first .. last => GetBit(b, k) = GetBit(c, k)
    PROVE  \A k \in 0 .. 47 : GetBit(b, k) = GetBit(c, k)
<1> SUFFICES ASSUME NEW k \in 0 .. 47 PROVE GetBit(b, k) = GetBit(c, k)
    OBVIOUS
<1>1. PICK i \in 0 .. 7 : i = k % 8
    OBVIOUS
<1>2. Parity(b, i) = 0 /\ Parity(c, i) = 0
    BY ParityIsEven
<1>3. \A j \in 0 .. 47 : GetBit(b, j) \in 0 .. 1 /\ GetBit(c, j) \in 0 .. 1
  <2>1. \A j \in 0 .. 47 : j \in Places(n) /\ j \in Places(m)
      BY DEF Places, StreamBits, HeaderBits
  <2> QED
      BY <2>1, ByteOfType
<1>4. /\ i \in 0 .. 47 /\ 8 + i \in 0 .. 47 /\ 16 + i \in 0 .. 47 /\ 24 + i \in 0 .. 47
      /\ 32 + i \in 0 .. 47 /\ 40 + i \in 0 .. 47
    OBVIOUS
<1>5. \/ k = i \/ k = 8 + i \/ k = 16 + i \/ k = 24 + i \/ k = 32 + i \/ k = 40 + i
    BY <1>1
<1>6. CASE k \notin first .. last
    BY <1>6
<1>7. CASE k \in first .. last
  <2>1. \A j \in 0 .. 47 : j \in {i, 8 + i, 16 + i, 24 + i, 32 + i, 40 + i} /\ j # k =>
           GetBit(b, j) = GetBit(c, j)
    <3> SUFFICES ASSUME NEW j \in 0 .. 47, j # k,
                        j \in {i, 8 + i, 16 + i, 24 + i, 32 + i, 40 + i}
                 PROVE  GetBit(b, j) = GetBit(c, j)
        OBVIOUS
    <3>1. j >= k + 8 \/ j <= k - 8
        BY <1>5
    <3>2. j \notin first .. last
        BY <1>7, <3>1
    <3> QED
        BY <3>2
  <2> DEFINE B(j) == GetBit(b, j)
             C(j) == GetBit(c, j)
  <2>2. /\ (B(i) + B(8 + i) + B(16 + i) + B(24 + i) + B(32 + i) + B(40 + i)) % 2 = 0
        /\ (C(i) + C(8 + i) + C(16 + i) + C(24 + i) + C(32 + i) + C(40 + i)) % 2 = 0
      BY <1>2 DEF Parity
  <2>3. /\ i # k => B(i) = C(i)
        /\ 8 + i # k => B(8 + i) = C(8 + i)
        /\ 16 + i # k => B(16 + i) = C(16 + i)
        /\ 24 + i # k => B(24 + i) = C(24 + i)
        /\ 32 + i # k => B(32 + i) = C(32 + i)
        /\ 40 + i # k => B(40 + i) = C(40 + i)
      BY <1>4, <2>1
  <2>4. /\ B(i) \in 0 .. 1 /\ B(8 + i) \in 0 .. 1 /\ B(16 + i) \in 0 .. 1
        /\ B(24 + i) \in 0 .. 1 /\ B(32 + i) \in 0 .. 1 /\ B(40 + i) \in 0 .. 1
        /\ C(i) \in 0 .. 1 /\ C(8 + i) \in 0 .. 1 /\ C(16 + i) \in 0 .. 1
        /\ C(24 + i) \in 0 .. 1 /\ C(32 + i) \in 0 .. 1 /\ C(40 + i) \in 0 .. 1
      BY <1>3, <1>4
  <2>5. B(k) = C(k)
    <3> HIDE DEF B, C
    <3>1. CASE k = i
        BY <2>2, <2>3, <2>4, <3>1
    <3>2. CASE k = 8 + i
        BY <2>2, <2>3, <2>4, <3>2
    <3>3. CASE k = 16 + i
        BY <2>2, <2>3, <2>4, <3>3
    <3>4. CASE k = 24 + i
        BY <2>2, <2>3, <2>4, <3>4
    <3>5. CASE k = 32 + i
        BY <2>2, <2>3, <2>4, <3>5
    <3>6. CASE k = 40 + i
        BY <2>2, <2>3, <2>4, <3>6
    <3> QED
        BY <1>5, <3>1, <3>2, <3>3, <3>4, <3>5, <3>6
  <2> QED
      BY <2>5
<1> QED
    BY <1>6, <1>7

\* Headers of the same bits have the same fields.
LEMMA SameHeader ==
    ASSUME NEW n \in Nat, NEW b \in Jelbs(n), NEW m \in Nat, NEW c \in Jelbs(m),
           \A k \in 0 .. 47 : GetBit(b, k) = GetBit(c, k)
    PROVE  /\ b.density = c.density
           /\ b.msgsize = c.msgsize
           /\ b.checksum = c.checksum
<1>1. ASSUME NEW i \in 0 .. 7
      PROVE  /\ GetBit(b, i) = GetBit(c, i)
             /\ GetBit(b, 8 + i) = GetBit(c, 8 + i)
             /\ GetBit(b, 16 + i) = GetBit(c, 16 + i)
             /\ GetBit(b, 24 + i) = GetBit(c, 24 + i)
             /\ GetBit(b, 32 + i) = GetBit(c, 32 + i)
             /\ GetBit(b, 40 + i) = GetBit(c, 40 + i)
    OBVIOUS
<1>2. \A i \in 0 .. 7 :
        /\ Bit(b.density, i) = Bit(c.density, i)
        /\ Bit(b.msgsize[1], i) = Bit(c.msgsize[1], i)
        /\ Bit(b.msgsize[2], i) = Bit(c.msgsize[2], i)
        /\ Bit(b.msgsize[3], i) = Bit(c.msgsize[3], i)
        /\ Bit(b.msgsize[4], i) = Bit(c.msgsize[4], i)
        /\ Bit(b.checksum, i) = Bit(c.checksum, i)
    BY <1>1, HeaderBitsAre
<1>3. /\ b.density = c.density /\ b.checksum = c.checksum
      /\ b.msgsize[1] = c.msgsize[1] /\ b.msgsize[2] = c.msgsize[2]
      /\ b.msgsize[3] = c.msgsize[3] /\ b.msgsize[4] = c.msgsize[4]
    BY <1>2, HeaderType, SameByte
<1>4. b.msgsize = c.msgsize
  <2>1. \A i \in 1 .. 4 : b.msgsize[i] = c.msgsize[i]
      BY <1>3
  <2> QED
      BY <2>1, HeaderType
<1> QED
    BY <1>3, <1>4

\* The length that was set is the length that is got.
LEMMA LengthSet ==
    ASSUME NEW n \in 0 .. 2^28 - 7, NEW b, b.msgsize = LengthBytes(n)
    PROVE  LengthBytes(n) \in [1 .. 4 -> Byte] /\ Length(b) = n
<1> DEFINE q1 == n \div 256
           q2 == n \div 65536
           q3 == n \div 16777216
<1>1. n \in Nat /\ n < 268435456
    OBVIOUS
<1>2. /\ q1 \in Nat /\ q2 \in Nat /\ q3 \in Nat /\ q3 < 16
      /\ n = (n % 256) + 256 * q1
      /\ q1 = (q1 % 256) + 256 * q2
      /\ q2 = (q2 % 256) + 256 * q3
      /\ q3 % 256 = q3
    BY <1>1
<1>3. /\ LengthBytes(n)[1] = n % 256
      /\ LengthBytes(n)[2] = q1 % 256
      /\ LengthBytes(n)[3] = q2 % 256
      /\ LengthBytes(n)[4] = q3 % 256
    BY <1>1 DEF LengthBytes
<1>4. LengthBytes(n) = [i \in 1 .. 4 |-> LengthBytes(n)[i]]
    BY DEF LengthBytes
<1> HIDE DEF q1, q2, q3
<1>5. LengthBytes(n) \in [1 .. 4 -> Byte]
  <2>1. \A i \in 1 .. 4 : LengthBytes(n)[i] \in Byte
      BY <1>1, <1>2, <1>3 DEF Byte
  <2> QED
      BY <1>4, <2>1
<1>6. Length(b) = b.msgsize[1] + 256 * b.msgsize[2] + 65536 * b.msgsize[3]
                  + 2^24 * b.msgsize[4]
    BY <1>2, <1>3 DEF Length
<1>7. Length(b) = (n % 256) + 256 * (q1 % 256) + 65536 * (q2 % 256) + 16777216 * q3
  <2>1. /\ b.msgsize[1] = n % 256 /\ b.msgsize[2] = q1 % 256
        /\ b.msgsize[3] = q2 % 256 /\ b.msgsize[4] = q3
      BY <1>2, <1>3
  <2>2. 2^24 * b.msgsize[4] = 16777216 * q3
      BY <1>2, <2>1
  <2> QED
      BY <1>6, <2>1, <2>2
<1> QED
    BY <1>1, <1>2, <1>5, <1>7

-----------------------------------------------------------------------------
(* Which bits a coefficient carries.                                       *)

JobType == job \in [code : Codes, cover : Covers, msg : Messages, cap : Caps]

\* What the assumption says of a job.
LEMMA JobFacts ==
    ASSUME JobType
    PROVE  /\ job.code.bits \in 1 .. 8
           /\ job.cover \in Coefficient /\ job.cover \in Int
           /\ job.msg \in [1 .. Len(job.msg) -> Byte]
           /\ Len(job.msg) \in 0 .. 2^28 - 7 /\ Len(job.msg) \in Nat
           /\ job.cap \in 0 .. 2^28 - 7 /\ job.cap \in Nat
           /\ Len(job.msg) <= job.cap
<1>1. /\ job.code \in Codes /\ job.cover \in Covers /\ job.msg \in Messages
      /\ job.cap \in Caps
    BY DEF JobType
<1>2. Codes \subseteq [bits : 1 .. 8, lsbs : BOOLEAN]
    BY BitStreamAssumption DEF BitStreamAssumption
<1>3. Covers \subseteq Coefficient
    BY BitStreamAssumption DEF BitStreamAssumption
<1>4. Messages \subseteq Seq(Byte)
    BY BitStreamAssumption DEF BitStreamAssumption
<1>5. Caps \subseteq 0 .. 2^28 - 7
    BY BitStreamAssumption DEF BitStreamAssumption
<1>6. \A m \in Messages, cap \in Caps : Len(m) <= cap
    BY BitStreamAssumption DEF BitStreamAssumption
<1>7. job.code.bits \in 1 .. 8
    BY <1>1, <1>2
<1>8. job.cover \in Coefficient
    BY <1>1, <1>3
<1>14. Coefficient \subseteq Int
    BY DEF Coefficient
<1>15. job.cover \in Int
    BY <1>8, <1>14
<1>9. job.msg \in Seq(Byte)
    BY <1>1, <1>4
<1>10. Len(job.msg) \in Nat /\ job.msg \in [1 .. Len(job.msg) -> Byte]
    BY <1>9
<1>11. job.cap \in 0 .. 2^28 - 7
    BY <1>1, <1>5
<1>12. Len(job.msg) <= job.cap
    BY <1>1, <1>6
<1>13. Len(job.msg) \in 0 .. 2^28 - 7 /\ job.cap \in Nat
    BY <1>10, <1>11, <1>12
<1> QED
    BY <1>7, <1>8, <1>10, <1>11, <1>12, <1>13, <1>15

\* The bits of the sender's stream, and of the receiver's.
All == StreamBits(Len(job.msg))
Room == StreamBits(job.cap)

Least(a, b) == IF a <= b THEN a ELSE b

\* Each coefficient begins where the one before it ends.
LEMMA FirstBitSteps ==
    ASSUME job.code.bits \in 1 .. 8, NEW n \in Nat \ {0}
    PROVE  /\ FirstBit(n) \in Nat
           /\ Width(n - 1) \in 1 .. 8
           /\ FirstBit(n + 1) = FirstBit(n) + Width(n - 1)
<1> DEFINE w == job.code.bits
<1>1. w \in 1 .. 8
    OBVIOUS
<1>2. /\ FirstBit(n) = IF n <= 4 THEN 2 * (n - 1) ELSE 8 + (n - 5) * w
      /\ FirstBit(n + 1) = IF n + 1 <= 4 THEN 2 * n ELSE 8 + ((n + 1) - 5) * w
      /\ Width(n - 1) = IF n - 1 < 4 THEN 2 ELSE w
    BY DEF FirstBit, Width
<1> HIDE DEF w
<1>3. Width(n - 1) \in 1 .. 8
    BY <1>1, <1>2
<1>4. CASE n <= 4
    BY <1>1, <1>2, <1>3, <1>4
<1>5. CASE n > 4
  <2> DEFINE p == (n - 5) * w
  <2>1. p \in Nat /\ ((n + 1) - 5) * w = p + w
    <3>1. CASE w = 1 BY <3>1, <1>5
    <3>2. CASE w = 2 BY <3>2, <1>5
    <3>3. CASE w = 3 BY <3>3, <1>5
    <3>4. CASE w = 4 BY <3>4, <1>5
    <3>5. CASE w = 5 BY <3>5, <1>5
    <3>6. CASE w = 6 BY <3>6, <1>5
    <3>7. CASE w = 7 BY <3>7, <1>5
    <3>8. CASE w = 8 BY <3>8, <1>5
    <3> QED
        BY <1>1, <3>1, <3>2, <3>3, <3>4, <3>5, <3>6, <3>7, <3>8
  <2>2. FirstBit(n) = 8 + p /\ FirstBit(n + 1) = 8 + ((n + 1) - 5) * w /\ Width(n - 1) = w
      BY <1>2, <1>5
  <2> HIDE DEF p
  <2> QED
      BY <1>1, <1>3, <2>1, <2>2
<1> QED
    BY <1>4, <1>5

\* Those before it come before.
LEMMA FirstBitGrows ==
    ASSUME job.code.bits \in 1 .. 8, NEW m \in Nat \ {0}, NEW n \in Nat, m < n
    PROVE  FirstBit(m + 1) <= FirstBit(n)
<1> DEFINE w == job.code.bits
<1>1. w \in 1 .. 8
    OBVIOUS
<1>2. /\ FirstBit(n) = IF n <= 4 THEN 2 * (n - 1) ELSE 8 + (n - 5) * w
      /\ FirstBit(m + 1) = IF m + 1 <= 4 THEN 2 * m ELSE 8 + ((m + 1) - 5) * w
    BY DEF FirstBit
<1> HIDE DEF w
<1>3. CASE w = 1 BY <1>2, <1>3
<1>4. CASE w = 2 BY <1>2, <1>4
<1>5. CASE w = 3 BY <1>2, <1>5
<1>6. CASE w = 4 BY <1>2, <1>6
<1>7. CASE w = 5 BY <1>2, <1>7
<1>8. CASE w = 6 BY <1>2, <1>8
<1>9. CASE w = 7 BY <1>2, <1>9
<1>10. CASE w = 8 BY <1>2, <1>10
<1> QED
    BY <1>1, <1>3, <1>4, <1>5, <1>6, <1>7, <1>8, <1>9, <1>10

\* If the message ends at the end of a coefficient, none is left half empty.
LEMMA WholeEnds ==
    ASSUME job.code.bits \in 1 .. 8, Len(job.msg) \in Nat, Whole,
           NEW n \in Nat \ {0}, FirstBit(n) < All
    PROVE  FirstBit(n) + Width(n - 1) <= All
<1> DEFINE w == job.code.bits
           a == Len(job.msg)
           all == All
<1>1. w \in 1 .. 8 /\ a \in Nat
    OBVIOUS
<1>2. /\ FirstBit(n) = IF n <= 4 THEN 2 * (n - 1) ELSE 8 + (n - 5) * w
      /\ Width(n - 1) = IF n - 1 < 4 THEN 2 ELSE w
      /\ (all - 8) % w = 0
      /\ all = 48 + 8 * a
    BY DEF FirstBit, Width, Whole, All, StreamBits, HeaderBits
<1>3. FirstBit(n) < all
    OBVIOUS
<1> HIDE DEF w, a, all
<1>4. all \in Int /\ all >= 48
    BY <1>1, <1>2
<1>5. CASE n <= 4
    BY <1>2, <1>4, <1>5 DEF all
<1>6. CASE n > 4
  <2>1. (n - 5) * w < all - 8 /\ (all - 8) % w = 0
    <3> DEFINE p == (n - 5) * w
    <3>1. p \in Int
        BY <1>1
    <3>2. FirstBit(n) = 8 + p
        BY <1>2, <1>6
    <3> HIDE DEF p
    <3>3. p < all - 8
        BY <1>3, <1>4, <3>1, <3>2
    <3> QED
        BY <1>2, <3>3 DEF p
  <2>2. (n - 5) * w + w <= all - 8
    <3>1. CASE w = 1 BY <3>1, <1>4, <2>1
    <3>2. CASE w = 2 BY <3>2, <1>4, <2>1
    <3>3. CASE w = 3 BY <3>3, <1>4, <2>1
    <3>4. CASE w = 4 BY <3>4, <1>4, <2>1
    <3>5. CASE w = 5 BY <3>5, <1>4, <2>1
    <3>6. CASE w = 6 BY <3>6, <1>4, <2>1
    <3>7. CASE w = 7 BY <3>7, <1>4, <2>1
    <3>8. CASE w = 8 BY <3>8, <1>4, <2>1
    <3> QED
        BY <1>1, <3>1, <3>2, <3>3, <3>4, <3>5, <3>6, <3>7, <3>8
  <2> DEFINE p == (n - 5) * w
  <2>3. FirstBit(n) = 8 + p /\ Width(n - 1) = w /\ p + w <= all - 8
      BY <1>2, <1>6, <2>2
  <2>4. p \in Int
      BY <1>1
  <2> HIDE DEF p
  <2>5. FirstBit(n) + Width(n - 1) <= all
      BY <1>1, <1>4, <2>3, <2>4
  <2> QED
      BY <2>5 DEF all
<1> QED
    BY <1>5, <1>6

\* The stream that is sent with density d.
Sent(d) == Stream(job.msg, d)

\* Its fields.
LEMMA SentIs ==
    ASSUME JobType, NEW d \in {1, 100}
    PROVE  /\ Sent(d) \in Jelbs(Len(job.msg))
           /\ Sent(d).density = d
           /\ Sent(d).msgsize = LengthBytes(Len(job.msg))
           /\ Sent(d).msg = job.msg
           /\ Sent(d).checksum = Checksum(Sent(d))
<1> DEFINE n == Len(job.msg)
           b == [density |-> d, msgsize |-> LengthBytes(n), checksum |-> 0, msg |-> job.msg]
           c == [b EXCEPT !.checksum = Checksum(b)]
<1>1. n \in 0 .. 2^28 - 7 /\ n \in Nat /\ job.msg \in [1 .. n -> Byte]
    BY JobFacts
<1>2. Sent(d) = c
    BY DEF Sent, Stream
<1>3. d \in Byte /\ 0 \in Byte
    BY DEF Byte
<1>4. LengthBytes(n) \in [1 .. 4 -> Byte]
  <2>1. [msgsize |-> LengthBytes(n)].msgsize = LengthBytes(n)
      OBVIOUS
  <2> QED
      BY <1>1, <2>1, LengthSet, ZenonT(40)
<1>5. b \in Jelbs(n)
    BY <1>1, <1>3, <1>4 DEF Jelbs
<1>6. Checksum(b) \in Byte
    BY <1>1, <1>5, ChecksumIs
<1>7. c.density = d /\ c.msgsize = LengthBytes(n) /\ c.msg = job.msg
    OBVIOUS
<1>8. c.checksum = Checksum(b)
    OBVIOUS
<1>9. c \in Jelbs(n)
    BY <1>5, <1>6 DEF Jelbs
<1>10. Checksum(c) = Checksum(b)
  <2>1. c.density = b.density /\ c.msgsize = b.msgsize
      OBVIOUS
  <2> HIDE DEF b, c
  <2> QED
      BY <2>1 DEF Checksum
<1> HIDE DEF n, b, c
<1> QED
    BY <1>2, <1>7, <1>8, <1>9, <1>10 DEF n

\* What the n-th coefficient carries.
Carried(n, d) ==
    IF All - FirstBit(n) < Width(n - 1) THEN 0
    ELSE ValueOf(Sent(d), FirstBit(n), Width(n - 1))

\* Bits that may be lost, with the last coefficient.
Lost(k) == ~Whole /\ k >= All - 7

\* It carries the bits of its place.
LEMMA CarriedBits ==
    ASSUME JobType, NEW d \in {1, 100}, NEW n \in Nat \ {0}, FirstBit(n) < All
    PROVE  /\ Carried(n, d) \in Values(Width(n - 1))
           /\ \A k \in FirstBit(n) .. FirstBit(n) + Width(n - 1) - 1 :
                k < All /\ ~Lost(k) =>
                  Bit(Carried(n, d), Width(n - 1) - 1 - (k - FirstBit(n))) = GetBit(Sent(d), k)
<1> DEFINE w == Width(n - 1)
           f == FirstBit(n)
           all == All
<1>1. /\ job.code.bits \in 1 .. 8 /\ Len(job.msg) \in Nat
      /\ Sent(d) \in Jelbs(Len(job.msg))
    BY JobFacts, SentIs
<1>2. w \in 1 .. 8 /\ f \in Nat /\ all \in Int /\ f < all
    BY <1>1, FirstBitSteps DEF All, StreamBits, HeaderBits
<1>3. ASSUME all - f < w
      PROVE  /\ Carried(n, d) = 0
             /\ \A k \in f .. f + w - 1 : k < all => Lost(k)
  <2>1. Carried(n, d) = 0
      BY <1>3 DEF Carried
  <2>2. ~Whole
    <3>1. Whole => f + w <= all
        BY <1>1, WholeEnds
    <3> HIDE DEF f, w, all
    <3> QED
        BY <1>2, <1>3, <3>1
  <2> HIDE DEF f, w
  <2>3. \A k \in f .. f + w - 1 : k >= all - 7
      BY <1>2, <1>3
  <2> QED
      BY <2>1, <2>2, <2>3 DEF Lost
<1>4. ASSUME all - f >= w
      PROVE  /\ Carried(n, d) \in Values(w)
             /\ \A k \in f .. f + w - 1 :
                  Bit(Carried(n, d), w - 1 - (k - f)) = GetBit(Sent(d), k)
  <2>1. Carried(n, d) = ValueOf(Sent(d), f, w)
      BY <1>2, <1>4 DEF Carried
  <2>2. ASSUME NEW j \in 0 .. w - 1 PROVE GetBit(Sent(d), f + j) \in 0 .. 1
    <3>1. f + j \in Places(Len(job.msg))
      <4> HIDE DEF f, w
      <4> QED
          BY <1>2, <1>4 DEF Places, All
    <3> QED
        BY <1>1, <3>1, ByteOfType
  <2> HIDE DEF f, w, all
  <2>3. w \in 0 .. 8
      BY <1>2
  <2>4. /\ ValueOf(Sent(d), f, w) \in 0 .. 2^w - 1
        /\ \A j \in 0 .. w - 1 :
             Bit(ValueOf(Sent(d), f, w), w - 1 - j) = GetBit(Sent(d), f + j)
      BY <1>2, <2>2, <2>3, ValueOfBits
  <2>5. ASSUME NEW k \in f .. f + w - 1
        PROVE  Bit(Carried(n, d), w - 1 - (k - f)) = GetBit(Sent(d), k)
    <3>1. k - f \in 0 .. w - 1 /\ f + (k - f) = k
        BY <1>2
    <3> QED
        BY <2>1, <2>4, <3>1
  <2> QED
      BY <2>1, <2>4, <2>5 DEF Values
<1>5. 0 \in Values(w)
    BY <1>2, ZeroValue
<1> HIDE DEF f, w, all
<1>6. \/ all - f < w \/ all - f >= w
    BY <1>2
<1>7. /\ Carried(n, d) \in Values(w)
      /\ \A k \in f .. f + w - 1 :
           k < all /\ ~Lost(k) => Bit(Carried(n, d), w - 1 - (k - f)) = GetBit(Sent(d), k)
    BY <1>3, <1>4, <1>5, <1>6
<1> QED
    BY <1>7 DEF f, w, all

-----------------------------------------------------------------------------
(* The invariant.                                                          *)

\* A coefficient as the sender writes it.
Written(n, d) == Put(job.cover, Carried(n, d), Width(n - 1))

\* The bits of the coefficient that has changed.
Hit(k) == changed # 0 /\ k \in FirstBit(changed) .. FirstBit(changed + 1) - 1

\* The bits that arrive.
Arrived(k) == k < All /\ ~Hit(k) /\ ~Lost(k)

\* No bit of the header can be lost.
Safe == Whole \/ Len(job.msg) > 0

\* The receiver has found the sender's header.
SameBits(d) == \A k \in 0 .. 47 : GetBit(bs, k) = GetBit(Sent(d), k)

\* The coefficients are those the sender has written, but for one.
KeptInv(d) ==
    /\ coefs \in Seq(Int)
    /\ changed \in 0 .. Len(coefs)
    /\ \A n \in 1 .. Len(coefs) :
         FirstBit(n) < All /\ (n # changed => coefs[n] = Written(n, d))
    /\ pc # "insert" => FirstBit(Len(coefs) + 1) >= All

\* While the sender is at work.
SendInv(d) ==
    pc \in {"insert", "way", "failed"} =>
        /\ bs = Sent(d)
        /\ header = FALSE
        /\ read = 0
        /\ pc # "way" => changed = 0
        /\ pc = "insert" => bit = Least(FirstBit(Len(coefs) + 1), All)

\* While the receiver is, and after it.
ReceiveInv(d) ==
    pc \in {"extract", "done", "refused"} =>
        /\ bs \in Jelbs(job.cap)
        /\ read \in 0 .. Len(coefs)
        /\ bit = Least(FirstBit(read + 1), Room)
        /\ \A k \in 0 .. bit - 1 : Arrived(k) => GetBit(bs, k) = GetBit(Sent(d), k)
        /\ header \in BOOLEAN
        /\ ~header => limit = Room
        /\ header => bit >= HeaderBits
        /\ header /\ Safe => SameBits(d) /\ limit = All

\* Where the three of them end.
EndInv ==
    /\ pc = "done" /\ Safe => header /\ bit >= All
    /\ pc = "refused" => ~Whole \/ HeaderHit
    /\ Writable

BitInv(d) == JobType /\ KeptInv(d) /\ SendInv(d) /\ ReceiveInv(d) /\ EndInv

BitStreamInv == \E d \in {1, 100} : BitInv(d)

-----------------------------------------------------------------------------
(* What a step leaves as it is.                                            *)

\* What depends on the job alone stays as it is.
LEMMA SameJob ==
    ASSUME job' = job
    PROVE  /\ JobType => JobType'
           /\ All' = All /\ Room' = Room /\ Whole' = Whole /\ Safe' = Safe
           /\ \A n : FirstBit(n)' = FirstBit(n)
           /\ \A n : Width(n)' = Width(n)
           /\ \A k : Lost(k)' = Lost(k)
           /\ \A d : Sent(d)' = Sent(d)
           /\ \A n, d : Written(n, d)' = Written(n, d)
<1>1. /\ JobType => JobType'
      /\ All' = All /\ Room' = Room /\ Whole' = Whole
    BY DEF JobType, All, Room, Whole
<1>2. Safe' = Safe
    BY <1>1 DEF Safe
<1>3. ASSUME NEW n PROVE FirstBit(n)' = FirstBit(n) /\ Width(n)' = Width(n)
    BY DEF FirstBit, Width
<1>4. ASSUME NEW k PROVE Lost(k)' = Lost(k)
    BY <1>1 DEF Lost
<1>5. ASSUME NEW d PROVE Sent(d)' = Sent(d)
    BY DEF Sent
<1>6. ASSUME NEW n, NEW d PROVE Written(n, d)' = Written(n, d)
  <2>1. Carried(n, d)' = Carried(n, d)
      BY <1>1, <1>3, <1>5 DEF Carried
  <2> QED
      BY <1>3, <2>1 DEF Written, Put
<1> QED
    BY <1>1, <1>2, <1>3, <1>4, <1>5, <1>6

\* Nor do the bits that arrive change with the rest.
LEMMA SameArrived ==
    ASSUME job' = job, changed' = changed
    PROVE  /\ \A k : Arrived(k)' = Arrived(k)
           /\ \A k : Hit(k)' = Hit(k)
           /\ HeaderHit' = HeaderHit
<1>1. /\ FirstBit(changed)' = FirstBit(changed)
      /\ FirstBit(changed + 1)' = FirstBit(changed + 1)
    BY DEF FirstBit
<1>2. ASSUME NEW k PROVE Hit(k)' = Hit(k)
    BY <1>1 DEF Hit
<1>3. ASSUME NEW k PROVE Arrived(k)' = Arrived(k)
    BY <1>2, SameJob DEF Arrived
<1>4. HeaderHit' = HeaderHit
    BY <1>1 DEF HeaderHit, HeaderBits
<1> QED
    BY <1>2, <1>3, <1>4

\* The numbers of bits of a stream and of a buffer.
LEMMA Ends ==
    ASSUME JobType
    PROVE  /\ All \in Nat /\ All >= 48 /\ All = 48 + 8 * Len(job.msg)
           /\ Room \in Nat /\ All <= Room
           /\ Room = StreamBits(job.cap)
<1>1. Len(job.msg) \in Nat /\ job.cap \in Nat /\ Len(job.msg) <= job.cap
    BY JobFacts
<1> QED
    BY <1>1 DEF All, Room, StreamBits, HeaderBits

\* The bits of a coefficient, as it is written.
LEMMA WrittenBits ==
    ASSUME JobType, NEW d \in {1, 100}, NEW n \in Nat \ {0}, FirstBit(n) < All
    PROVE  /\ Written(n, d) \in Int
           /\ \A k \in FirstBit(n) .. FirstBit(n) + Width(n - 1) - 1 :
                k < All /\ ~Lost(k) =>
                  Bit(Got(Written(n, d)), Width(n - 1) - 1 - (k - FirstBit(n)))
                    = GetBit(Sent(d), k)
           /\ ~Encodable(Written(n, d)) => job.code.lsbs /\ TooLow(job.cover, Width(n - 1))
<1> DEFINE w == Width(n - 1)
           f == FirstBit(n)
           val == Carried(n, d)
<1>1. /\ job.code.bits \in 1 .. 8
      /\ job.cover \in Coefficient /\ job.cover \in Int
    BY JobFacts
<1>2. w \in 1 .. 8 /\ f \in Nat
    BY <1>1, FirstBitSteps
<1>3. /\ val \in Values(w)
      /\ \A k \in f .. f + w - 1 :
           k < All /\ ~Lost(k) => Bit(val, w - 1 - (k - f)) = GetBit(Sent(d), k)
    BY CarriedBits
<1>4. Written(n, d) = Put(job.cover, val, w)
    BY DEF Written
<1> HIDE DEF w, f, val
<1>5. /\ Put(job.cover, val, w) \in Int
      /\ \A j \in 0 .. w - 1 : Bit(Got(Put(job.cover, val, w)), j) = Bit(val, j)
    BY <1>1, <1>2, <1>3, PutGot
<1>6. ~Encodable(Put(job.cover, val, w)) => job.code.lsbs /\ TooLow(job.cover, w)
    BY <1>1, <1>2, <1>3, PutEncodable
<1>7. ASSUME NEW k \in f .. f + w - 1, k < All, ~Lost(k)
      PROVE  Bit(Got(Written(n, d)), w - 1 - (k - f)) = GetBit(Sent(d), k)
  <2>1. w - 1 - (k - f) \in 0 .. w - 1
      BY <1>2
  <2>2. Bit(Got(Written(n, d)), w - 1 - (k - f)) = Bit(val, w - 1 - (k - f))
      BY <1>4, <1>5, <2>1
  <2> QED
      BY <1>3, <1>7, <2>2
<1>8. /\ Written(n, d) \in Int
      /\ ~Encodable(Written(n, d)) => job.code.lsbs /\ TooLow(job.cover, w)
    BY <1>4, <1>5, <1>6
<1> QED
    BY <1>7, <1>8 DEF w, f

-----------------------------------------------------------------------------
(* The sender keeps the invariant.                                         *)

\* A sender begins at the first bit of its stream.
LEMMA InitKeeps == Init => BitStreamInv
<1> SUFFICES ASSUME Init PROVE BitStreamInv
    OBVIOUS
<1>1. PICK d \in {1, 100} : bs = Sent(d)
    BY DEF Init, Sent
<1>2. JobType
    BY DEF Init, JobType
<1>3. /\ pc = "insert" /\ coefs = <<>> /\ bit = 0 /\ read = 0
      /\ header = FALSE /\ changed = 0
    BY DEF Init
<1>4. FirstBit(1) = 0 /\ Len(coefs) = 0 /\ All \in Nat /\ coefs \in Seq(Int)
    BY <1>2, <1>3, Ends DEF FirstBit
<1>5. KeptInv(d)
    BY <1>3, <1>4 DEF KeptInv
<1>6. SendInv(d)
  <2>1. Least(FirstBit(Len(coefs) + 1), All) = 0
      BY <1>4 DEF Least
  <2> QED
      BY <1>1, <1>3, <2>1 DEF SendInv
<1>7. ReceiveInv(d) /\ EndInv
    BY <1>3 DEF ReceiveInv, EndInv, Writable
<1> QED
    BY <1>2, <1>5, <1>6, <1>7 DEF BitStreamInv, BitInv

\* Insert writes the next coefficient.
LEMMA InsertKeeps ==
    ASSUME NEW d \in {1, 100}, BitInv(d), Insert
    PROVE  BitInv(d)'
<1> PICK n : n = Len(coefs) + 1
    OBVIOUS
<1> DEFINE w == Width(n - 1)
           f == FirstBit(n)
           all == All
           c == Written(n, d)
<1>1. /\ JobType /\ KeptInv(d) /\ SendInv(d)
      /\ pc = "insert" /\ pc' = "insert" /\ job' = job /\ bs' = bs /\ header' = header
      /\ read' = read /\ changed' = changed
    BY DEF BitInv, Insert
<1>2. /\ coefs \in Seq(Int) /\ Len(coefs) \in Nat
      /\ changed = 0 /\ bs = Sent(d) /\ header = FALSE /\ read = 0
      /\ bit = Least(f, all)
      /\ \A m \in 1 .. Len(coefs) : FirstBit(m) < all /\ coefs[m] = Written(m, d)
    BY <1>1 DEF KeptInv, SendInv
<1>3. job.code.bits \in 1 .. 8 /\ all \in Nat
    BY <1>1, JobFacts, Ends
<1>4. n \in Nat \ {0} /\ n - 1 = Len(coefs)
    BY <1>2
<1>5. w \in 1 .. 8 /\ f \in Nat /\ FirstBit(n + 1) = f + w
    BY <1>3, <1>4, FirstBitSteps
<1>6. all - bit > 0
    BY DEF Insert, All
<1>7. bit = f /\ f < all
  <2> HIDE DEF f, all
  <2> QED
      BY <1>2, <1>3, <1>5, <1>6 DEF Least
<1>8. coefs' = Append(coefs, c)
  <2>1. Width(Len(coefs)) = w
      BY <1>4
  <2>2. c = Put(job.cover, IF all - f < w THEN 0 ELSE ValueOf(bs, f, w), w)
      BY <1>2 DEF Written, Carried
  <2>3. coefs' = Append(coefs, Put(job.cover, IF all - bit < w THEN 0 ELSE ValueOf(bs, bit, w), w))
      BY <2>1 DEF Insert, All
  <2> HIDE DEF f, all, w, c
  <2> QED
      BY <1>7, <2>2, <2>3
<1>9. bit' = Least(f + w, all)
  <2>1. bit' = bit + (IF all - bit < w THEN all - bit ELSE w)
      BY <1>4 DEF Insert, All
  <2> HIDE DEF f, all, w, c
  <2> QED
      BY <1>3, <1>5, <1>7, <2>1 DEF Least
<1>10. c \in Int
    BY <1>1, <1>4, <1>7, WrittenBits
<1>11. /\ coefs' \in Seq(Int) /\ Len(coefs') = n
       /\ \A m \in 1 .. Len(coefs) : coefs'[m] = coefs[m]
       /\ coefs'[n] = c
  <2> HIDE DEF c
  <2> QED
      BY <1>2, <1>8, <1>10
<1>12. KeptInv(d)'
  <2>1. ASSUME NEW m \in 1 .. n PROVE FirstBit(m) < all /\ coefs'[m] = Written(m, d)
    <3> HIDE DEF all
    <3>1. CASE m = n
        BY <1>7, <1>11, <3>1
    <3>2. CASE m \in 1 .. Len(coefs)
        BY <1>2, <1>11, <3>2
    <3> QED
        BY <1>2, <3>1, <3>2
  <2> HIDE DEF c, w, f
  <2>2. /\ \A m \in 1 .. n : FirstBit(m)' < All' /\ coefs'[m] = Written(m, d)'
        /\ changed' \in 0 .. n
      BY <1>1, <1>2, <1>4, <2>1, SameJob
  <2> QED
      BY <1>1, <1>11, <2>2 DEF KeptInv
<1>13. SendInv(d)'
  <2>1. bit' = Least(FirstBit(Len(coefs) + 1), All)'
    <3>1. FirstBit(n + 1)' = f + w /\ All' = all
        BY <1>1, <1>5, SameJob
    <3>2. FirstBit(Len(coefs) + 1)' = FirstBit(n + 1)'
        BY <1>11
    <3>3. bit' = Least(FirstBit(n + 1)', All')
        BY <1>9, <3>1
    <3> QED
        BY <3>2, <3>3
  <2>2. bs' = Sent(d)'
      BY <1>1, <1>2, SameJob
  <2> QED
      BY <1>1, <1>2, <2>1, <2>2 DEF SendInv
<1>14. ReceiveInv(d)' /\ EndInv'
    BY <1>1 DEF ReceiveInv, EndInv, Writable
<1> QED
    BY <1>1, <1>12, <1>13, <1>14, SameJob DEF BitInv

\* When the sender ends, the coefficients hold all of its bits.
LEMMA AllSent ==
    ASSUME JobType, NEW d, KeptInv(d), SendInv(d), pc = "insert",
           bit = StreamBits(Len(job.msg))
    PROVE  FirstBit(Len(coefs) + 1) >= All
<1> DEFINE f == FirstBit(Len(coefs) + 1)
           all == All
<1>1. Len(coefs) + 1 \in Nat \ {0} /\ job.code.bits \in 1 .. 8
    BY JobFacts DEF KeptInv
<1>2. f \in Nat /\ all \in Nat
    BY <1>1, FirstBitSteps, Ends
<1>3. bit = Least(f, all) /\ bit = all
    BY DEF SendInv, All
<1> HIDE DEF f, all
<1>4. f >= all
    BY <1>2, <1>3 DEF Least
<1> QED
    BY <1>4 DEF f, all

\* Write changes nothing but where the sender is.
LEMMA WriteKeeps ==
    ASSUME NEW d \in {1, 100}, BitInv(d), Write
    PROVE  BitInv(d)'
<1>1. /\ JobType /\ KeptInv(d) /\ SendInv(d)
      /\ pc = "insert" /\ pc' = "way" /\ bit = StreamBits(Len(job.msg))
    BY DEF BitInv, Write
<1>2. /\ job' = job /\ coefs' = coefs /\ bs' = bs /\ bit' = bit /\ header' = header
      /\ read' = read /\ changed' = changed
    BY DEF Write
<1>3. FirstBit(Len(coefs) + 1) >= All
    BY <1>1, AllSent
<1>4. KeptInv(d)'
  <2>1. FirstBit(Len(coefs) + 1)' >= All'
      BY <1>2, <1>3, SameJob
  <2>2. /\ coefs \in Seq(Int) /\ changed \in 0 .. Len(coefs)
        /\ \A n \in 1 .. Len(coefs) :
             FirstBit(n)' < All' /\ (n # changed => coefs[n] = Written(n, d)')
      BY <1>1, <1>2, SameJob DEF KeptInv
  <2> QED
      BY <1>2, <2>1, <2>2 DEF KeptInv
<1>5. SendInv(d)'
    BY <1>1, <1>2, SameJob DEF SendInv
<1>6. ReceiveInv(d)' /\ EndInv'
    BY <1>1 DEF ReceiveInv, EndInv, Writable
<1> QED
    BY <1>1, <1>2, <1>4, <1>5, <1>6, SameJob DEF BitInv

\* If WriteFails, a coefficient of the image was close to the lowest.
LEMMA WriteFailsKeeps ==
    ASSUME NEW d \in {1, 100}, BitInv(d), WriteFails
    PROVE  BitInv(d)'
<1>1. /\ JobType /\ KeptInv(d) /\ SendInv(d)
      /\ pc = "insert" /\ pc' = "failed" /\ bit = StreamBits(Len(job.msg))
    BY DEF BitInv, WriteFails
<1>2. /\ job' = job /\ coefs' = coefs /\ bs' = bs /\ bit' = bit /\ header' = header
      /\ read' = read /\ changed' = changed
    BY DEF WriteFails
<1>3. FirstBit(Len(coefs) + 1) >= All
    BY <1>1, AllSent
<1>4. KeptInv(d)'
  <2>1. FirstBit(Len(coefs) + 1)' >= All'
      BY <1>2, <1>3, SameJob
  <2>2. /\ coefs \in Seq(Int) /\ changed \in 0 .. Len(coefs)
        /\ \A n \in 1 .. Len(coefs) :
             FirstBit(n)' < All' /\ (n # changed => coefs[n] = Written(n, d)')
      BY <1>1, <1>2, SameJob DEF KeptInv
  <2> QED
      BY <1>2, <2>1, <2>2 DEF KeptInv
<1>5. SendInv(d)'
    BY <1>1, <1>2, SameJob DEF SendInv
<1>6. changed = 0 /\ coefs \in Seq(Int)
    BY <1>1 DEF SendInv, KeptInv
<1>7. PICK n \in 1 .. Len(coefs) : ~Encodable(coefs[n])
    BY <1>6 DEF WriteFails
<1>8. n \in Nat \ {0} /\ FirstBit(n) < All /\ coefs[n] = Written(n, d)
    BY <1>1, <1>6, <1>7 DEF KeptInv
<1>9. job.code.lsbs /\ TooLow(job.cover, Width(n - 1))
    BY <1>1, <1>7, <1>8, WrittenBits
<1>10. Width(n - 1) \in {2, job.code.bits}
    BY <1>8 DEF Width
<1>11. Writable'
  <2>1. \E width \in {2, job'.code.bits} : job'.cover < 2^width - 1024
    <3>1. \E width \in {2, job'.code.bits} : TooLow(job'.cover, width)
        BY <1>2, <1>9, <1>10
    <3> QED
        BY <3>1 DEF TooLow
  <2>2. job'.code.lsbs
      BY <1>2, <1>9
  <2> QED
      BY <2>1, <2>2, Zenon DEF Writable
<1>12. ReceiveInv(d)' /\ EndInv'
    BY <1>1, <1>11 DEF ReceiveInv, EndInv
<1> QED
    BY <1>1, <1>2, <1>4, <1>5, <1>12, SameJob DEF BitInv

-----------------------------------------------------------------------------
(* The way keeps it.                                                       *)

\* One coefficient changes.
LEMMA ChangeKeeps ==
    ASSUME NEW d \in {1, 100}, BitInv(d), Change
    PROVE  BitInv(d)'
<1>1. /\ JobType /\ KeptInv(d) /\ SendInv(d)
      /\ pc = "way" /\ pc' = "way" /\ changed = 0
    BY DEF BitInv, Change
<1>2. /\ job' = job /\ bs' = bs /\ bit' = bit /\ header' = header /\ read' = read
    BY DEF Change
<1>3. PICK m \in DOMAIN coefs, v \in Changes :
        /\ v # coefs[m]
        /\ coefs' = [coefs EXCEPT ![m] = v]
        /\ changed' = m
    BY DEF Change
<1>4. v \in Int
  <2>1. Changes \subseteq Coefficient
      BY BitStreamAssumption DEF BitStreamAssumption
  <2>2. Coefficient \subseteq Int
      BY DEF Coefficient
  <2> QED
      BY <2>1, <2>2
<1>5. coefs \in Seq(Int) /\ Len(coefs) \in Nat /\ m \in 1 .. Len(coefs)
    BY <1>1, <1>3 DEF KeptInv
<1>6. /\ coefs' \in Seq(Int) /\ Len(coefs') = Len(coefs)
      /\ \A n \in 1 .. Len(coefs) : n # m => coefs'[n] = coefs[n]
    BY <1>3, <1>4, <1>5
<1>7. KeptInv(d)'
  <2>1. FirstBit(Len(coefs) + 1)' >= All'
      BY <1>1, <1>2, <1>6, SameJob DEF KeptInv
  <2>2. /\ changed' \in 0 .. Len(coefs')
        /\ \A n \in 1 .. Len(coefs') :
             FirstBit(n)' < All' /\ (n # changed' => coefs'[n] = Written(n, d)')
      BY <1>1, <1>2, <1>3, <1>5, <1>6, SameJob DEF KeptInv
  <2> QED
      BY <1>6, <2>1, <2>2 DEF KeptInv
<1>8. SendInv(d)'
    BY <1>1, <1>2, SameJob DEF SendInv
<1>9. ReceiveInv(d)' /\ EndInv'
    BY <1>1 DEF ReceiveInv, EndInv, Writable
<1> QED
    BY <1>1, <1>2, <1>7, <1>8, <1>9, SameJob DEF BitInv

\* UnstuffBegin begins with the first coefficient.
LEMMA UnstuffBeginKeeps ==
    ASSUME NEW d \in {1, 100}, BitInv(d), UnstuffBegin
    PROVE  BitInv(d)'
<1>1. /\ JobType /\ KeptInv(d) /\ SendInv(d)
      /\ pc = "way" /\ pc' = "extract" /\ bs' = Fresh /\ bit' = 0
      /\ limit' = StreamBits(job.cap)
    BY DEF BitInv, UnstuffBegin
<1>2. job' = job /\ coefs' = coefs /\ header' = header /\ read' = read /\ changed' = changed
    BY DEF UnstuffBegin
<1>3. KeptInv(d)'
  <2>1. FirstBit(Len(coefs) + 1)' >= All'
      BY <1>1, <1>2, SameJob DEF KeptInv
  <2>2. /\ coefs \in Seq(Int) /\ changed \in 0 .. Len(coefs)
        /\ \A n \in 1 .. Len(coefs) :
             FirstBit(n)' < All' /\ (n # changed => coefs[n] = Written(n, d)')
      BY <1>1, <1>2, SameJob DEF KeptInv
  <2> QED
      BY <1>2, <2>1, <2>2 DEF KeptInv
<1>4. job.cap \in 0 .. 2^28 - 7 /\ job.cap \in Nat /\ Room \in Nat /\ Room = StreamBits(job.cap)
    BY <1>1, JobFacts, Ends
<1>5. Fresh \in Jelbs(job.cap)
  <2>1. [msgsize |-> LengthBytes(job.cap)].msgsize = LengthBytes(job.cap)
      OBVIOUS
  <2>2. LengthBytes(job.cap) \in [1 .. 4 -> Byte]
      BY <1>4, <2>1, LengthSet
  <2>3. 0 \in Byte
      BY DEF Byte
  <2> QED
      BY <2>2, <2>3 DEF Fresh, Jelbs
<1>6. header = FALSE /\ read = 0
    BY <1>1 DEF SendInv
<1>7. ReceiveInv(d)'
  <2>1. bs' \in Jelbs(job'.cap)
      BY <1>1, <1>2, <1>5
  <2>2. read' \in 0 .. Len(coefs')
      BY <1>1, <1>2, <1>6 DEF KeptInv
  <2>3. FirstBit(1)' = 0
      BY DEF FirstBit
  <2>4. bit' = Least(FirstBit(read + 1), Room)'
    <3>1. FirstBit(read + 1)' = 0
        BY <1>2, <1>6, <2>3
    <3> QED
        BY <1>1, <1>2, <1>4, <3>1, SameJob DEF Least
  <2>5. limit' = Room' /\ header' = FALSE
      BY <1>1, <1>2, <1>4, <1>6, SameJob
  <2>6. \A k \in 0 .. bit' - 1 : FALSE
      BY <1>1
  <2> QED
      BY <2>1, <2>2, <2>4, <2>5, <2>6 DEF ReceiveInv
<1>8. SendInv(d)' /\ EndInv'
    BY <1>1 DEF SendInv, EndInv, Writable
<1> QED
    BY <1>1, <1>2, <1>3, <1>7, <1>8, SameJob DEF BitInv

-----------------------------------------------------------------------------
(* The receiver keeps it.                                                  *)

\* What is got from a coefficient is a number.
LEMMA GotType ==
    ASSUME NEW x \in Int
    PROVE  Got(x) \in Int
    BY DEF Got, INVXFORM, OFFSET, FACTOR

\* The coefficients are not the receiver's.
LEMMA KeptStays ==
    ASSUME NEW d \in {1, 100}, KeptInv(d), pc # "insert",
           job' = job, coefs' = coefs, changed' = changed
    PROVE  KeptInv(d)'
<1>1. FirstBit(Len(coefs) + 1)' >= All'
    BY SameJob DEF KeptInv
<1>2. /\ coefs \in Seq(Int) /\ changed \in 0 .. Len(coefs)
      /\ \A n \in 1 .. Len(coefs) :
           FirstBit(n)' < All' /\ (n # changed => coefs[n] = Written(n, d)')
    BY SameJob DEF KeptInv
<1> QED
    BY <1>1, <1>2 DEF KeptInv

\* Extract sets the bits of the next coefficient.
LEMMA ExtractKeeps ==
    ASSUME NEW d \in {1, 100}, BitInv(d), Extract
    PROVE  BitInv(d)'
<1> PICK n : n = read + 1
    OBVIOUS
<1> DEFINE w == Width(n - 1)
           f == FirstBit(n)
           all == All
           room == Room
           val == Got(coefs[n])
           len == Least(room - f, w)
<1>1. /\ JobType /\ KeptInv(d) /\ ReceiveInv(d)
      /\ pc = "extract" /\ pc' = "extract" /\ job' = job /\ coefs' = coefs
      /\ limit' = limit /\ header' = header /\ changed' = changed
      /\ read' = n
    BY DEF BitInv, Extract
<1>2. /\ bs \in Jelbs(job.cap)
      /\ read \in 0 .. Len(coefs)
      /\ bit = Least(f, room)
      /\ \A k \in 0 .. bit - 1 : Arrived(k) => GetBit(bs, k) = GetBit(Sent(d), k)
      /\ header \in BOOLEAN
      /\ ~header => limit = room
      /\ header => bit >= 48
      /\ header /\ Safe => SameBits(d) /\ limit = all
    BY <1>1 DEF ReceiveInv, HeaderBits
<1>3. coefs \in Seq(Int) /\ Len(coefs) \in Nat /\ read < Len(coefs)
    BY <1>1 DEF KeptInv, Extract, More
<1>4. n \in 1 .. Len(coefs) /\ n \in Nat \ {0} /\ n - 1 = read /\ coefs[n] \in Int
    BY <1>2, <1>3
<1>5. /\ job.code.bits \in 1 .. 8 /\ job.cap \in Nat
      /\ all \in Nat /\ room \in Nat /\ all <= room /\ room = StreamBits(job.cap)
    BY <1>1, JobFacts, Ends
<1>6. w \in 1 .. 8 /\ f \in Nat /\ FirstBit(n + 1) = f + w
    BY <1>4, <1>5, FirstBitSteps
<1>7. f < all /\ (n # changed => coefs[n] = Written(n, d))
    BY <1>1, <1>4 DEF KeptInv
<1>8. bit = f /\ f < room
  <2> HIDE DEF f, all, room
  <2> QED
      BY <1>2, <1>5, <1>6, <1>7 DEF Least
<1>9. len \in 0 .. w /\ f + len <= room /\ f + len = Least(f + w, room)
  <2> HIDE DEF f, w, room
  <2> QED
      BY <1>5, <1>6, <1>8 DEF Least
<1>10. bs' = SetBits(bs, f, len, val, w) /\ bit' = f + len
  <2>1. Width(read) = w
      BY <1>4
  <2>2. LET l == IF room - bit < w THEN room - bit ELSE w
        IN  bs' = SetBits(bs, bit, l, val, w) /\ bit' = bit + l
      BY <1>5, <2>1 DEF Extract
  <2>3. len = IF room - bit < w THEN room - bit ELSE w
    <3> HIDE DEF f, w, room
    <3> QED
        BY <1>5, <1>6, <1>8 DEF Least
  <2> HIDE DEF f, w, room, val, len
  <2> QED
      BY <1>8, <2>2, <2>3
<1>11. val \in Int
    BY <1>4, GotType
<1>12. /\ bs' \in Jelbs(job.cap)
       /\ \A k \in 0 .. room - 1 :
            GetBit(bs', k) = IF k \in f .. f + len - 1 THEN Bit(val, w - 1 - (k - f))
                                                      ELSE GetBit(bs, k)
  <2> HIDE DEF f, w, val, len, room
  <2>1. f + len <= StreamBits(job.cap)
      BY <1>5, <1>9
  <2>2. /\ SetBits(bs, f, len, val, w) \in Jelbs(job.cap)
        /\ \A k \in Places(job.cap) :
             GetBit(SetBits(bs, f, len, val, w), k) =
               IF k \in f .. f + len - 1 THEN Bit(val, w - 1 - (k - f))
                                         ELSE GetBit(bs, k)
    <3>1. bs \in Jelbs(job.cap)
        BY <1>2
    <3>2. f \in Nat /\ w \in 1 .. 8 /\ len \in 0 .. w /\ job.cap \in Nat
        BY <1>5, <1>6, <1>9
    <3>3. ASSUME NEW m \in Nat, f + len <= StreamBits(m), NEW b \in Jelbs(m)
          PROVE  IsSet(SetBits(b, f, len, val, w), b, m, f, len, val, w)
        BY <1>11, <3>2, <3>3, SetBitsSets
    <3>4. IsSet(SetBits(bs, f, len, val, w), bs, job.cap, f, len, val, w)
        BY <2>1, <3>1, <3>2, <3>3
    <3> QED
        BY <3>4 DEF IsSet
  <2>3. Places(job.cap) = 0 .. room - 1
      BY <1>5 DEF Places
  <2> QED
      BY <1>10, <2>2, <2>3
<1>13. ASSUME NEW k \in 0 .. bit' - 1, Arrived(k)
       PROVE  GetBit(bs', k) = GetBit(Sent(d), k)
  <2>1. k < all /\ ~Lost(k) /\ ~Hit(k)
      BY <1>13 DEF Arrived
  <2> HIDE DEF w, val, len, all, room
  <2>2. k \in 0 .. room - 1 /\ k \in 0 .. f + len - 1 /\ k \in Int
    <3> HIDE DEF f
    <3> QED
        BY <1>5, <1>6, <1>9, <1>10
  <2>3. CASE k < f
    <3> HIDE DEF f
    <3>1. k \notin f .. f + len - 1 /\ k \in 0 .. bit - 1
        BY <1>6, <1>8, <2>2, <2>3
    <3> QED
        BY <1>2, <1>12, <1>13, <2>2, <3>1
  <2>4. CASE k >= f
    <3>1. k \in f .. f + len - 1 /\ k \in f .. f + w - 1
      <4> HIDE DEF f
      <4> QED
          BY <1>6, <1>9, <2>2, <2>4
    <3>2. n # changed
        BY <1>4, <1>6, <2>1, <3>1 DEF Hit
    <3>3. val = Got(Written(n, d))
        BY <1>7, <3>2 DEF val
    <3>4. Bit(Got(Written(n, d)), w - 1 - (k - f)) = GetBit(Sent(d), k)
        BY <1>1, <1>4, <1>7, <2>1, <3>1, WrittenBits DEF w, all
    <3> HIDE DEF f
    <3> QED
        BY <1>12, <2>2, <3>1, <3>3, <3>4
  <2> HIDE DEF f
  <2> QED
      BY <1>6, <2>2, <2>3, <2>4
<1>14. header => bit' >= 48
  <2> HIDE DEF f, w, len, room
  <2> QED
      BY <1>2, <1>6, <1>8, <1>9, <1>10
<1>15. ASSUME header, Safe PROVE SameBits(d)'
  <2>1. ASSUME NEW k \in 0 .. 47 PROVE GetBit(bs', k) = GetBit(Sent(d), k)
    <3> HIDE DEF f, w, len, room
    <3>0. f >= 48
        BY <1>2, <1>8, <1>15
    <3>1. k \notin f .. f + len - 1 /\ k \in 0 .. room - 1
        BY <1>5, <1>6, <1>8, <3>0
    <3>2. GetBit(bs', k) = GetBit(bs, k)
        BY <1>12, <3>1
    <3> QED
        BY <1>2, <1>15, <3>2 DEF SameBits
  <2> QED
      BY <1>1, <2>1, SameJob DEF SameBits
<1>16. ReceiveInv(d)'
  <2>1. bs' \in Jelbs(job'.cap) /\ read' \in 0 .. Len(coefs')
      BY <1>1, <1>4, <1>12
  <2>2. bit' = Least(FirstBit(read + 1), Room)'
    <3>1. FirstBit(read + 1)' = f + w
        BY <1>1, <1>6, SameJob
    <3>2. bit' = Least(f + w, room)
        BY <1>9, <1>10
    <3> QED
        BY <1>1, <3>1, <3>2, SameJob
  <2>3. \A k \in 0 .. bit' - 1 : Arrived(k)' => GetBit(bs', k) = GetBit(Sent(d), k)'
      BY <1>1, <1>13, SameJob, SameArrived
  <2>4. /\ header' \in BOOLEAN
        /\ ~header' => limit' = Room'
        /\ header' => bit' >= HeaderBits
        /\ header' /\ Safe' => SameBits(d)' /\ limit' = All'
      BY <1>1, <1>2, <1>14, <1>15, SameJob DEF HeaderBits
  <2> QED
      BY <2>1, <2>2, <2>3, <2>4 DEF ReceiveInv
<1>17. SendInv(d)' /\ EndInv'
    BY <1>1 DEF SendInv, EndInv, Writable
<1> QED
    BY <1>1, <1>16, <1>17, KeptStays, SameJob DEF BitInv

\* A coefficient has eight bits at most, and the changed one has a place.
LEMMA HitsAre ==
    ASSUME JobType, NEW d \in {1, 100}, KeptInv(d)
    PROVE  \E first \in Int, last \in Int :
             last < first + 8 /\ \A k : Hit(k) => k \in first .. last
<1>1. job.code.bits \in 1 .. 8 /\ changed \in Nat
    BY JobFacts DEF KeptInv
<1>2. CASE changed = 0
  <2>1. \A k : ~Hit(k)
      BY <1>2 DEF Hit
  <2>2. 0 \in Int /\ 0 < 0 + 8
      OBVIOUS
  <2> QED
      BY <2>1, <2>2
<1>3. CASE changed # 0
  <2> DEFINE f == FirstBit(changed)
             g == FirstBit(changed + 1)
             w == Width(changed - 1)
  <2>1. f \in Nat /\ w \in 1 .. 8 /\ g = f + w
    <3>1. changed \in Nat \ {0}
        BY <1>1, <1>3
    <3> QED
        BY <1>1, <3>1, FirstBitSteps
  <2>2. \A k : Hit(k) => k \in f .. g - 1
      BY DEF Hit
  <2> HIDE DEF f, g, w
  <2>3. f \in Int /\ g - 1 \in Int /\ g - 1 < f + 8
      BY <2>1
  <2> QED
      BY <2>2, <2>3
<1> QED
    BY <1>2, <1>3

\* If the changed coefficient comes after the header, no bit of it is hit.
LEMMA HeaderMissed ==
    ASSUME JobType, NEW d \in {1, 100}, KeptInv(d), ~HeaderHit, NEW k \in 0 .. 47
    PROVE  ~Hit(k)
<1>1. CASE changed = 0
    BY <1>1 DEF Hit
<1>2. CASE changed # 0
  <2>1. ~(FirstBit(changed) < 48)
      BY <1>2 DEF HeaderHit, HeaderBits
  <2>2. FirstBit(changed) \in Nat
    <3>1. changed \in Nat \ {0} /\ job.code.bits \in 1 .. 8
        BY <1>2, JobFacts DEF KeptInv
    <3> QED
        BY <3>1, FirstBitSteps
  <2>3. k \notin FirstBit(changed) .. FirstBit(changed + 1) - 1
      BY <2>1, <2>2
  <2> QED
      BY <2>3 DEF Hit
<1> QED
    BY <1>1, <1>2

\* What a receiver has of the header, when it has come to its end.
LEMMA HeaderArrives ==
    ASSUME JobType, NEW d \in {1, 100}, KeptInv(d), ReceiveInv(d), pc = "extract",
           bit >= HeaderBits, Safe
    PROVE  /\ bs.checksum = Checksum(bs) => SameBits(d)
           /\ ~HeaderHit => SameBits(d)
<1>1. /\ bs \in Jelbs(job.cap) /\ job.cap \in Nat
      /\ Sent(d) \in Jelbs(Len(job.msg)) /\ Len(job.msg) \in Nat
      /\ Sent(d).checksum = Checksum(Sent(d))
    BY JobFacts, SentIs DEF ReceiveInv
<1>2. ASSUME NEW k \in 0 .. 47, ~Hit(k) PROVE GetBit(bs, k) = GetBit(Sent(d), k)
  <2>1. k < All /\ ~Lost(k)
    <3>1. All \in Nat /\ All >= 48 /\ All = 48 + 8 * Len(job.msg)
        BY Ends
    <3>2. Whole \/ k < All - 7
        BY <1>1, <3>1 DEF Safe
    <3> QED
        BY <3>1, <3>2 DEF Lost
  <2>2. bit \in Int
    <3>1. FirstBit(read + 1) \in Int /\ Room \in Int
      <4>1. read + 1 \in Nat \ {0} /\ job.code.bits \in 1 .. 8
          BY JobFacts DEF ReceiveInv, KeptInv
      <4> QED
          BY <4>1, FirstBitSteps, Ends
    <3> QED
        BY <3>1 DEF ReceiveInv, Least
  <2>3. k \in 0 .. bit - 1
      BY <2>2 DEF HeaderBits
  <2>4. Arrived(k)
      BY <1>2, <2>1 DEF Arrived
  <2> QED
      BY <2>3, <2>4 DEF ReceiveInv
<1>3. ASSUME bs.checksum = Checksum(bs) PROVE SameBits(d)
  <2>1. PICK first \in Int, last \in Int :
          last < first + 8 /\ \A k : Hit(k) => k \in first .. last
      BY HitsAre
  <2>2. \A k \in 0 .. 47 : k \notin first .. last => GetBit(bs, k) = GetBit(Sent(d), k)
      BY <1>2, <2>1
  <2>3. \A k \in 0 .. 47 : GetBit(bs, k) = GetBit(Sent(d), k)
    <3>1. ASSUME NEW m \in Nat, NEW b \in Jelbs(m), b.checksum = Checksum(b),
                 \A k \in 0 .. 47 : k \notin first .. last => GetBit(b, k) = GetBit(Sent(d), k)
          PROVE  \A k \in 0 .. 47 : GetBit(b, k) = GetBit(Sent(d), k)
        BY <1>1, <2>1, <3>1, HeaderDetected, ZenonT(40)
    <3> QED
        BY <1>1, <1>3, <2>2, <3>1
  <2> QED
      BY <2>3 DEF SameBits
<1>4. ASSUME ~HeaderHit PROVE SameBits(d)
  <2>1. \A k \in 0 .. 47 : ~Hit(k)
      BY <1>4, HeaderMissed
  <2> QED
      BY <1>2, <2>1 DEF SameBits
<1> QED
    BY <1>3, <1>4

\* A header of the same bits says the same.
LEMMA SameSays ==
    ASSUME JobType, NEW d \in {1, 100}, bs \in Jelbs(job.cap), SameBits(d)
    PROVE  /\ bs.density = d
           /\ Length(bs) = Len(job.msg)
           /\ bs.checksum = Checksum(bs)
           /\ Len(job.msg) \in Nat /\ Len(job.msg) <= job.cap /\ job.cap \in Nat
           /\ StreamBits(Length(bs)) = All
<1>1. /\ job.cap \in Nat /\ Len(job.msg) \in Nat /\ Len(job.msg) <= job.cap
      /\ Len(job.msg) \in 0 .. 2^28 - 7
      /\ Sent(d) \in Jelbs(Len(job.msg)) /\ Sent(d).density = d
      /\ Sent(d).msgsize = LengthBytes(Len(job.msg))
      /\ Sent(d).checksum = Checksum(Sent(d))
    BY JobFacts, SentIs
<1>2. /\ bs.density = Sent(d).density
      /\ bs.msgsize = Sent(d).msgsize
      /\ bs.checksum = Sent(d).checksum
  <2>1. \A k \in 0 .. 47 : GetBit(bs, k) = GetBit(Sent(d), k)
      BY DEF SameBits
  <2> QED
      BY <1>1, <2>1, SameHeader
<1>3. Checksum(bs) = Checksum(Sent(d))
    BY <1>2 DEF Checksum
<1>4. Length(bs) = Len(job.msg)
    BY <1>1, <1>2, LengthSet
<1>5. StreamBits(Length(bs)) = All
    BY <1>4 DEF All
<1> QED
    BY <1>1, <1>2, <1>3, <1>4, <1>5

\* What a receiver knows stays so while it sets nothing.
LEMMA ReceiveStays ==
    ASSUME NEW d \in {1, 100}, ReceiveInv(d), pc = "extract",
           job' = job, coefs' = coefs, changed' = changed, bs' = bs, bit' = bit,
           read' = read,
           \/ header' = header /\ limit' = limit
           \/ /\ header' = TRUE /\ bit >= HeaderBits
              /\ Safe => SameBits(d) /\ limit' = All
    PROVE  ReceiveInv(d)'
<1>1. /\ bs' \in Jelbs(job'.cap)
      /\ read' \in 0 .. Len(coefs')
      /\ header' \in BOOLEAN
    BY DEF ReceiveInv
<1>2. bit' = Least(FirstBit(read + 1), Room)'
    BY SameJob DEF ReceiveInv
<1>3. \A k \in 0 .. bit' - 1 : Arrived(k)' => GetBit(bs', k) = GetBit(Sent(d), k)'
    BY SameJob, SameArrived DEF ReceiveInv
<1>4. SameBits(d) => SameBits(d)'
    BY SameJob DEF SameBits
<1>5. /\ ~header' => limit' = Room'
      /\ header' => bit' >= HeaderBits
      /\ header' /\ Safe' => SameBits(d)' /\ limit' = All'
    BY <1>4, SameJob DEF ReceiveInv
<1> QED
    BY <1>1, <1>2, <1>3, <1>5 DEF ReceiveInv

\* AcceptHeader takes the sender's header, or one of which bits are lost.
LEMMA AcceptHeaderKeeps ==
    ASSUME NEW d \in {1, 100}, BitInv(d), AcceptHeader
    PROVE  BitInv(d)'
<1>1. /\ JobType /\ KeptInv(d) /\ ReceiveInv(d)
      /\ pc = "extract" /\ bit >= HeaderBits /\ bs.checksum = Checksum(bs)
      /\ header' = TRUE /\ limit' = StreamBits(Length(bs))
      /\ pc' = IF Length(bs) = 0 THEN "done" ELSE pc
    BY DEF BitInv, AcceptHeader, HeaderComplete, Lawful
<1>2. /\ job' = job /\ coefs' = coefs /\ changed' = changed /\ bs' = bs /\ bit' = bit
      /\ read' = read
    BY DEF AcceptHeader
<1>3. bs \in Jelbs(job.cap)
    BY <1>1 DEF ReceiveInv
<1>4. Safe => SameBits(d)
    BY <1>1, HeaderArrives
<1>5. Safe => limit' = All
    BY <1>1, <1>3, <1>4, SameSays
<1>6. KeptInv(d)'
    BY <1>1, <1>2, KeptStays
<1>7. ReceiveInv(d)'
    BY <1>1, <1>2, <1>4, <1>5, ReceiveStays
<1>8. ASSUME pc' = "done", Safe PROVE bit >= All
  <2>1. Length(bs) = 0
      BY <1>1, <1>8
  <2>2. All = 48
      BY <1>1, <1>3, <1>4, <1>8, <2>1, SameSays, Ends
  <2> QED
      BY <1>1, <2>2 DEF HeaderBits
<1>9. EndInv'
  <2>1. pc' = "done" /\ Safe' => header' /\ bit' >= All'
      BY <1>1, <1>2, <1>8, SameJob
  <2>2. pc' # "refused" /\ pc' # "failed"
      BY <1>1
  <2> QED
      BY <2>1, <2>2 DEF EndInv, Writable
<1>10. SendInv(d)'
    BY <1>1 DEF SendInv
<1> QED
    BY <1>1, <1>2, <1>6, <1>7, <1>9, <1>10, SameJob DEF BitInv

\* UnstuffEnd comes after the last bit of the stream.
LEMMA UnstuffEndKeeps ==
    ASSUME NEW d \in {1, 100}, BitInv(d), UnstuffEnd
    PROVE  BitInv(d)'
<1>1. /\ JobType /\ KeptInv(d) /\ ReceiveInv(d)
      /\ pc = "extract" /\ pc' = "done"
      /\ ~(bit >= HeaderBits /\ ~header) /\ ~(read < Len(coefs) /\ bit < limit)
    BY DEF BitInv, UnstuffEnd, HeaderComplete, More
<1>2. /\ job' = job /\ coefs' = coefs /\ changed' = changed /\ bs' = bs /\ bit' = bit
      /\ read' = read /\ header' = header /\ limit' = limit
    BY DEF UnstuffEnd
<1>3. KeptInv(d)' /\ ReceiveInv(d)' /\ SendInv(d)'
    BY <1>1, <1>2, KeptStays, ReceiveStays DEF SendInv
<1>4. ASSUME Safe PROVE header /\ bit >= All
  <2> DEFINE f == FirstBit(read + 1)
             all == All
             room == Room
  <2>1. /\ bit = Least(f, room) /\ read \in 0 .. Len(coefs) /\ header \in BOOLEAN
        /\ ~header => limit = room
        /\ header => limit = all
      BY <1>1, <1>4 DEF ReceiveInv
  <2>2. all \in Nat /\ all >= 48 /\ room \in Nat /\ all <= room
      BY <1>1, Ends
  <2>3. Len(coefs) \in Nat /\ f \in Nat
    <3>1. read + 1 \in Nat \ {0} /\ Len(coefs) \in Nat /\ job.code.bits \in 1 .. 8
        BY <1>1, <2>1, JobFacts DEF KeptInv
    <3> QED
        BY <3>1, FirstBitSteps
  <2>4. read = Len(coefs) => f >= all
      BY <1>1 DEF KeptInv
  <2> HIDE DEF f, all, room
  <2>5. read = Len(coefs) => bit >= all
      BY <2>1, <2>2, <2>3, <2>4 DEF Least
  <2>6. bit \in Int
      BY <2>1, <2>2, <2>3 DEF Least
  <2>7. bit >= all
    <3>1. CASE read = Len(coefs)
        BY <2>5, <3>1
    <3>2. CASE read # Len(coefs)
      <4>1. ~(bit < limit)
          BY <1>1, <2>1, <2>3, <3>2
      <4> QED
          BY <2>1, <2>2, <2>6, <4>1
    <3> QED
        BY <3>1, <3>2
  <2>8. header
      BY <1>1, <2>1, <2>2, <2>6, <2>7 DEF HeaderBits
  <2> QED
      BY <2>7, <2>8 DEF all
<1>5. EndInv'
    BY <1>1, <1>2, <1>4, SameJob DEF EndInv, Writable
<1> QED
    BY <1>1, <1>2, <1>3, <1>5, SameJob DEF BitInv

\* A receiver refuses a header only if bits of it are wrong or lost.
LEMMA RefuseKeeps ==
    ASSUME NEW d \in {1, 100}, BitInv(d), Refuse
    PROVE  BitInv(d)'
<1>1. /\ JobType /\ KeptInv(d) /\ ReceiveInv(d)
      /\ pc = "extract" /\ pc' = "refused"
      /\ BogusDensity \/ (HeaderComplete /\ ~Lawful)
    BY DEF BitInv, Refuse
<1>2. /\ job' = job /\ coefs' = coefs /\ changed' = changed /\ bs' = bs /\ bit' = bit
      /\ read' = read /\ header' = header /\ limit' = limit
    BY DEF Refuse
<1>3. KeptInv(d)' /\ ReceiveInv(d)' /\ SendInv(d)'
    BY <1>1, <1>2, KeptStays, ReceiveStays DEF SendInv
<1>4. bs \in Jelbs(job.cap) /\ job.cap \in Nat
    BY <1>1, JobFacts DEF ReceiveInv
<1>5. ASSUME BogusDensity, Whole, ~HeaderHit PROVE FALSE
  <2>1. read = 4 /\ bs.density \notin 1 .. 100
      BY <1>5 DEF BogusDensity
  <2>2. bit = 8
    <3>1. FirstBit(read + 1) = 8
      <4>1. job.code.bits \in 1 .. 8
          BY <1>1, JobFacts
      <4> QED
          BY <2>1, <4>1 DEF FirstBit
    <3>2. bit = Least(FirstBit(read + 1), Room)
        BY <1>1 DEF ReceiveInv
    <3>3. Room \in Nat /\ All \in Nat /\ Room >= 48
        BY <1>1, Ends
    <3> QED
        BY <3>1, <3>2, <3>3 DEF Least
  <2>3. ASSUME NEW i \in 0 .. 7 PROVE GetBit(bs, i) = GetBit(Sent(d), i)
    <3>1. ~Hit(i)
      <4>1. i \in 0 .. 47
          OBVIOUS
      <4> QED
          BY <1>1, <1>5, <4>1, HeaderMissed
    <3>2. i < All /\ ~Lost(i)
        BY <1>1, <1>5, Ends DEF Lost
    <3>3. Arrived(i) /\ i \in 0 .. bit - 1
        BY <2>2, <3>1, <3>2 DEF Arrived
    <3> QED
        BY <1>1, <3>3 DEF ReceiveInv
  <2>4. \A i \in 0 .. 7 : Bit(bs.density, i) = Bit(Sent(d).density, i)
      BY <2>3, HeaderBitsAre
  <2>5. Sent(d).density = d /\ Sent(d) \in Jelbs(Len(job.msg)) /\ Len(job.msg) \in Nat
      BY <1>1, JobFacts, SentIs
  <2>6. bs.density \in Byte /\ Sent(d).density \in Byte
      BY <1>4, <2>5, HeaderType
  <2>7. bs.density = d
      BY <2>4, <2>5, <2>6, SameByte
  <2> QED
      BY <2>1, <2>7
<1>6. ASSUME HeaderComplete, ~Lawful, Whole, ~HeaderHit PROVE FALSE
  <2>1. SameBits(d)
    <3>1. bit >= HeaderBits /\ Safe
        BY <1>6 DEF HeaderComplete, Safe
    <3> QED
        BY <1>1, <1>6, <3>1, HeaderArrives
  <2>2. /\ bs.density = d /\ bs.checksum = Checksum(bs)
        /\ Length(bs) \in Nat /\ Length(bs) <= job.cap
      BY <1>1, <1>4, <2>1, SameSays
  <2>3. Lawful
      BY <1>4, <2>2 DEF Lawful, MaxBytes
  <2> QED
      BY <1>6, <2>3
<1>7. EndInv'
  <2>1. ~Whole \/ HeaderHit
      BY <1>1, <1>5, <1>6
  <2>2. ~Whole' \/ HeaderHit'
      BY <1>2, <2>1, SameJob, SameArrived
  <2> QED
      BY <1>1, <2>2 DEF EndInv, Writable
<1> QED
    BY <1>1, <1>2, <1>3, <1>7, SameJob DEF BitInv

-----------------------------------------------------------------------------
(* The theorems.                                                           *)

\* Every step keeps the invariant.
LEMMA NextKeeps == BitStreamInv /\ [Next]_vars => BitStreamInv'
<1> SUFFICES ASSUME BitStreamInv, [Next]_vars PROVE BitStreamInv'
    OBVIOUS
<1>1. PICK d \in {1, 100} : BitInv(d)
    BY DEF BitStreamInv
<1>2. CASE Next
  <2> SUFFICES BitInv(d)'
      BY DEF BitStreamInv
  <2>1. CASE Insert
      BY <1>1, <2>1, InsertKeeps
  <2>2. CASE Write
      BY <1>1, <2>2, WriteKeeps
  <2>3. CASE WriteFails
      BY <1>1, <2>3, WriteFailsKeeps
  <2>4. CASE Change
      BY <1>1, <2>4, ChangeKeeps
  <2>5. CASE UnstuffBegin
      BY <1>1, <2>5, UnstuffBeginKeeps
  <2>6. CASE Extract
      BY <1>1, <2>6, ExtractKeeps
  <2>7. CASE AcceptHeader
      BY <1>1, <2>7, AcceptHeaderKeeps
  <2>8. CASE Refuse
      BY <1>1, <2>8, RefuseKeeps
  <2>9. CASE UnstuffEnd
      BY <1>1, <2>9, UnstuffEndKeeps
  <2> QED
      BY <1>2, <2>1, <2>2, <2>3, <2>4, <2>5, <2>6, <2>7, <2>8, <2>9 DEF Next
<1>3. CASE UNCHANGED vars
  <2>1. /\ job' = job /\ pc' = pc /\ coefs' = coefs /\ bs' = bs /\ bit' = bit
        /\ read' = read /\ limit' = limit /\ header' = header /\ changed' = changed
      BY <1>3 DEF vars
  <2>2. KeptInv(d)'
    <3>1. pc # "insert" => FirstBit(Len(coefs) + 1)' >= All'
        BY <1>1, <2>1, SameJob DEF BitInv, KeptInv
    <3>2. /\ coefs \in Seq(Int) /\ changed \in 0 .. Len(coefs)
          /\ \A n \in 1 .. Len(coefs) :
               FirstBit(n)' < All' /\ (n # changed => coefs[n] = Written(n, d)')
        BY <1>1, <2>1, SameJob DEF BitInv, KeptInv
    <3> QED
        BY <2>1, <3>1, <3>2 DEF KeptInv
  <2>3. SendInv(d)'
    <3>1. Least(FirstBit(Len(coefs) + 1), All)' = Least(FirstBit(Len(coefs) + 1), All)
        BY <2>1, SameJob
    <3> QED
        BY <1>1, <2>1, <3>1, SameJob DEF BitInv, SendInv
  <2>4. ReceiveInv(d)'
    <3>1. /\ Least(FirstBit(read + 1), Room)' = Least(FirstBit(read + 1), Room)
          /\ SameBits(d) => SameBits(d)'
        BY <2>1, SameJob DEF SameBits
    <3>2. \A k \in 0 .. bit - 1 :
            (Arrived(k) => GetBit(bs, k) = GetBit(Sent(d), k))
              => (Arrived(k)' => GetBit(bs', k) = GetBit(Sent(d), k)')
        BY <2>1, SameJob, SameArrived
    <3> QED
        BY <1>1, <2>1, <3>1, <3>2, SameJob DEF BitInv, ReceiveInv
  <2>5. EndInv'
      BY <1>1, <2>1, SameJob, SameArrived DEF BitInv, EndInv, Writable
  <2> QED
      BY <1>1, <2>1, <2>2, <2>3, <2>4, <2>5, SameJob DEF BitInv, BitStreamInv
<1> QED
    BY <1>2, <1>3

\* In every state of every behaviour it holds.
LEMMA InvariantHolds == Spec => []BitStreamInv
<1> QED
    BY InitKeeps, NextKeeps, PTL DEF Spec

\* The bits of a byte of the message that arrive make it.
LEMMA ByteArrives ==
    ASSUME NEW d \in {1, 100}, BitInv(d), pc = "done", Whole,
           NEW i \in 1 .. Len(job.msg), ~Touched(i)
    PROVE  bs.msg[i] = job.msg[i]
<1>1. JobType /\ KeptInv(d) /\ ReceiveInv(d) /\ EndInv
    BY DEF BitInv
<1>2. /\ job.cap \in Nat /\ Len(job.msg) \in Nat /\ Len(job.msg) <= job.cap
      /\ job.msg \in [1 .. Len(job.msg) -> Byte]
      /\ Sent(d) \in Jelbs(Len(job.msg)) /\ Sent(d).msg = job.msg
      /\ bs \in Jelbs(job.cap)
    BY <1>1, JobFacts, SentIs DEF ReceiveInv
<1>3. bs.msg[i] \in Byte /\ job.msg[i] \in Byte
  <2>1. i \in 1 .. job.cap
      BY <1>2
  <2>2. bs.msg \in [1 .. job.cap -> Byte]
      BY <1>2 DEF Jelbs
  <2> QED
      BY <1>2, <2>1, <2>2
<1>4. i \in Nat /\ i <= Len(job.msg) /\ i >= 1
    BY <1>2
<1>5. All = 48 + 8 * Len(job.msg) /\ All \in Nat /\ bit >= All
    BY <1>1, Ends DEF EndInv, Safe
<1>6. ASSUME NEW j \in 0 .. 7 PROVE Bit(bs.msg[i], j) = Bit(job.msg[i], j)
  <2> DEFINE k == 48 + 8 * (i - 1) + j
  <2>1. k \in Int /\ k >= 48 /\ k < All /\ k % 8 = j /\ (k \div 8) - 5 = i
      BY <1>2, <1>4, <1>5
  <2>2. ~Hit(k)
    <3>1. CASE changed = 0
        BY <3>1 DEF Hit
    <3>2. CASE changed # 0
      <4> DEFINE f == FirstBit(changed)
                 g == FirstBit(changed + 1)
      <4>1. f \in Nat /\ g \in Nat
        <5>1. /\ changed \in Nat \ {0} /\ changed + 1 \in Nat \ {0}
              /\ job.code.bits \in 1 .. 8
            BY <1>1, <3>2, JobFacts DEF KeptInv
        <5> QED
            BY <5>1, FirstBitSteps
      <4>2. ~(f < 48 + 8 * i) \/ ~(g > 48 + 8 * (i - 1))
          BY <3>2 DEF Touched, HeaderBits
      <4> HIDE DEF f, g
      <4>3. k \notin f .. g - 1
          BY <1>4, <4>1, <4>2
      <4> QED
          BY <4>3 DEF Hit, f, g
    <3> QED
        BY <3>1, <3>2
  <2> HIDE DEF k
  <2>3. Arrived(k)
      BY <2>1, <2>2 DEF Arrived, Lost
  <2>4. k \in 0 .. bit - 1
    <3>1. bit \in Int
      <4>1. FirstBit(read + 1) \in Int /\ Room \in Int
        <5>1. read + 1 \in Nat \ {0} /\ job.code.bits \in 1 .. 8
            BY <1>1, JobFacts DEF ReceiveInv, KeptInv
        <5> QED
            BY <1>1, <5>1, FirstBitSteps, Ends
      <4> QED
          BY <1>1, <4>1 DEF ReceiveInv, Least
    <3> QED
        BY <1>5, <2>1, <3>1
  <2>5. GetBit(bs, k) = GetBit(Sent(d), k)
      BY <1>1, <2>3, <2>4 DEF ReceiveInv
  <2>6. /\ GetBit(bs, k) = Bit(bs.msg[i], j)
        /\ GetBit(Sent(d), k) = Bit(job.msg[i], j)
    <3>1. ByteOf(bs, k) = bs.msg[i] /\ ByteOf(Sent(d), k) = job.msg[i]
        BY <1>2, <2>1, Fields
    <3> QED
        BY <2>1, <3>1 DEF GetBit
  <2> QED
      BY <2>5, <2>6
<1> QED
    BY <1>3, <1>6, SameByte

\* A message whose end is the end of a coefficient is understood, in every
\* byte that the changed coefficient has no part in (ijel_unstuff_message).
THEOREM BitStreamUnderstood == Spec => []Understood
<1>1. BitStreamInv => Understood
  <2> SUFFICES ASSUME BitStreamInv, pc \in {"done", "refused"}, Whole, ~HeaderHit
               PROVE  /\ pc = "done"
                      /\ Length(bs) = Len(job.msg)
                      /\ \A i \in 1 .. Len(job.msg) : ~Touched(i) => bs.msg[i] = job.msg[i]
      BY DEF Understood
  <2>1. PICK d \in {1, 100} : BitInv(d)
      BY DEF BitStreamInv
  <2>2. JobType /\ ReceiveInv(d) /\ EndInv
      BY <2>1 DEF BitInv
  <2>3. pc = "done"
      BY <2>2 DEF EndInv
  <2>4. SameBits(d) /\ bs \in Jelbs(job.cap)
      BY <2>2, <2>3 DEF EndInv, ReceiveInv, Safe
  <2>5. Length(bs) = Len(job.msg)
      BY <2>2, <2>4, SameSays
  <2> QED
      BY <2>1, <2>3, <2>5, ByteArrives
<1> QED
    BY <1>1, InvariantHolds, PTL

\* No receiver takes a header for the right one that is another, if one
\* coefficient has changed (jelbs_compute_checksum).
THEOREM BitStreamHeaderGuarded == Spec => []HeaderGuarded
<1>1. BitStreamInv => HeaderGuarded
  <2> SUFFICES ASSUME BitStreamInv, pc = "done", Safe
               PROVE  header /\ Length(bs) = Len(job.msg)
      BY DEF HeaderGuarded, Safe
  <2>1. PICK d \in {1, 100} : BitInv(d)
      BY DEF BitStreamInv
  <2>2. JobType /\ ReceiveInv(d) /\ EndInv
      BY <2>1 DEF BitInv
  <2>3. header /\ SameBits(d) /\ bs \in Jelbs(job.cap)
      BY <2>2 DEF EndInv, ReceiveInv
  <2> QED
      BY <2>2, <2>3, SameSays
<1> QED
    BY <1>1, InvariantHolds, PTL

\* An image cannot be written only if its coefficients were close to the
\* lowest that can, and their low bits carry the message (ijel_insert_bits).
THEOREM BitStreamWritable == Spec => []Writable
<1>1. BitStreamInv => Writable
    BY DEF BitStreamInv, BitInv, EndInv
<1> QED
    BY <1>1, InvariantHolds, PTL
=============================================================================
