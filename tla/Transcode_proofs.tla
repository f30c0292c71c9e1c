-------------------------- MODULE Transcode_proofs --------------------------
(***************************************************************************)
(* That an image is written as a whole or until the destination is full,   *)
(* and that the receiver finds in every block what the sender left there,  *)
(* for any image, buffer, room, and number of bytes in the code of an MCU. *)
(***************************************************************************)
EXTENDS Transcode, SequenceTheorems, WellFoundedInduction, TLAPS

-----------------------------------------------------------------------------
(* Induction and recursion over an initial segment of the naturals, as     *)
(* facts about sets and functions: the theorems of the library take an     *)
(* operator as parameter.                                                  *)

\* A set that contains 0, and with each number the next, contains them all.
LEMMA SegmentInduction ==
    ASSUME NEW n \in Nat, NEW T,
           0 \in T,
           \A i \in 0 .. n - 1 : i \in T => i + 1 \in T
    PROVE  \A i \in 0 .. n : i \in T
<1> DEFINE Rest == {i \in 0 .. n : i \notin T}
           Less == {s \in Nat \X Nat : s[1] < s[2]}
<1> SUFFICES ASSUME Rest # {} PROVE FALSE
    OBVIOUS
<1>1. IsWellFoundedOn(Less, Nat)
    BY NatLessThanWellFounded, Zenon DEF OpToRel
<1>2. Rest \subseteq Nat
    OBVIOUS
<1> HIDE DEF Rest, Less
<1>3. PICK x \in Rest : \A y \in Rest : ~ (<<y, x>> \in Less)
    BY <1>1, <1>2, WFMin
<1>4. x \in 0 .. n /\ x \notin T /\ x # 0
    BY DEF Rest
<1>5. x - 1 \in 0 .. n - 1 /\ x - 1 \in Nat /\ x \in Nat
    BY <1>4
<1>6. x - 1 \notin T
    BY <1>4, <1>5
<1>7. x - 1 \in Rest
    BY <1>5, <1>6 DEF Rest
<1>8. <<x - 1, x>> \in Less
    BY <1>5 DEF Less
<1> QED
    BY <1>3, <1>7, <1>8

\* Function g is computed by a recursion over 0 .. n, each value from the one
\* before.
IsRecursion(g, n, Codomain, first, step) ==
    /\ g \in [0 .. n -> Codomain]
    /\ g[0] = first
    /\ \A i \in 1 .. n : g[i] = step[i][g[i - 1]]

\* There is such a function.
LEMMA SegmentRecursion ==
    ASSUME NEW n \in Nat, NEW Codomain, NEW first \in Codomain,
           NEW step \in [1 .. n -> [Codomain -> Codomain]]
    PROVE  \E g : IsRecursion(g, n, Codomain, first, step)
<1> DEFINE Solves(g, l) == /\ g[0] = first
                           /\ \A i \in 1 .. l : g[i] = step[i][g[i - 1]]
           T == {l \in 0 .. n : \E g \in [0 .. l -> Codomain] : Solves(g, l)}
<1>1. 0 \in T
  <2> DEFINE g == [i \in 0 .. 0 |-> first]
  <2>1. g \in [0 .. 0 -> Codomain] /\ Solves(g, 0)
      OBVIOUS
  <2> HIDE DEF g, Solves
  <2> QED
      BY <2>1
<1>2. ASSUME NEW l \in 0 .. n - 1, l \in T PROVE l + 1 \in T
  <2>1. PICK g \in [0 .. l -> Codomain] : Solves(g, l)
      BY <1>2
  <2> DEFINE h == [i \in 0 .. l + 1 |->
                      IF i <= l THEN g[i] ELSE step[l + 1][g[l]]]
  <2>2. l + 1 \in 1 .. n /\ g[l] \in Codomain
      OBVIOUS
  <2>3. step[l + 1][g[l]] \in Codomain
      BY <2>2
  <2>4. h \in [0 .. l + 1 -> Codomain]
      BY <2>3
  <2>5. h[0] = first
      BY <2>1
  <2>6. ASSUME NEW i \in 1 .. l + 1 PROVE h[i] = step[i][h[i - 1]]
    <3>1. CASE i <= l
      <4>1. i \in 1 .. l /\ h[i] = g[i] /\ h[i - 1] = g[i - 1]
          BY <3>1
      <4> QED
          BY <2>1, <4>1
    <3>2. CASE i = l + 1
      <4>1. h[i - 1] = g[l] /\ h[i] = step[l + 1][g[l]]
          BY <3>2
      <4> QED
          BY <3>2, <4>1
    <3> QED
        BY <3>1, <3>2
  <2> HIDE DEF h
  <2>7. Solves(h, l + 1)
      BY <2>5, <2>6
  <2>8. \E e \in [0 .. l + 1 -> Codomain] : Solves(e, l + 1)
      BY <2>4, <2>7
  <2>9. l + 1 \in 0 .. n
      BY <2>2
  <2> HIDE DEF Solves
  <2> QED
      BY <2>8, <2>9
<1> HIDE DEF T
<1>3. n \in T
  <2>1. \A i \in 0 .. n - 1 : i \in T => i + 1 \in T
      BY <1>2
  <2>2. \A i \in 0 .. n : i \in T
      BY <1>1, <2>1, SegmentInduction, Zenon
  <2> QED
      BY <2>2
<1>4. PICK g \in [0 .. n -> Codomain] : Solves(g, n)
    BY <1>3 DEF T
<1>5. IsRecursion(g, n, Codomain, first, step)
    BY <1>4 DEF IsRecursion
<1> QED
    BY <1>5, Zenon

-----------------------------------------------------------------------------
(* Bytes.                                                                  *)

Writing == {"start", "write", "trailer", "term"}

\* What the writer has produced is in the destination or in the buffer.
ByteInv ==
    /\ image \in Images
    /\ dest \in [kind : {"memory", "stdio"}, room : Rooms]
    /\ produced \in Nat /\ length \in Nat
    /\ buffered \in 0 .. BufSize - 1
    /\ pc \in Writing \/ (side = "sender" /\ pc \in {"read", "walk"})
          => produced = length + buffered
    /\ WholeOrFull

LEMMA MaxBound ==
    ASSUME NEW n \in McuBytes
    PROVE  Max(McuBytes) \in Nat /\ n <= Max(McuBytes)
<1>1. McuBytes \subseteq Nat
    BY TranscodeAssumption
<1>2. \E most \in McuBytes : \A k \in McuBytes : most >= k
    BY <1>1, TranscodeAssumption
<1>3. Max(McuBytes) \in McuBytes /\ \A k \in McuBytes : Max(McuBytes) >= k
    BY <1>2 DEF Max
<1> QED
    BY <1>1, <1>3

\* Emitting bytes neither loses nor adds any.
LEMMA EmitFacts ==
    ASSUME NEW n \in McuBytes, produced \in Nat, length \in Nat,
           buffered \in 0 .. BufSize - 1
    PROVE  /\ Flushes(n) \in Nat
           /\ Flushes(n) * BufSize \in Nat
           /\ (buffered + n) % BufSize \in 0 .. BufSize - 1
           /\ Flushes(n) * BufSize + ((buffered + n) % BufSize) = buffered + n
<1>1. n \in Nat /\ BufSize \in Nat \ {0}
    BY TranscodeAssumption
<1> DEFINE t == buffered + n
<1>2. t \in Nat
    BY <1>1
<1> HIDE DEF t
<1>3. t \div BufSize \in Nat /\ t % BufSize \in 0 .. BufSize - 1
      /\ t = BufSize * (t \div BufSize) + (t % BufSize)
    BY <1>1, <1>2
<1>4. BufSize * (t \div BufSize) = (t \div BufSize) * BufSize
      /\ BufSize * (t \div BufSize) \in Nat
    BY <1>1, <1>3
<1>5. Flushes(n) = t \div BufSize
    BY DEF Flushes, t
<1> QED
    BY <1>3, <1>4, <1>5 DEF t

\* What was refused, with what is produced already, is as much as there is
\* room for.
LEMMA RefusedFull ==
    ASSUME ByteInv, produced = length + buffered,
           NEW n \in McuBytes, Refused(n)
    PROVE  produced + Max(McuBytes) >= dest.room
<1>1. produced \in Nat /\ length \in Nat /\ buffered \in 0 .. BufSize - 1
      /\ dest.room \in Nat /\ dest.kind \in {"memory", "stdio"}
    BY TranscodeAssumption DEF ByteInv
<1>2. BufSize \in Nat \ {0} /\ n \in Nat
    BY TranscodeAssumption
<1> DEFINE f == Flushes(n) * BufSize
           r == (buffered + n) % BufSize
<1>3. f \in Nat /\ r \in 0 .. BufSize - 1 /\ f + r = buffered + n
    BY <1>1, EmitFacts
<1>4. length + f >= dest.room
  <2>1. dest.kind = "memory" => length + f >= dest.room
      BY DEF Refused
  <2>2. dest.kind = "stdio" => length + f > dest.room
      BY DEF Refused
  <2> HIDE DEF f
  <2> QED
      BY <1>1, <1>3, <2>1, <2>2
<1>5. Max(McuBytes) \in Nat /\ n <= Max(McuBytes)
    BY MaxBound
<1> HIDE DEF f, r
<1> QED
    BY <1>1, <1>2, <1>3, <1>4, <1>5

LEMMA EmitBytes ==
    ASSUME ByteInv, produced = length + buffered, NEW n \in McuBytes, Emit(n)
    PROVE  /\ produced' \in Nat /\ length' \in Nat
           /\ buffered' \in 0 .. BufSize - 1
           /\ produced' = length' + buffered'
<1>1. produced \in Nat /\ length \in Nat /\ buffered \in 0 .. BufSize - 1
    BY DEF ByteInv
<1>2. BufSize \in Nat \ {0} /\ n \in Nat
    BY TranscodeAssumption
<1> DEFINE f == Flushes(n) * BufSize
           r == (buffered + n) % BufSize
<1>3. f \in Nat /\ r \in 0 .. BufSize - 1 /\ f + r = buffered + n
    BY <1>1, EmitFacts
<1>4. produced' = produced + n /\ length' = length + f /\ buffered' = r
    BY DEF Emit
<1> HIDE DEF f, r
<1> QED
    BY <1>1, <1>2, <1>3, <1>4

\* What TermDestination takes.
LEMMA MinFacts ==
    ASSUME NEW a \in Nat, NEW b \in Nat
    PROVE  Min({a, b}) = IF a <= b THEN a ELSE b
<1> DEFINE m == IF a <= b THEN a ELSE b
<1>1. m \in {a, b} /\ \A y \in {a, b} : m <= y
    OBVIOUS
<1>2. \A x \in {a, b} : (\A y \in {a, b} : x <= y) => x = m
    OBVIOUS
<1> HIDE DEF m
<1>3. Min({a, b}) \in {a, b} /\ \A y \in {a, b} : Min({a, b}) <= y
    BY <1>1 DEF Min
<1> QED
    BY <1>2, <1>3 DEF m

LEMMA ByteNext ==
    ASSUME ByteInv, [Next]_vars
    PROVE  ByteInv'
<1> USE DEF ByteInv
<1>1. CASE UNCHANGED vars
  <2>1. UNCHANGED <<image, dest, pc, side, produced, length, buffered, row, vert, ctr>>
      BY <1>1 DEF vars, bytes, counters
  <2>2. TooManyBlocks(Interleaved[1])' = TooManyBlocks(Interleaved[1])
      BY <1>1 DEF vars, counters, TooManyBlocks, Interleaved, Comps, McuPlaces,
         Single, McuPart, McuWidth, McuHeight, H, V
  <2> QED
      BY <2>1, <2>2 DEF WholeOrFull
<1>2. CASE ReadRefused \/ ReadMcu \/ Embed \/ Extract
  <2>1. UNCHANGED <<image, dest, side, produced, length, buffered>>
      BY <1>2 DEF ReadRefused, ReadMcu, Embed, Extract, bytes
  <2>2. /\ pc' \in {"unreadable", "read", "walk", "start", "done"}
        /\ pc' \in {"read", "walk"} => pc \in {"read", "walk"}
        /\ pc' = "start" => pc = "walk" /\ side = "sender"
      BY <1>2 DEF ReadRefused, ReadMcu, Embed, Extract
  <2> QED
      BY <2>1, <2>2 DEF WholeOrFull, Writing
<1>3. CASE WriteRefused
  <2>1. UNCHANGED <<image, dest, side, produced, length, buffered, row, vert, ctr>>
        /\ pc = "start" /\ pc' = "failed" /\ TooManyBlocks(Interleaved[1])
      BY <1>3 DEF WriteRefused, Fail, bytes, counters
  <2>2. TooManyBlocks(Interleaved[1])' = TooManyBlocks(Interleaved[1])
    <3>1. Interleaved' = Interleaved
        BY <2>1 DEF Interleaved, Comps
    <3>2. \A s, c : McuPart(s, c)' = McuPart(s, c)
        BY <2>1 DEF McuPart, McuWidth, McuHeight, Single, H, V
    <3>3. \A s : McuPlaces(s)' = McuPlaces(s)
        BY <3>2 DEF McuPlaces
    <3> QED
        BY <3>1, <3>3 DEF TooManyBlocks, Single
  <2> QED
      BY <2>1, <2>2 DEF WholeOrFull, Writing
<1>4. CASE WriteStart \/ WriteMcu \/ WriteTrailer
  <2>1. PICK n \in McuBytes : Emit(n)
      BY <1>4 DEF WriteStart, WriteMcu, WriteTrailer
  <2>2. UNCHANGED <<image, dest, side>> /\ pc \in Writing
        /\ pc' \in Writing
      BY <1>4 DEF WriteStart, WriteMcu, WriteTrailer, Writing
  <2>3. produced = length + buffered
      BY <2>2
  <2>4. produced' \in Nat /\ length' \in Nat /\ buffered' \in 0 .. BufSize - 1
        /\ produced' = length' + buffered'
      BY <2>1, <2>3, EmitBytes
  <2> QED
      BY <2>2, <2>4 DEF WholeOrFull, Writing
<1>5. CASE WriteFails
  <2>1. PICK n \in McuBytes : Refused(n)
      BY <1>5 DEF WriteFails
  <2>2. UNCHANGED <<image, dest, side, produced, length, buffered>>
        /\ pc \in Writing /\ pc' = "failed"
      BY <1>5 DEF WriteFails, Fail, bytes, Writing
  <2>3. produced + Max(McuBytes) >= dest.room
      BY <2>1, <2>2, RefusedFull
  <2> QED
      BY <2>2, <2>3 DEF WholeOrFull, Writing
<1>6. CASE TermDestination
  <2>1. /\ UNCHANGED <<image, dest, side, produced, buffered>>
        /\ pc = "term" /\ pc' = "written"
        /\ dest.kind = "memory" \/ length + buffered <= dest.room
        /\ length' = Min({length + buffered, dest.room})
      BY <1>6 DEF TermDestination
  <2>2. dest.room \in Nat /\ BufSize \in Nat
      BY TranscodeAssumption
  <2>3. length' = IF length + buffered <= dest.room THEN length + buffered
                                                    ELSE dest.room
      BY <2>1, <2>2, MinFacts
  <2> QED
      BY <2>1, <2>2, <2>3 DEF WholeOrFull, Writing
<1>7. CASE TermFails
  <2>1. /\ UNCHANGED <<image, dest, side, produced, length, buffered>>
        /\ pc = "term" /\ pc' = "failed"
        /\ length + buffered > dest.room
      BY <1>7 DEF TermFails, Fail, bytes
  <2>2. dest.room \in Nat /\ BufSize \in Nat /\ Max(McuBytes) \in Nat
      BY TranscodeAssumption, MaxBound
  <2> QED
      BY <2>1, <2>2 DEF WholeOrFull, Writing
<1>8. CASE Deliver
  <2>1. UNCHANGED <<image, dest, produced, length, buffered>>
        /\ pc' = "read" /\ side' = "receiver"
      BY <1>8 DEF Deliver, bytes
  <2> QED
      BY <2>1 DEF WholeOrFull, Writing
<1> QED
    BY <1>1, <1>2, <1>3, <1>4, <1>5, <1>6, <1>7, <1>8 DEF Next

LEMMA ByteStart == Init => ByteInv
<1> SUFFICES ASSUME Init PROVE ByteInv
    OBVIOUS
<1>1. BufSize \in Nat \ {0}
    BY TranscodeAssumption
<1> QED
    BY <1>1 DEF Init, ByteInv, WholeOrFull, Writing

\* An image that was not refused is there as a whole, or the destination is
\* memory and full; one there was room for is not refused (WholeOrFull).
THEOREM TranscodeWholeOrFull == Spec => []WholeOrFull
<1>1. ByteInv /\ [Next]_vars => ByteInv'
    BY ByteNext
<1>2. ByteInv => WholeOrFull
    BY DEF ByteInv
<1> QED
    BY <1>1, <1>2, ByteStart, PTL DEF Spec

-----------------------------------------------------------------------------
(* Arithmetic.                                                             *)

\* A product of naturals is one.
LEMMA ProductNat ==
    ASSUME NEW a \in Nat, NEW b \in Nat
    PROVE  a * b \in Nat
OBVIOUS

\* Products with the same factor are in the order of the others.
LEMMA ProductOrder ==
    ASSUME NEW a \in Nat, NEW b \in Nat, NEW w \in Nat \ {0}
    PROVE  /\ a <= b => a * w <= b * w
           /\ a < b => a * w + w <= b * w
           /\ a * w < b * w => a < b
<1>1. ASSUME a <= b PROVE a * w <= b * w
  <2> DEFINE d == b - a
  <2>1. d \in Nat /\ b = a + d
      BY <1>1
  <2>2. d * w \in Nat
      BY <2>1
  <2>3. b * w = a * w + d * w
      BY <2>1
  <2> QED
      BY <2>2, <2>3
<1>2. ASSUME a < b PROVE a * w + w <= b * w
  <2> DEFINE d == b - a - 1
  <2>1. d \in Nat /\ b = a + 1 + d
      BY <1>2
  <2>2. d * w \in Nat
      BY <2>1
  <2>3. b * w = a * w + w + d * w
      BY <2>1
  <2> QED
      BY <2>2, <2>3
<1>3. ASSUME a * w < b * w, ~ (a < b) PROVE FALSE
  <2> DEFINE d == a - b
  <2>1. d \in Nat /\ a = b + d
      BY <1>3
  <2>2. d * w \in Nat
      BY <2>1
  <2>3. a * w = b * w + d * w
      BY <2>1
  <2> QED
      BY <1>3, <2>2, <2>3
<1> QED
    BY <1>1, <1>2, <1>3

\* Quotient and remainder are naturals and give the number back.
LEMMA DivFacts ==
    ASSUME NEW n \in Nat, NEW w \in Nat \ {0}
    PROVE  /\ n \div w \in Nat
           /\ n % w \in 0 .. w - 1
           /\ n = (n \div w) * w + (n % w)
<1>1. n \div w \in Nat /\ n % w \in 0 .. w - 1
      /\ n = w * (n \div w) + (n % w)
    OBVIOUS
<1> QED
    BY <1>1

\* Row and column in rows of w are determined by the number of a place.
LEMMA DivUnique ==
    ASSUME NEW w \in Nat \ {0}, NEW a \in Nat, NEW c \in Nat,
           NEW b \in 0 .. w - 1, NEW d \in 0 .. w - 1,
           a * w + b = c * w + d
    PROVE  a = c /\ b = d
<1> DEFINE p == a * w
           q == c * w
<1>1. p \in Nat /\ q \in Nat
    BY ProductNat
<1>2. a < c => p + w <= q
    BY ProductOrder
<1>3. c < a => q + w <= p
    BY ProductOrder
<1>4. p + b = q + d
    OBVIOUS
<1>5. a = c => p = q
    OBVIOUS
<1> HIDE DEF p, q
<1> QED
    BY <1>1, <1>2, <1>3, <1>4, <1>5

\* The quotient and the remainder of a number given by them.
LEMMA DivOf ==
    ASSUME NEW w \in Nat \ {0}, NEW a \in Nat, NEW b \in 0 .. w - 1
    PROVE  /\ a * w + b \in Nat
           /\ (a * w + b) \div w = a
           /\ (a * w + b) % w = b
<1> DEFINE n == a * w + b
<1>1. n \in Nat
    BY ProductNat
<1> HIDE DEF n
<1>2. n \div w \in Nat /\ n % w \in 0 .. w - 1 /\ n = (n \div w) * w + (n % w)
    BY <1>1, DivFacts
<1>3. a * w + b = (n \div w) * w + (n % w)
    BY <1>2 DEF n
<1>4. a = n \div w /\ b = n % w
    BY <1>2, <1>3, DivUnique
<1> QED
    BY <1>1, <1>4 DEF n

\* CeilDiv rounds up.
LEMMA CeilFacts ==
    ASSUME NEW a \in Nat \ {0}, NEW w \in Nat \ {0}
    PROVE  /\ CeilDiv(a, w) \in Nat \ {0}
           /\ a <= CeilDiv(a, w) * w
           /\ (CeilDiv(a, w) - 1) * w < a
<1> DEFINE n == a + w - 1
           q == n \div w
           p == q * w
<1>1. n \in Nat /\ n >= w
    OBVIOUS
<1>2. q \in Nat /\ n % w \in 0 .. w - 1 /\ n = p + (n % w)
    BY <1>1, DivFacts
<1>3. p \in Nat /\ (q - 1) * w = p - w
    BY <1>2, ProductNat
<1>4. q # 0
    BY <1>1, <1>2
<1>5. CeilDiv(a, w) = q
    BY DEF CeilDiv
<1> HIDE DEF p, q
<1>6. a <= p /\ p - w < a
    BY <1>1, <1>2, <1>3 DEF n
<1> QED
    BY <1>2, <1>3, <1>4, <1>5, <1>6 DEF p

\* Only the quotient rounded up is enough, and not too much.
LEMMA CeilUnique ==
    ASSUME NEW a \in Nat \ {0}, NEW w \in Nat \ {0}, NEW k \in Nat \ {0},
           a <= k * w, (k - 1) * w < a
    PROVE  CeilDiv(a, w) = k
<1> DEFINE m == CeilDiv(a, w)
<1>1. m \in Nat \ {0} /\ a <= m * w /\ (m - 1) * w < a
    BY CeilFacts
<1> HIDE DEF m
<1>2. k - 1 \in Nat /\ m - 1 \in Nat /\ k * w \in Nat /\ m * w \in Nat
      /\ (k - 1) * w \in Nat /\ (m - 1) * w \in Nat
    BY <1>1, ProductNat
<1>3. (k - 1) * w < m * w /\ (m - 1) * w < k * w
    BY <1>1, <1>2
<1>4. k - 1 < m /\ m - 1 < k
    BY <1>1, <1>2, <1>3, ProductOrder
<1> QED
    BY <1>1, <1>4 DEF m

\* How many blocks of a component n samples have, m samples to a group of k
\* blocks: as many groups as of the finest component, the last begun.
LEMMA CeilNested ==
    ASSUME NEW n \in Nat \ {0}, NEW m \in Nat \ {0}, NEW k \in Nat \ {0}
    PROVE  /\ CeilDiv(n * k, m) \in Nat \ {0}
           /\ CeilDiv(n * k, m) <= CeilDiv(n, m) * k
           /\ (CeilDiv(n, m) - 1) * k < CeilDiv(n * k, m)
           /\ CeilDiv(CeilDiv(n * k, m), k) = CeilDiv(n, m)
<1> DEFINE g == CeilDiv(n, m)
           nk == n * k
           b == CeilDiv(nk, m)
<1>1. g \in Nat \ {0} /\ n <= g * m /\ (g - 1) * m < n
    BY CeilFacts
<1>2. nk \in Nat \ {0}
    OBVIOUS
<1> HIDE DEF g
<1>3. b \in Nat \ {0} /\ nk <= b * m /\ (b - 1) * m < nk
  <2> HIDE DEF nk
  <2> QED
      BY <1>2, CeilFacts
<1> HIDE DEF b
<1>4. g * m \in Nat /\ (g - 1) * m \in Nat /\ g - 1 \in Nat /\ b - 1 \in Nat
      /\ g * k \in Nat /\ (g - 1) * k \in Nat /\ b * m \in Nat
    BY <1>1, <1>3, ProductNat
<1>5. nk <= (g * k) * m
  <2>1. n * k <= (g * m) * k
      BY <1>1, <1>4, ProductOrder
  <2>2. (g * m) * k = (g * k) * m
      BY <1>1
  <2> QED
      BY <2>1, <2>2
<1>6. ((g - 1) * k) * m < nk
  <2> DEFINE d == (g - 1) * m
  <2>1. d < n /\ d \in Nat
      BY <1>1, <1>4
  <2>2. ((g - 1) * k) * m = d * k
      BY <1>1
  <2> HIDE DEF d
  <2>3. d * k + k <= n * k /\ d * k \in Nat
      BY <2>1, ProductOrder, ProductNat
  <2> QED
      BY <1>2, <2>2, <2>3
<1>7. b <= g * k
  <2> DEFINE h == g * k
  <2>1. (b - 1) * m < h * m
    <3>1. (b - 1) * m \in Nat /\ h * m \in Nat
        BY <1>4, ProductNat
    <3> QED
        BY <1>2, <1>3, <1>5, <3>1
  <2>2. h \in Nat
      BY <1>4
  <2> HIDE DEF h
  <2>3. b - 1 < h
      BY <1>4, <2>1, <2>2, ProductOrder
  <2> QED
      BY <1>3, <2>2, <2>3 DEF h
<1>8. (g - 1) * k < b
  <2> DEFINE h == (g - 1) * k
  <2>1. h * m < b * m
    <3>1. h * m \in Nat /\ b * m \in Nat
        BY <1>3, <1>4, ProductNat
    <3> QED
        BY <1>2, <1>3, <1>6, <3>1
  <2>2. h \in Nat
      BY <1>4
  <2> HIDE DEF h
  <2>3. h < b
      BY <1>3, <2>1, <2>2, ProductOrder
  <2> QED
      BY <2>3 DEF h
<1>9. CeilDiv(b, k) = g
    BY <1>1, <1>3, <1>7, <1>8, CeilUnique
<1> QED
    BY <1>3, <1>7, <1>8, <1>9 DEF b, g, nk

-----------------------------------------------------------------------------
(* Geometry.                                                               *)

\* MCUs in a row of an interleaved scan.
Cols == CeilDiv(image.width, MaxH * DctSize)

\* A set of sampling factors has a greatest.
LEMMA MaxFactor ==
    ASSUME NEW S \in SUBSET (1 .. 4), S # {}
    PROVE  Max(S) \in S
<1>1. \E x \in S : \A y \in S : x >= y
  <2>1. CASE 4 \in S
      BY <2>1
  <2>2. CASE 4 \notin S /\ 3 \in S
      BY <2>2
  <2>3. CASE 4 \notin S /\ 3 \notin S /\ 2 \in S
      BY <2>3
  <2>4. CASE 4 \notin S /\ 3 \notin S /\ 2 \notin S
    <3>1. PICK x \in S : TRUE
        OBVIOUS
    <3>2. \A y \in S : y = 1
        BY <2>4
    <3> QED
        BY <3>1, <3>2
  <2> QED
      BY <2>1, <2>2, <2>3, <2>4
<1> QED
    BY <1>1 DEF Max

\* A component: its factors, and its size in blocks and in groups of blocks.
Sized(c) ==
    /\ H(c) \in Nat \ {0}
    /\ V(c) \in Nat \ {0}
    /\ Width(c) \in Nat \ {0}
    /\ Height(c) \in Nat \ {0}
    /\ Height(c) <= Rows * V(c)
    /\ (Rows - 1) * V(c) < Height(c)
    /\ Width(c) <= Cols * H(c)
    /\ (Cols - 1) * H(c) < Width(c)
    /\ CeilDiv(Height(c), V(c)) = Rows
    /\ CeilDiv(Width(c), H(c)) = Cols

Geometry ==
    /\ Len(image.comps) \in Nat \ {0}
    /\ Rows \in Nat \ {0}
    /\ Cols \in Nat \ {0}
    /\ \A c \in Comps : Sized(c)

\* Every image has this geometry.
LEMMA GeometryHolds ==
    ASSUME image \in Images
    PROVE  Geometry
<1>1. /\ image.width \in Nat \ {0}
      /\ image.height \in Nat \ {0}
      /\ image.comps \in Seq(Factors) \ {<<>>}
      /\ DctSize \in Nat \ {0}
    BY TranscodeAssumption
<1>2. Len(image.comps) \in Nat \ {0} /\ Comps # {}
  <2> DEFINE cs == image.comps
  <2>1. cs \in Seq(Factors) /\ cs # <<>>
      BY <1>1
  <2> HIDE DEF cs
  <2>2. Len(cs) \in Nat \ {0}
      BY <2>1
  <2>3. 1 \in 1 .. Len(cs)
      BY <2>2
  <2> QED
      BY <2>2, <2>3 DEF cs, Comps
<1>3. \A c \in Comps : H(c) \in 1 .. 4 /\ V(c) \in 1 .. 4
  <2> TAKE c \in Comps
  <2>1. image.comps[c] \in Factors
      BY <1>1 DEF Comps
  <2> QED
      BY <2>1 DEF H, V, Factors
<1>4. MaxH \in 1 .. 4 /\ MaxV \in 1 .. 4
  <2> DEFINE hs == {H(c) : c \in Comps}
             vs == {V(c) : c \in Comps}
  <2>1. hs \in SUBSET (1 .. 4) /\ vs \in SUBSET (1 .. 4) /\ hs # {} /\ vs # {}
      BY <1>2, <1>3
  <2>2. MaxH = Max(hs) /\ MaxV = Max(vs)
      BY DEF MaxH, MaxV
  <2> HIDE DEF hs, vs
  <2>3. Max(hs) \in hs /\ Max(vs) \in vs
      BY <2>1, MaxFactor
  <2> QED
      BY <2>1, <2>2, <2>3
<1> DEFINE mh == MaxH * DctSize
           mv == MaxV * DctSize
<1>5. mh \in Nat \ {0} /\ mv \in Nat \ {0}
    BY <1>1, <1>4
<1>6. Rows = CeilDiv(image.height, mv) /\ Cols = CeilDiv(image.width, mh)
    BY DEF Rows, Cols
<1>7. \A c \in Comps : /\ Width(c) = CeilDiv(image.width * H(c), mh)
                       /\ Height(c) = CeilDiv(image.height * V(c), mv)
    BY DEF Width, Height
<1> HIDE DEF mh, mv
<1>8. Rows \in Nat \ {0} /\ Cols \in Nat \ {0}
    BY <1>1, <1>5, <1>6, CeilFacts
<1>9. ASSUME NEW c \in Comps PROVE Sized(c)
  <2>1. H(c) \in Nat \ {0} /\ V(c) \in Nat \ {0}
      BY <1>3
  <2> DEFINE w == CeilDiv(image.width * H(c), mh)
             h == CeilDiv(image.height * V(c), mv)
  <2>2. /\ w \in Nat \ {0}
        /\ w <= CeilDiv(image.width, mh) * H(c)
        /\ (CeilDiv(image.width, mh) - 1) * H(c) < w
        /\ CeilDiv(w, H(c)) = CeilDiv(image.width, mh)
      BY <1>1, <1>5, <2>1, CeilNested
  <2>3. /\ h \in Nat \ {0}
        /\ h <= CeilDiv(image.height, mv) * V(c)
        /\ (CeilDiv(image.height, mv) - 1) * V(c) < h
        /\ CeilDiv(h, V(c)) = CeilDiv(image.height, mv)
      BY <1>1, <1>5, <2>1, CeilNested
  <2>4. w = Width(c) /\ h = Height(c)
      BY <1>7
  <2> HIDE DEF w, h
  <2> QED
      BY <1>6, <2>1, <2>2, <2>3, <2>4 DEF Sized
<1> QED
    BY <1>2, <1>8, <1>9 DEF Geometry

\* What the last group of MCUs has of a component.
LEMMA RemainderIs ==
    ASSUME NEW n \in Nat \ {0}, NEW k \in Nat \ {0}, NEW g \in Nat \ {0},
           n <= g * k, (g - 1) * k < n
    PROVE  Remainder(n, k) = n - (g - 1) * k
<1> DEFINE b == (g - 1) * k
           r == n - b
<1>1. b \in Nat /\ g * k = b + k /\ g - 1 \in Nat
    BY ProductNat
<1> HIDE DEF b
<1>2. r \in 1 .. k /\ n = b + r
    BY <1>1 DEF b
<1>3. CASE r = k
  <2>1. n = g * k + 0 /\ 0 \in 0 .. k - 1
      BY <1>1, <1>2, <1>3
  <2>2. n % k = 0
      BY <2>1, DivOf
  <2> QED
      BY <1>3, <2>2 DEF Remainder, b
<1>4. CASE r # k
  <2>1. r \in 0 .. k - 1
      BY <1>2, <1>4
  <2>2. n = (g - 1) * k + r
      BY <1>2 DEF b
  <2> DEFINE a == g - 1
  <2>3. a \in Nat /\ n = a * k + r
      BY <1>1, <2>2
  <2> HIDE DEF a, r
  <2>4. n % k = r
      BY <2>1, <2>3, DivOf
  <2> QED
      BY <1>2, <2>4 DEF Remainder, b, r
<1> QED
    BY <1>3, <1>4

LEMMA RemainderOne ==
    ASSUME NEW n \in Nat
    PROVE  Remainder(n, 1) = 1
BY DEF Remainder

\* The blocks in the last row and in the last column of MCUs of a component.
LEMMA LastFacts ==
    ASSUME image \in Images, NEW c \in Comps
    PROVE  /\ LastRow(c) = Height(c) - (Rows - 1) * V(c)
           /\ Remainder(Width(c), H(c)) = Width(c) - (Cols - 1) * H(c)
<1>1. Geometry
    BY GeometryHolds
<1>2. LastRow(c) = Height(c) - (Rows - 1) * V(c)
    BY <1>1, RemainderIs DEF LastRow, Geometry, Sized
<1>3. Remainder(Width(c), H(c)) = Width(c) - (Cols - 1) * H(c)
    BY <1>1, RemainderIs DEF Geometry, Sized
<1> QED
    BY <1>2, <1>3

\* Places are pairs of numbers within the padded sizes.
LEMMA PlaceFacts ==
    ASSUME image \in Images
    PROVE  /\ \A c \in Comps :
                 \A x \in 0 .. Rows * V(c) - 1, y \in 0 .. Cols * H(c) - 1 :
                    <<c, x, y>> \in Places
           /\ \A p \in Places :
                 /\ p = <<p[1], p[2], p[3]>>
                 /\ p[1] \in Comps
                 /\ p[2] \in 0 .. Rows * V(p[1]) - 1
                 /\ p[3] \in 0 .. Cols * H(p[1]) - 1
<1>1. \A c \in Comps : CeilDiv(Width(c), H(c)) = Cols
    BY GeometryHolds DEF Geometry, Sized
<1> DEFINE Of(c) == {c} \X (0 .. Rows * V(c) - 1) \X (0 .. Cols * H(c) - 1)
<1>2. Places = UNION {Of(c) : c \in Comps}
    BY <1>1 DEF Places
<1>3. \A p : p \in Places <=> \E c \in Comps : p \in Of(c)
    BY <1>2
<1> QED
    BY <1>3

\* The place of a number in raster order.
LEMMA RasterAt ==
    ASSUME NEW c, NEW w \in Nat \ {0}, NEW n \in Nat \ {0}
    PROVE  /\ Raster(c, w, n)[1] = c
           /\ Raster(c, w, n)[2] \in Nat
           /\ Raster(c, w, n)[3] \in 0 .. w - 1
           /\ n = Raster(c, w, n)[2] * w + Raster(c, w, n)[3] + 1
           /\ Raster(c, w, n) = <<c, Raster(c, w, n)[2], Raster(c, w, n)[3]>>
<1> DEFINE k == n - 1
<1>1. k \in Nat
    OBVIOUS
<1>2. Raster(c, w, n) = <<c, k \div w, k % w>>
    BY DEF Raster
<1>3. n = k + 1
    OBVIOUS
<1> HIDE DEF k
<1>4. k \div w \in Nat /\ k % w \in 0 .. w - 1 /\ k = (k \div w) * w + (k % w)
    BY <1>1, DivFacts
<1> QED
    BY <1>2, <1>3, <1>4

\* Two numbers are of two places.
LEMMA RasterOnce ==
    ASSUME NEW c, NEW w \in Nat \ {0}, NEW n \in Nat \ {0}, NEW m \in Nat \ {0},
           Raster(c, w, n) = Raster(c, w, m)
    PROVE  n = m
<1>1. n = Raster(c, w, n)[2] * w + Raster(c, w, n)[3] + 1
    BY RasterAt
<1>2. m = Raster(c, w, m)[2] * w + Raster(c, w, m)[3] + 1
    BY RasterAt
<1> QED
    BY <1>1, <1>2

\* The number of a place.
LEMMA RasterOf ==
    ASSUME NEW c, NEW w \in Nat \ {0}, NEW x \in Nat, NEW y \in 0 .. w - 1
    PROVE  /\ x * w + y + 1 \in Nat \ {0}
           /\ Raster(c, w, x * w + y + 1) = <<c, x, y>>
<1> DEFINE k == x * w + y
<1>1. k \in Nat /\ k \div w = x /\ k % w = y
    BY DivOf
<1> HIDE DEF k
<1>2. k + 1 \in Nat \ {0} /\ (k + 1) - 1 = k
    BY <1>1
<1>3. Raster(c, w, k + 1) = <<c, x, y>>
    BY <1>1, <1>2 DEF Raster
<1> QED
    BY <1>2, <1>3 DEF k

-----------------------------------------------------------------------------
(* Sequences of sequences.                                                 *)

\* Where each sequence of ss starts in all of them together.
IsOffsets(off, ss) ==
    /\ off \in [0 .. Len(ss) -> Nat]
    /\ off[0] = 0
    /\ \A k \in 1 .. Len(ss) : off[k] = off[k - 1] + Len(ss[k])

\* A sequence of sequences has offsets.
LEMMA OffsetsExist ==
    ASSUME NEW S, NEW ss \in Seq(Seq(S))
    PROVE  \E off : IsOffsets(off, ss)
<1> DEFINE n == Len(ss)
           step == [k \in 1 .. n |-> [x \in Nat |-> x + Len(ss[k])]]
<1>1. n \in Nat /\ \A k \in 1 .. n : Len(ss[k]) \in Nat
    OBVIOUS
<1>2. step \in [1 .. n -> [Nat -> Nat]]
    BY <1>1
<1>3. \A k \in 1 .. n, x \in Nat : step[k][x] = x + Len(ss[k])
    OBVIOUS
<1> HIDE DEF step, n
<1>4. PICK off : IsRecursion(off, n, Nat, 0, step)
    BY <1>1, <1>2, SegmentRecursion
<1>5. \A k \in 1 .. n : off[k] = off[k - 1] + Len(ss[k])
  <2> TAKE k \in 1 .. n
  <2>1. k - 1 \in 0 .. n
      BY <1>1
  <2>2. off[k - 1] \in Nat
      BY <1>4, <2>1 DEF IsRecursion
  <2> QED
      BY <1>3, <1>4, <2>2 DEF IsRecursion
<1>6. IsOffsets(off, ss)
    BY <1>4, <1>5 DEF IsRecursion, IsOffsets, n
<1> QED
    BY <1>6

\* Every number up to the last offset is in one of the sequences.
LEMMA OffsetsCover ==
    ASSUME NEW S, NEW ss \in Seq(Seq(S)), NEW off, IsOffsets(off, ss),
           NEW j \in 1 .. off[Len(ss)]
    PROVE  \E k \in 1 .. Len(ss) : j - off[k - 1] \in 1 .. Len(ss[k])
<1> DEFINE n == Len(ss)
           In(k) == j - off[k - 1] \in 1 .. Len(ss[k])
           T == {i \in 0 .. n : j <= off[i] => \E k \in 1 .. n : In(k)}
<1>1. n \in Nat /\ \A i \in 1 .. n : Len(ss[i]) \in Nat
    OBVIOUS
<1>2. /\ \A i \in 0 .. n : off[i] \in Nat
      /\ off[0] = 0
      /\ \A i \in 1 .. n : off[i] = off[i - 1] + Len(ss[i])
    BY DEF IsOffsets
<1>3. j \in Nat \ {0} /\ j <= off[n]
    BY <1>1, <1>2
<1> HIDE DEF n
<1>4. 0 \in T
    BY <1>1, <1>2, <1>3
<1>5. ASSUME NEW i \in 0 .. n - 1, i \in T PROVE i + 1 \in T
  <2>1. i + 1 \in 1 .. n /\ i + 1 \in 0 .. n /\ (i + 1) - 1 = i /\ i \in 0 .. n
      BY <1>1
  <2>2. off[i + 1] = off[i] + Len(ss[i + 1]) /\ off[i] \in Nat
        /\ Len(ss[i + 1]) \in Nat
      BY <1>1, <1>2, <2>1
  <2>3. ASSUME j <= off[i + 1], ~ (j <= off[i]) PROVE In(i + 1)
      BY <1>3, <2>1, <2>2, <2>3
  <2> HIDE DEF In
  <2> QED
      BY <1>5, <2>1, <2>3
<1> HIDE DEF T
<1>6. \A i \in 0 .. n : i \in T
    BY <1>1, <1>4, <1>5, SegmentInduction, Zenon
<1>7. n \in T
    BY <1>1, <1>6
<1> QED
    BY <1>3, <1>7 DEF T, n

\* FlattenSeq puts each sequence of ss where its offset says.
LEMMA FlattenFacts ==
    ASSUME NEW S, NEW ss \in Seq(Seq(S)), ss # <<>>, NEW off, IsOffsets(off, ss)
    PROVE  /\ FlattenSeq(ss) \in Seq(S)
           /\ Len(FlattenSeq(ss)) = off[Len(ss)]
           /\ \A k \in 1 .. Len(ss) : \A q \in 1 .. Len(ss[k]) :
                 /\ off[k - 1] + q \in 1 .. off[Len(ss)]
                 /\ FlattenSeq(ss)[off[k - 1] + q] = ss[k][q]
<1> DEFINE n == Len(ss)
           Sq == Seq(S)
           step == [k \in 1 .. n |-> [v \in Sq |-> IF k = 1 THEN ss[k] ELSE v \o ss[k]]]
           Solves(g) == g = [k \in 1 .. n |-> IF k = 1 THEN ss[k] ELSE g[k - 1] \o ss[k]]
           f == CHOOSE g : Solves(g)
<1>1. n \in Nat \ {0} /\ <<>> \in Sq /\ (\A k \in 1 .. n : ss[k] \in Sq /\ Len(ss[k]) \in Nat)
  <2>1. n \in Nat /\ n # 0
      BY EmptySeq
  <2> QED
      BY <2>1
<1>2. step \in [1 .. n -> [Sq -> Sq]]
    BY <1>1
<1>3. \A k \in 1 .. n, v \in Sq :
         step[k][v] = IF k = 1 THEN ss[k] ELSE v \o ss[k]
    OBVIOUS
<1>4. FlattenSeq(ss) = f[n]
    BY <1>1 DEF FlattenSeq
<1> HIDE DEF step, n, Sq
<1>5. PICK g : IsRecursion(g, n, Sq, <<>>, step)
    BY <1>1, <1>2, SegmentRecursion
<1>6. Solves(f)
  <2> DEFINE h == [k \in 1 .. n |-> g[k]]
  <2>1. /\ \A k \in 0 .. n : g[k] \in Sq
        /\ \A k \in 1 .. n : g[k] = step[k][g[k - 1]]
      BY <1>5 DEF IsRecursion
  <2>2. \A k \in 1 .. n : h[k] = IF k = 1 THEN ss[k] ELSE h[k - 1] \o ss[k]
    <3> TAKE k \in 1 .. n
    <3>1. k - 1 \in 0 .. n /\ (k # 1 => k - 1 \in 1 .. n)
        BY <1>1
    <3>2. h[k] = g[k] /\ (k # 1 => h[k - 1] = g[k - 1])
        BY <3>1
    <3>3. g[k] = IF k = 1 THEN ss[k] ELSE g[k - 1] \o ss[k]
        BY <1>3, <2>1, <3>1
    <3> QED
        BY <3>2, <3>3
  <2>3. Solves(h)
      BY <2>2, Zenon
  <2> HIDE DEF h, Solves
  <2> QED
      BY <2>3, Zenon
<1> HIDE DEF f
<1>7. \A k \in 1 .. n : f[k] = IF k = 1 THEN ss[k] ELSE f[k - 1] \o ss[k]
    BY <1>6, Zenon
<1> HIDE DEF Solves
<1>8. /\ \A i \in 0 .. n : off[i] \in Nat
      /\ off[0] = 0
      /\ \A i \in 1 .. n : off[i] = off[i - 1] + Len(ss[i])
    BY DEF IsOffsets, n
<1> DEFINE Put(i, k) == \A q \in 1 .. Len(ss[k]) :
                           /\ off[k - 1] + q \in 1 .. off[i]
                           /\ f[i][off[k - 1] + q] = ss[k][q]
           Good(i) == /\ f[i] \in Sq
                      /\ Len(f[i]) = off[i]
                      /\ \A k \in 1 .. i : Put(i, k)
           T == {i \in 0 .. n : i # 0 => Good(i)}
<1>9. 0 \in T
    BY <1>1
<1>10. ASSUME NEW i \in 0 .. n - 1, i \in T PROVE i + 1 \in T
  <2>1. i + 1 \in 1 .. n /\ i + 1 \in 0 .. n /\ (i + 1) - 1 = i /\ i \in 0 .. n /\ i \in Nat
      BY <1>1
  <2>2. off[i + 1] = off[i] + Len(ss[i + 1]) /\ off[i] \in Nat
        /\ Len(ss[i + 1]) \in Nat /\ ss[i + 1] \in Sq /\ off[i + 1] \in Nat
      BY <1>1, <1>8, <2>1
  <2>3. CASE i = 0
    <3>1. f[i + 1] = ss[i + 1]
        BY <1>7, <2>1, <2>3
    <3>2. off[i] = 0 /\ off[i + 1] = Len(ss[i + 1])
        BY <1>8, <2>2, <2>3
    <3>3. Put(i + 1, i + 1)
        BY <2>1, <2>2, <3>1, <3>2
    <3>4. \A k \in 1 .. i + 1 : k = i + 1
        BY <2>3
    <3>5. Good(i + 1)
      <4> HIDE DEF Put
      <4> QED
          BY <2>2, <3>1, <3>2, <3>3, <3>4
    <3> QED
        BY <2>1, <3>5
  <2>4. CASE i # 0
    <3>1. f[i + 1] = f[i] \o ss[i + 1]
      <4>1. i + 1 # 1
          BY <2>1, <2>4
      <4> QED
          BY <1>7, <2>1, <4>1
    <3>2. f[i] \in Sq /\ Len(f[i]) = off[i] /\ \A k \in 1 .. i : Put(i, k)
        BY <1>10, <2>4
    <3>3. /\ f[i + 1] \in Sq
          /\ Len(f[i + 1]) = off[i + 1]
          /\ \A j \in 1 .. off[i + 1] : f[i + 1][j] =
                IF j <= off[i] THEN f[i][j] ELSE ss[i + 1][j - off[i]]
      <4> DEFINE a == f[i]
                 b == ss[i + 1]
      <4>1. a \in Seq(S) /\ b \in Seq(S)
          BY <2>2, <3>2 DEF Sq
      <4>2. Len(a) = off[i] /\ Len(b) = Len(ss[i + 1]) /\ f[i + 1] = a \o b
          BY <3>1, <3>2
      <4> HIDE DEF a, b
      <4>3. /\ a \o b \in Seq(S)
            /\ Len(a \o b) = Len(a) + Len(b)
            /\ \A j \in 1 .. Len(a) + Len(b) : (a \o b)[j] =
                     IF j <= Len(a) THEN a[j] ELSE b[j - Len(a)]
          BY <4>1, ConcatProperties
      <4> QED
          BY <2>2, <4>2, <4>3 DEF Sq, a, b
    <3>4. Put(i + 1, i + 1)
      <4> TAKE q \in 1 .. Len(ss[i + 1])
      <4> HIDE DEF Put
      <4>1. PICK a, b : a = off[i] /\ b = Len(ss[i + 1])
          OBVIOUS
      <4>2. a \in Nat /\ b \in Nat /\ off[i + 1] = a + b /\ q \in 1 .. b
          BY <2>2, <4>1
      <4>3. a + q \in 1 .. a + b /\ ~ (a + q <= a) /\ (a + q) - a = q
          BY <4>2
      <4> QED
          BY <2>1, <3>3, <4>1, <4>2, <4>3
    <3>5. ASSUME NEW k \in 1 .. i PROVE Put(i + 1, k)
      <4> TAKE q \in 1 .. Len(ss[k])
      <4>1. /\ off[k - 1] + q \in 1 .. off[i]
            /\ f[i][off[k - 1] + q] = ss[k][q]
          BY <3>2
      <4> DEFINE j == off[k - 1] + q
      <4> HIDE DEF j
      <4>2. j \in 1 .. off[i + 1] /\ j <= off[i]
        <5>1. j \in 1 .. off[i]
            BY <4>1 DEF j
        <5>2. off[i] <= off[i + 1] /\ off[i] \in Nat /\ off[i + 1] \in Nat
            BY <2>2
        <5> QED
            BY <5>1, <5>2
      <4> QED
          BY <3>3, <4>1, <4>2 DEF j
    <3>6. \A k \in 1 .. i + 1 : k = i + 1 \/ k \in 1 .. i
        BY <2>1
    <3>7. Good(i + 1)
      <4> HIDE DEF Put
      <4> QED
          BY <3>3, <3>4, <3>5, <3>6
    <3> QED
        BY <2>1, <3>7
  <2> QED
      BY <2>3, <2>4
<1> HIDE DEF T, Good
<1>11. \A i \in 0 .. n : i \in T
    BY <1>1, <1>9, <1>10, SegmentInduction, Zenon
<1>12. Good(n)
    BY <1>1, <1>11 DEF T
<1> QED
    BY <1>4, <1>12 DEF Good, n, Sq

-----------------------------------------------------------------------------
(* Scans.                                                                  *)

\* A scan of one component, or of all, if there are several.
IsScan(s) ==
    \/ \E c \in Comps : s = <<c>>
    \/ Len(image.comps) > 1 /\ s = [c \in Comps |-> c]

\* The counters of reader and writer in a scan.
CountersOK(s) ==
    /\ row \in 0 .. Rows - 1
    /\ vert \in 0 .. McuRows(s) - 1
    /\ ctr \in 0 .. McusPerRow(s) - 1

\* The blocks of an MCU, seen from its corner.
Unit(s) == [k \in 1 .. Len(s) |->
              [n \in 1 .. H(s[k]) * V(s[k]) |-> Raster(s[k], H(s[k]), n)]]

\* Blocks in an MCU, the number of the MCU that is next, and of all.
McuLen(s) == IF Single(s) THEN 1 ELSE Len(FlattenSeq(Unit(s)))
Index(s) == IF Single(s) THEN (row * V(s[1]) + vert) * Width(s[1]) + ctr
                         ELSE row * Cols + ctr
AllMcus(s) == IF Single(s) THEN Height(s[1]) * Width(s[1]) ELSE Rows * Cols

\* The MCU that is next is the next part of the order of the standard.
McuFits(s) ==
    /\ McuLen(s) \in Nat \ {0}
    /\ DOMAIN McuPlaces(s) = 1 .. McuLen(s)
    /\ Len(McuPlaces(s)) = McuLen(s)
    /\ Index(s) \in 0 .. AllMcus(s) - 1
    /\ \A j \in 1 .. McuLen(s) :
          McuPlaces(s)[j] = ScanOrder(s)[Index(s) * McuLen(s) + j]

\* The order of the standard has every block of a component once in its place.
OrderFits(s) ==
    /\ McuLen(s) \in Nat \ {0}
    /\ AllMcus(s) \in Nat \ {0}
    /\ Len(ScanOrder(s)) = AllMcus(s) * McuLen(s)
    /\ ScanOrder(s) \in Seq(Places)
    /\ \A p \in Places : InImage(p) /\ (\E k \in 1 .. Len(s) : s[k] = p[1]) =>
          \E n \in 1 .. Len(ScanOrder(s)) : ScanOrder(s)[n] = p

\* A scan of one component has its blocks row by row, those of the image.
LEMMA SingleOrder ==
    ASSUME image \in Images, NEW c \in Comps
    PROVE  OrderFits(<<c>>)
<1> DEFINE w == Width(c)
           h == Height(c)
           order == ScanOrder(<<c>>)
<1>1. Geometry /\ Sized(c)
    BY GeometryHolds DEF Geometry
<1>2. w \in Nat \ {0} /\ h \in Nat \ {0} /\ h <= Rows * V(c) /\ w <= Cols * H(c)
      /\ Rows * V(c) \in Nat /\ Cols * H(c) \in Nat
    BY <1>1, ProductNat DEF Sized, Geometry
<1>3. Single(<<c>>) /\ McuLen(<<c>>) = 1 /\ AllMcus(<<c>>) = h * w
    BY DEF Single, McuLen, AllMcus
<1>4. h * w \in Nat \ {0}
    BY <1>2
<1>5. order = [n \in 1 .. h * w |-> Raster(c, w, n)]
    BY <1>3 DEF ScanOrder
<1> HIDE DEF w, h, order
<1>6. Len(order) = h * w /\ DOMAIN order = 1 .. h * w
  <2> DEFINE m == h * w
  <2>1. m \in Nat
      BY <1>4
  <2> HIDE DEF m
  <2>2. order = [n \in 1 .. m |-> Raster(c, w, n)]
      BY <1>5 DEF m
  <2>3. Len(order) = m
      BY <2>1, <2>2
  <2> QED
      BY <2>2, <2>3 DEF m
<1>7. ASSUME NEW n \in 1 .. h * w PROVE order[n] \in Places
  <2> DEFINE x == Raster(c, w, n)[2]
             y == Raster(c, w, n)[3]
  <2>1. n \in Nat \ {0} /\ n <= h * w
      BY <1>4
  <2>2. x \in Nat /\ y \in 0 .. w - 1 /\ n = x * w + y + 1
        /\ Raster(c, w, n) = <<c, x, y>>
      BY <1>2, <2>1, RasterAt
  <2>3. order[n] = <<c, x, y>>
      BY <1>5, <2>2
  <2> HIDE DEF x, y
  <2>4. x * w \in Nat /\ x * w < h * w
      BY <1>2, <1>4, <2>1, <2>2, ProductNat
  <2>5. x < h
      BY <1>2, <2>2, <2>4, ProductOrder
  <2>6. x \in 0 .. Rows * V(c) - 1 /\ y \in 0 .. Cols * H(c) - 1
      BY <1>2, <2>2, <2>5
  <2> QED
      BY <2>3, <2>6, PlaceFacts
<1>8. order \in Seq(Places)
  <2> DEFINE m == h * w
  <2>1. m \in Nat
      BY <1>4
  <2> HIDE DEF m
  <2>2. order = [n \in 1 .. m |-> Raster(c, w, n)] /\ \A n \in 1 .. m : order[n] \in Places
      BY <1>5, <1>7 DEF m
  <2> QED
      BY <2>1, <2>2
<1>9. ASSUME NEW p \in Places, InImage(p), p[1] = c
      PROVE  \E n \in 1 .. Len(order) : order[n] = p
  <2> DEFINE x == p[2]
             y == p[3]
             n == x * w + y + 1
  <2>1. x \in Nat /\ y \in Nat /\ p = <<c, x, y>>
    <3>1. p = <<p[1], p[2], p[3]>>
          /\ p[2] \in 0 .. Rows * V(c) - 1 /\ p[3] \in 0 .. Cols * H(c) - 1
        BY <1>9, PlaceFacts
    <3> QED
        BY <1>2, <1>9, <3>1
  <2>2. x < h /\ y < w
      BY <1>9 DEF InImage, h, w
  <2> HIDE DEF x, y
  <2>3. n \in Nat \ {0} /\ Raster(c, w, n) = <<c, x, y>>
    <3>1. y \in 0 .. w - 1
        BY <1>2, <2>1, <2>2
    <3>2. w \in Nat \ {0} /\ x \in Nat
        BY <1>2, <2>1
    <3> HIDE DEF w
    <3>3. /\ x * w + y + 1 \in Nat \ {0}
          /\ Raster(c, w, x * w + y + 1) = <<c, x, y>>
        BY <3>1, <3>2, RasterOf
    <3> QED
        BY <3>3
  <2>4. x * w + w <= h * w /\ x * w \in Nat
      BY <1>2, <2>1, <2>2, ProductOrder, ProductNat
  <2>5. n <= h * w
      BY <1>2, <1>4, <2>1, <2>2, <2>4
  <2> HIDE DEF n
  <2>6. n \in 1 .. h * w
      BY <1>4, <2>3, <2>5
  <2> QED
      BY <1>5, <1>6, <2>1, <2>3, <2>6
<1>10. \A k \in 1 .. Len(<<c>>) : <<c>>[k] = c
    OBVIOUS
<1> QED
  <2>1. \A p \in Places : InImage(p) /\ (\E k \in 1 .. Len(<<c>>) : <<c>>[k] = p[1]) =>
          \E n \in 1 .. Len(order) : order[n] = p
      BY <1>9, <1>10
  <2>2. Len(order) = AllMcus(<<c>>) * McuLen(<<c>>)
      BY <1>3, <1>4, <1>6
  <2>3. McuLen(<<c>>) \in Nat \ {0} /\ AllMcus(<<c>>) \in Nat \ {0}
      BY <1>3, <1>4
  <2> QED
      BY <1>8, <2>1, <2>2, <2>3 DEF OrderFits, order

\* Rows of a component the last group has.
LEMMA LineInImage ==
    ASSUME image \in Images, NEW c \in Comps, CountersOK(<<c>>)
    PROVE  /\ row \in Nat /\ vert \in Nat /\ row * V(c) \in Nat
           /\ row * V(c) + vert < Height(c)
           /\ row < Rows - 1 => McuRows(<<c>>) = V(c)
           /\ row = Rows - 1 => McuRows(<<c>>) = Height(c) - (Rows - 1) * V(c)
<1>1. Geometry /\ Sized(c)
    BY GeometryHolds DEF Geometry
<1>2. row \in 0 .. Rows - 1 /\ vert \in 0 .. McuRows(<<c>>) - 1
    BY DEF CountersOK
<1>3. Single(<<c>>) /\ <<c>>[1] = c
    BY DEF Single
<1>4. row < Rows - 1 => McuRows(<<c>>) = V(c)
  <2>1. row < Rows - 1 => row # Rows - 1
      BY <1>1, <1>2 DEF Geometry
  <2> QED
      BY <1>3, <2>1 DEF McuRows
<1>5. row = Rows - 1 => McuRows(<<c>>) = Height(c) - (Rows - 1) * V(c)
    BY <1>3, LastFacts DEF McuRows
<1> DEFINE last == (Rows - 1) * V(c)
           this == row * V(c)
<1>6. row \in Nat /\ Rows \in Nat \ {0} /\ V(c) \in Nat \ {0} /\ Height(c) \in Nat
    BY <1>1, <1>2 DEF Geometry, Sized
<1>7. last \in Nat /\ this \in Nat /\ last < Height(c)
    BY <1>1, <1>6, ProductNat DEF Sized
<1>8. row < Rows - 1 => this + V(c) <= last
    BY <1>6, ProductOrder
<1>9. row = Rows - 1 => this = last
    OBVIOUS
<1>10. McuRows(<<c>>) \in Nat
    BY <1>2, <1>4, <1>5, <1>6, <1>7
<1> HIDE DEF last, this
<1>11. this + vert < Height(c)
  <2>1. CASE row < Rows - 1
      BY <1>2, <1>4, <1>6, <1>7, <1>8, <2>1
  <2>2. CASE row = Rows - 1
    <3>1. McuRows(<<c>>) = Height(c) - last
        BY <1>5, <2>2 DEF last
    <3> QED
        BY <1>2, <1>6, <1>7, <1>9, <2>2, <3>1
  <2> QED
      BY <1>2, <1>6, <2>1, <2>2
<1> QED
    BY <1>2, <1>4, <1>5, <1>6, <1>7, <1>10, <1>11 DEF last, this

\* The MCU of a scan of one component is the block the counters are at.
LEMMA SingleMcu ==
    ASSUME image \in Images, NEW c \in Comps, CountersOK(<<c>>)
    PROVE  McuFits(<<c>>)
<1> DEFINE s == <<c>>
           w == Width(c)
           h == Height(c)
           line == row * V(c) + vert
           place == <<c, line, ctr>>
<1>1. Geometry /\ Sized(c)
    BY GeometryHolds DEF Geometry
<1>2. w \in Nat \ {0} /\ h \in Nat \ {0}
    BY <1>1 DEF Sized
<1>3. Single(s) /\ McuLen(s) = 1 /\ AllMcus(s) = h * w /\ s[1] = c /\ Len(s) = 1
      /\ Index(s) = line * w + ctr /\ McusPerRow(s) = w
    BY DEF Single, McuLen, AllMcus, Index, McusPerRow
<1>4. line \in Nat /\ line < h
    BY LineInImage
<1>5. ctr \in 0 .. w - 1
    BY <1>3 DEF CountersOK
<1>6. McuPlaces(s) = <<place>>
  <2>1. McuWidth(s, c) = 1 /\ McuHeight(s, c) = 1
      BY <1>3 DEF McuWidth, McuHeight
  <2>2. Raster(c, 1, 1)[2] = 0 /\ Raster(c, 1, 1)[3] = 0
    <3>1. 0 * 1 + 0 + 1 = 1
        OBVIOUS
    <3>2. Raster(c, 1, 0 * 1 + 0 + 1) = <<c, 0, 0>>
      <4>1. 0 \in Nat /\ 0 \in 0 .. 1 - 1 /\ 1 \in Nat \ {0}
          OBVIOUS
      <4> QED
          BY <4>1, RasterOf
    <3>3. Raster(c, 1, 1) = <<c, 0, 0>>
        BY <3>1, <3>2
    <3> QED
        BY <3>3
  <2> DEFINE part == McuPart(s, c)
  <2>3. part = [n \in 1 .. 1 |-> <<c, row * V(c) + vert + Raster(c, 1, n)[2],
                                  ctr * 1 + Raster(c, 1, n)[3]>>]
      BY <2>1 DEF McuPart
  <2>4. DOMAIN part = 1 .. 1 /\ part[1] = place
    <3>1. line + 0 = line /\ ctr * 1 + 0 = ctr
        BY <1>4, <1>5
    <3> QED
        BY <2>2, <2>3, <3>1
  <2> HIDE DEF part, place
  <2>5. part = <<place>>
      BY <2>3, <2>4
  <2> DEFINE ss == <<part>>
             S == {place}
  <2>6. [k \in 1 .. Len(s) |-> McuPart(s, s[k])] = ss
      BY <1>3 DEF part
  <2>7. McuPlaces(s) = FlattenSeq(ss)
      BY <2>6 DEF McuPlaces
  <2>8. ss \in Seq(Seq(S)) /\ ss # <<>> /\ Len(ss) = 1 /\ ss[1] = part /\ Len(part) = 1
      BY <2>5
  <2> HIDE DEF ss, S
  <2>9. PICK off : IsOffsets(off, ss)
      BY <2>8, OffsetsExist
  <2>10. off[0] = 0 /\ off[1] = 1
    <3>1. off[0] = 0 /\ \A k \in 1 .. 1 : off[k] = off[k - 1] + Len(ss[k])
        BY <2>8, <2>9 DEF IsOffsets
    <3>2. off[1] = off[1 - 1] + Len(ss[1])
        BY <3>1
    <3>3. 1 - 1 = 0 /\ 0 + 1 = 1
        OBVIOUS
    <3>4. Len(ss[1]) = 1
        BY <2>8
    <3> QED
        BY <3>1, <3>2, <3>3, <3>4
  <2>11. /\ FlattenSeq(ss) \in Seq(S)
         /\ Len(FlattenSeq(ss)) = off[Len(ss)]
         /\ \A k \in 1 .. Len(ss) : \A q \in 1 .. Len(ss[k]) :
                 /\ off[k - 1] + q \in 1 .. off[Len(ss)]
                 /\ FlattenSeq(ss)[off[k - 1] + q] = ss[k][q]
      BY <2>8, <2>9, FlattenFacts
  <2>12. FlattenSeq(ss)[off[1 - 1] + 1] = ss[1][1]
      BY <2>8, <2>11
  <2>13. FlattenSeq(ss)[1] = place
      BY <2>4, <2>8, <2>10, <2>12
  <2> QED
      BY <2>7, <2>8, <2>10, <2>11, <2>13
<1>7. Index(s) \in 0 .. AllMcus(s) - 1
  <2>1. line * w \in Nat /\ h * w \in Nat /\ line * w + w <= h * w
      BY <1>2, <1>4, ProductNat, ProductOrder
  <2> QED
      BY <1>2, <1>3, <1>5, <2>1
<1>8. ScanOrder(s)[Index(s) * 1 + 1] = place
  <2>1. ScanOrder(s) = [n \in 1 .. h * w |-> Raster(c, w, n)]
      BY <1>3 DEF ScanOrder
  <2>2. line * w + ctr + 1 \in 1 .. h * w
      BY <1>2, <1>3, <1>7
  <2>3. Raster(c, w, line * w + ctr + 1) = place
    <3> HIDE DEF w, line
    <3>1. w \in Nat \ {0} /\ line \in Nat /\ ctr \in 0 .. w - 1
        BY <1>2, <1>4, <1>5
    <3>2. Raster(c, w, line * w + ctr + 1) = <<c, line, ctr>>
        BY <3>1, RasterOf, Zenon
    <3> QED
        BY <3>2
  <2>4. Index(s) * 1 + 1 = line * w + ctr + 1
      BY <1>3, <1>7
  <2> QED
      BY <2>1, <2>2, <2>3, <2>4
<1> HIDE DEF s, place
<1>9. \A j \in 1 .. McuLen(s) : McuPlaces(s)[j] = ScanOrder(s)[Index(s) * McuLen(s) + j]
    BY <1>3, <1>6, <1>8
<1>10. DOMAIN McuPlaces(s) = 1 .. McuLen(s) /\ Len(McuPlaces(s)) = McuLen(s)
       /\ McuLen(s) \in Nat \ {0}
    BY <1>3, <1>6
<1> QED
    BY <1>7, <1>9, <1>10 DEF McuFits, s

\* The blocks of an MCU of several components: block q of component c is
\* number off[c - 1] + q, both of the unit and of the MCU.
UnitFits(s, off) ==
    /\ off \in [0 .. Len(s) -> Nat]
    /\ McuLen(s) \in Nat \ {0}
    /\ Len(FlattenSeq(Unit(s))) = McuLen(s)
    /\ DOMAIN McuPlaces(s) = 1 .. McuLen(s)
    /\ Len(McuPlaces(s)) = McuLen(s)
    /\ \A c \in Comps : \A q \in 1 .. H(c) * V(c) :
          /\ off[c - 1] + q \in 1 .. McuLen(s)
          /\ FlattenSeq(Unit(s))[off[c - 1] + q] = Raster(c, H(c), q)
          /\ McuPlaces(s)[off[c - 1] + q] = McuPart(s, c)[q]
    /\ \A j \in 1 .. McuLen(s) : \E c \in Comps :
          j - off[c - 1] \in 1 .. H(c) * V(c)

\* The parts of an MCU of several components lie one behind the other.
LEMMA UnitHolds ==
    ASSUME image \in Images, NEW s, s = [c \in Comps |-> c],
           Len(image.comps) > 1
    PROVE  ~ Single(s) /\ \E off : UnitFits(s, off)
<1> DEFINE n == Len(image.comps)
           unit == Unit(s)
           mcu == [k \in 1 .. Len(s) |-> McuPart(s, s[k])]
           A == {Raster(c, H(c), q) : c \in Comps, q \in Nat \ {0}}
           all == UNION { { McuPart(s, c)[q] : q \in 1 .. H(c) * V(c)} : c \in Comps}
<1>1. Geometry /\ (\A c \in Comps : Sized(c))
    BY GeometryHolds DEF Geometry
<1>2. n \in Nat /\ n > 1 /\ Comps = 1 .. n
    BY <1>1 DEF Geometry, Comps
<1>3. Len(s) = n /\ \A c \in Comps : s[c] = c
    BY <1>2
<1> HIDE DEF n
<1>4. ~ Single(s)
    BY <1>2, <1>3 DEF Single
<1>5. \A c \in Comps : H(c) \in Nat \ {0} /\ V(c) \in Nat \ {0}
                       /\ H(c) * V(c) \in Nat \ {0}
  <2> TAKE c \in Comps
  <2>1. H(c) \in Nat \ {0} /\ V(c) \in Nat \ {0}
      BY <1>1 DEF Sized
  <2> QED
      BY <2>1
<1>6. unit = [c \in Comps |-> [q \in 1 .. H(c) * V(c) |-> Raster(c, H(c), q)]]
    BY <1>2, <1>3 DEF Unit
<1>7. \A c \in Comps : McuPart(s, c) =
         [q \in 1 .. H(c) * V(c) |->
             <<c, row * V(c) + vert + Raster(c, H(c), q)[2],
                  ctr * H(c) + Raster(c, H(c), q)[3]>>]
    BY <1>4 DEF McuPart, McuWidth, McuHeight
<1>8. mcu = [c \in Comps |-> McuPart(s, c)]
    BY <1>2, <1>3
<1>9. McuPlaces(s) = FlattenSeq(mcu)
    BY DEF McuPlaces
<1> HIDE DEF unit, mcu
<1>10. unit \in Seq(Seq(A)) /\ Len(unit) = n /\ unit # <<>>
       /\ \A c \in Comps : Len(unit[c]) = H(c) * V(c)
  <2>1. ASSUME NEW c \in Comps
        PROVE  unit[c] \in Seq(A) /\ Len(unit[c]) = H(c) * V(c)
    <3> DEFINE m == H(c) * V(c)
    <3>1. m \in Nat
        BY <1>5
    <3>2. unit[c] = [q \in 1 .. m |-> Raster(c, H(c), q)]
        BY <1>6
    <3> HIDE DEF m
    <3>3. \A q \in 1 .. m : Raster(c, H(c), q) \in A
        BY <3>1
    <3> HIDE DEF A
    <3>4. unit[c] \in Seq(A) /\ Len(unit[c]) = m
        BY <3>1, <3>2, <3>3
    <3> QED
        BY <3>4 DEF m
  <2> HIDE DEF A
  <2>2. DOMAIN unit = 1 .. n
      BY <1>2, <1>6
  <2>3. unit = [c \in 1 .. n |-> unit[c]]
      BY <1>2, <1>6
  <2>4. unit \in Seq(Seq(A)) /\ Len(unit) = n
      BY <1>2, <2>1, <2>3
  <2> QED
      BY <1>2, <2>1, <2>4
<1>11. mcu \in Seq(Seq(all)) /\ Len(mcu) = n /\ mcu # <<>>
       /\ \A c \in Comps : Len(mcu[c]) = H(c) * V(c)
  <2>1. ASSUME NEW c \in Comps
        PROVE  mcu[c] \in Seq(all) /\ Len(mcu[c]) = H(c) * V(c)
    <3> DEFINE m == H(c) * V(c)
               part == McuPart(s, c)
    <3>1. m \in Nat
        BY <1>5
    <3>2. mcu[c] = part
        BY <1>8
    <3>3. \A q \in 1 .. m : part[q] \in all
        OBVIOUS
    <3>4. DOMAIN part = 1 .. m
        BY <1>7
    <3> HIDE DEF m, part, all
    <3>5. part = [q \in 1 .. m |-> part[q]]
        BY <1>7, <3>4 DEF part, m
    <3>6. part \in Seq(all) /\ Len(part) = m
        BY <3>1, <3>3, <3>5
    <3> QED
        BY <3>2, <3>6 DEF m
  <2> HIDE DEF all
  <2>2. mcu = [c \in 1 .. n |-> mcu[c]]
      BY <1>2, <1>8
  <2>3. mcu \in Seq(Seq(all)) /\ Len(mcu) = n
      BY <1>2, <2>1, <2>2
  <2> QED
      BY <1>2, <2>1, <2>3
<1> HIDE DEF A, all
<1>12. PICK off : IsOffsets(off, unit)
    BY <1>10, OffsetsExist
<1>13. IsOffsets(off, mcu)
  <2>1. \A c \in Comps : Len(mcu[c]) = Len(unit[c])
      BY <1>10, <1>11
  <2> QED
      BY <1>2, <1>10, <1>11, <1>12, <2>1 DEF IsOffsets
<1>14. /\ FlattenSeq(unit) \in Seq(A)
       /\ Len(FlattenSeq(unit)) = off[Len(unit)]
       /\ \A k \in 1 .. Len(unit) : \A q \in 1 .. Len(unit[k]) :
             /\ off[k - 1] + q \in 1 .. off[Len(unit)]
             /\ FlattenSeq(unit)[off[k - 1] + q] = unit[k][q]
    BY <1>10, <1>12, FlattenFacts
<1>15. /\ FlattenSeq(mcu) \in Seq(all)
       /\ Len(FlattenSeq(mcu)) = off[Len(mcu)]
       /\ \A k \in 1 .. Len(mcu) : \A q \in 1 .. Len(mcu[k]) :
             /\ off[k - 1] + q \in 1 .. off[Len(mcu)]
             /\ FlattenSeq(mcu)[off[k - 1] + q] = mcu[k][q]
    BY <1>11, <1>13, FlattenFacts
<1>16. McuLen(s) = off[n] /\ Len(FlattenSeq(unit)) = off[n] /\ McuPlaces(s) \in Seq(all)
       /\ Len(McuPlaces(s)) = off[n]
    BY <1>4, <1>9, <1>10, <1>11, <1>14, <1>15 DEF McuLen, unit
<1>17. off \in [0 .. Len(s) -> Nat] /\ off[n] \in Nat
  <2>1. Len(unit) = Len(s) /\ n = Len(s) /\ n \in 0 .. Len(s)
      BY <1>2, <1>3, <1>10
  <2>2. off \in [0 .. Len(unit) -> Nat]
      BY <1>12 DEF IsOffsets
  <2> HIDE DEF unit, n
  <2> QED
      BY <2>1, <2>2
<1>18. ASSUME NEW c \in Comps, NEW q \in 1 .. H(c) * V(c)
       PROVE  /\ off[c - 1] + q \in 1 .. McuLen(s)
              /\ FlattenSeq(unit)[off[c - 1] + q] = Raster(c, H(c), q)
              /\ McuPlaces(s)[off[c - 1] + q] = McuPart(s, c)[q]
  <2>1. c \in 1 .. Len(unit) /\ c \in 1 .. Len(mcu)
        /\ q \in 1 .. Len(unit[c]) /\ q \in 1 .. Len(mcu[c])
      BY <1>2, <1>10, <1>11
  <2>2. /\ off[c - 1] + q \in 1 .. off[n]
        /\ FlattenSeq(unit)[off[c - 1] + q] = unit[c][q]
        /\ FlattenSeq(mcu)[off[c - 1] + q] = mcu[c][q]
      BY <1>10, <1>14, <1>15, <2>1
  <2>3. unit[c][q] = Raster(c, H(c), q) /\ mcu[c][q] = McuPart(s, c)[q]
      BY <1>6, <1>8
  <2> QED
      BY <1>9, <1>16, <2>2, <2>3
<1>19. McuLen(s) # 0
  <2>1. 1 \in Comps
      BY <1>2
  <2>2. 1 \in 1 .. H(1) * V(1)
      BY <1>5, <2>1
  <2>3. off[1 - 1] + 1 \in 1 .. McuLen(s)
      BY <1>18, <2>1, <2>2
  <2> QED
      BY <1>16, <1>17, <2>3
<1>20. ASSUME NEW j \in 1 .. McuLen(s)
       PROVE  \E c \in Comps : j - off[c - 1] \in 1 .. H(c) * V(c)
  <2>1. j \in 1 .. off[Len(unit)]
      BY <1>10, <1>16
  <2>2. PICK k \in 1 .. Len(unit) : j - off[k - 1] \in 1 .. Len(unit[k])
      BY <1>10, <1>12, <2>1, OffsetsCover
  <2> QED
      BY <1>2, <1>10, <2>2
<1>21. UnitFits(s, off)
  <2>1. DOMAIN McuPlaces(s) = 1 .. McuLen(s)
      BY <1>16
  <2> QED
      BY <1>16, <1>17, <1>18, <1>19, <1>20, <2>1 DEF UnitFits, unit
<1> QED
    BY <1>4, <1>21

\* Block q of component c in MCU t of row r.
Spot(c, r, t, q) == <<c, r * V(c) + Raster(c, H(c), q)[2], t * H(c) + Raster(c, H(c), q)[3]>>

\* Each block of an MCU is a block of the virtual arrays.
LEMMA SpotInPlaces ==
    ASSUME image \in Images, NEW c \in Comps, NEW r \in 0 .. Rows - 1,
           NEW t \in 0 .. Cols - 1, NEW q \in 1 .. H(c) * V(c)
    PROVE  Spot(c, r, t, q) \in Places
<1> DEFINE x == Raster(c, H(c), q)[2]
           y == Raster(c, H(c), q)[3]
           h == H(c)
           v == V(c)
<1>1. Geometry /\ Sized(c)
    BY GeometryHolds DEF Geometry
<1>2. h \in Nat \ {0} /\ v \in Nat \ {0} /\ Rows \in Nat \ {0} /\ Cols \in Nat \ {0}
    BY <1>1 DEF Geometry, Sized
<1>3. h * v \in Nat /\ v * h = h * v
    BY <1>2
<1>4. q \in Nat \ {0} /\ q <= v * h
    BY <1>3
<1>5. x \in Nat /\ y \in 0 .. h - 1 /\ q = x * h + y + 1
    BY <1>2, <1>4, RasterAt
<1> HIDE DEF x, y
<1>6. x * h \in Nat /\ x * h < v * h
    BY <1>2, <1>3, <1>4, <1>5, ProductNat
<1>7. x < v
    BY <1>2, <1>5, <1>6, ProductOrder
<1>8. r * v + v <= Rows * v /\ r * v \in Nat /\ Rows * v \in Nat
    BY <1>2, ProductOrder, ProductNat
<1>9. t * h + h <= Cols * h /\ t * h \in Nat /\ Cols * h \in Nat
    BY <1>2, ProductOrder, ProductNat
<1>10. r * v + x \in 0 .. Rows * v - 1 /\ t * h + y \in 0 .. Cols * h - 1
    BY <1>2, <1>5, <1>7, <1>8, <1>9
<1>11. Spot(c, r, t, q) = <<c, r * v + x, t * h + y>>
    BY DEF Spot, x, y
<1> QED
    BY <1>10, <1>11, PlaceFacts DEF h, v

\* Where a block of an MCU is in the order of the standard.
LEMMA OrderAt ==
    ASSUME image \in Images, NEW s, s = [c \in Comps |-> c], ~ Single(s),
           NEW off, UnitFits(s, off),
           NEW c \in Comps, NEW r \in 0 .. Rows - 1,
           NEW t \in 0 .. Cols - 1, NEW q \in 1 .. H(c) * V(c)
    PROVE  LET n == (r * Cols + t) * McuLen(s) + (off[c - 1] + q)
           IN  /\ n \in 1 .. AllMcus(s) * McuLen(s)
               /\ ScanOrder(s)[n] = Spot(c, r, t, q)
<1> DEFINE m == McuLen(s)
           u == FlattenSeq(Unit(s))
           k == r * Cols + t
           i == off[c - 1] + q
           all == Rows * Cols
           n == k * m + i
<1>1. Rows \in Nat \ {0} /\ Cols \in Nat \ {0}
    BY GeometryHolds DEF Geometry
<1>2. m \in Nat \ {0} /\ i \in 1 .. m /\ u[i] = Raster(c, H(c), q) /\ Len(u) = m
    BY DEF UnitFits
<1>3. r \in Nat /\ t \in 0 .. Cols - 1
    BY <1>1
<1>4. k \in Nat /\ k \div Cols = r /\ k % Cols = t
    BY <1>1, <1>3, DivOf
<1>5. k < all /\ all \in Nat
  <2>1. r * Cols + Cols <= Rows * Cols /\ r * Cols \in Nat /\ Rows * Cols \in Nat
      BY <1>1, <1>3, ProductOrder, ProductNat
  <2> QED
      BY <1>1, <1>3, <2>1
<1> HIDE DEF k, i, m, all
<1>6. k * m \in Nat /\ all * m \in Nat /\ k * m + m <= all * m
    BY <1>2, <1>4, <1>5, ProductOrder, ProductNat
<1>7. n \in 1 .. all * m
    BY <1>2, <1>6
<1>8. (n - 1) \div m = k /\ ((n - 1) % m) + 1 = i
  <2>1. n - 1 = k * m + (i - 1) /\ i - 1 \in 0 .. m - 1
      BY <1>2, <1>6
  <2> HIDE DEF n
  <2>2. (n - 1) \div m = k /\ (n - 1) % m = i - 1
      BY <1>2, <1>4, <2>1, DivOf
  <2> QED
      BY <1>2, <2>2
<1> HIDE DEF n
<1>9. ScanOrder(s)[n] = Spot(c, r, t, q)
  <2> DEFINE p == u[i]
  <2>1. ScanOrder(s) =
          [b \in 1 .. all * m |->
             <<u[((b - 1) % m) + 1][1],
               (((b - 1) \div m) \div Cols) * V(u[((b - 1) % m) + 1][1])
                  + u[((b - 1) % m) + 1][2],
               (((b - 1) \div m) % Cols) * H(u[((b - 1) % m) + 1][1])
                  + u[((b - 1) % m) + 1][3]>>]
      BY <1>2 DEF ScanOrder, Unit, all, Cols
  <2> HIDE DEF u
  <2>2. ScanOrder(s)[n] = <<p[1], (k \div Cols) * V(p[1]) + p[2],
                            (k % Cols) * H(p[1]) + p[3]>>
      BY <1>7, <1>8, <2>1
  <2>3. p = Raster(c, H(c), q) /\ p[1] = c
      BY <1>2 DEF Raster
  <2> HIDE DEF p
  <2> QED
      BY <1>4, <2>2, <2>3 DEF Spot
<1>10. AllMcus(s) = all
    BY DEF AllMcus, all
<1> QED
    BY <1>7, <1>9, <1>10 DEF n, k, m, i

\* A scan of several components has its MCUs one behind the other.
LEMMA AllOrder ==
    ASSUME image \in Images, NEW s, s = [c \in Comps |-> c],
           Len(image.comps) > 1
    PROVE  OrderFits(s)
<1>1. ~ Single(s)
    BY UnitHolds
<1>2. PICK off : UnitFits(s, off)
    BY UnitHolds
<1>3. Geometry /\ (\A c \in Comps : Sized(c))
    BY GeometryHolds DEF Geometry
<1>4. Rows \in Nat \ {0} /\ Cols \in Nat \ {0}
    BY <1>3 DEF Geometry
<1> DEFINE m == McuLen(s)
           all == AllMcus(s)
           order == ScanOrder(s)
<1>5. all = Rows * Cols /\ all \in Nat \ {0}
    BY <1>1, <1>4 DEF AllMcus
<1>6. m \in Nat \ {0} /\ all * m \in Nat \ {0}
  <2>1. m \in Nat \ {0}
      BY <1>2 DEF UnitFits
  <2> HIDE DEF m, all
  <2> QED
      BY <1>5, <2>1
<1>7. DOMAIN order = 1 .. all * m /\ order = [n \in 1 .. all * m |-> order[n]]
    BY <1>1, <1>2, <1>5 DEF ScanOrder, Unit, UnitFits, Cols
<1> HIDE DEF m, all, order
<1>8. ASSUME NEW n \in 1 .. all * m PROVE order[n] \in Places
  <2> DEFINE k == (n - 1) \div m
             i == (n - 1) % m
             r == k \div Cols
             t == k % Cols
  <2>1. n - 1 \in Nat /\ n <= all * m
      BY <1>6
  <2>2. k \in Nat /\ i \in 0 .. m - 1 /\ n - 1 = k * m + i
      BY <1>6, <2>1, DivFacts
  <2> HIDE DEF k, i
  <2>3. r \in Nat /\ t \in 0 .. Cols - 1 /\ k = r * Cols + t
      BY <1>4, <2>2, DivFacts
  <2> HIDE DEF r, t
  <2>4. k < all
    <3>1. k * m \in Nat /\ k * m < all * m
        BY <1>5, <1>6, <2>1, <2>2, ProductNat
    <3> QED
        BY <1>5, <1>6, <2>2, <3>1, ProductOrder
  <2>5. r < Rows
    <3>1. r * Cols \in Nat /\ Rows * Cols \in Nat /\ r * Cols < Rows * Cols
        BY <1>4, <1>5, <2>3, <2>4, ProductNat
    <3> QED
        BY <1>4, <2>3, <3>1, ProductOrder
  <2>6. i + 1 \in 1 .. m
      BY <1>6, <2>2
  <2>7. PICK c \in Comps : (i + 1) - off[c - 1] \in 1 .. H(c) * V(c)
      BY <1>2, <2>6 DEF UnitFits, m
  <2> DEFINE q == (i + 1) - off[c - 1]
  <2>8. off[c - 1] \in Nat
    <3>1. Len(s) = Len(image.comps) /\ c \in 1 .. Len(image.comps)
          /\ Len(image.comps) \in Nat
        BY <1>3 DEF Comps, Geometry
    <3>2. c - 1 \in 0 .. Len(s)
        BY <3>1
    <3> QED
        BY <1>2, <3>2 DEF UnitFits
  <2>9. off[c - 1] + q = i + 1
      BY <2>2, <2>8
  <2>10. q \in 1 .. H(c) * V(c) /\ r \in 0 .. Rows - 1
      BY <1>4, <2>3, <2>5, <2>7
  <2> HIDE DEF q
  <2>11. order[(r * Cols + t) * m + (off[c - 1] + q)] = Spot(c, r, t, q)
      BY <1>1, <1>2, <2>3, <2>10, OrderAt DEF order, m
  <2>12. (r * Cols + t) * m + (off[c - 1] + q) = n
    <3>1. k * m \in Nat
        BY <1>6, <2>2, ProductNat
    <3>2. k * m + (i + 1) = n
        BY <2>2, <3>1
    <3> QED
        BY <2>3, <2>9, <3>2
  <2>13. Spot(c, r, t, q) \in Places
      BY <2>3, <2>10, SpotInPlaces
  <2> QED
      BY <2>11, <2>12, <2>13
<1>9. order \in Seq(Places) /\ Len(order) = all * m
  <2> DEFINE l == all * m
  <2>1. l \in Nat
      BY <1>6
  <2> HIDE DEF l
  <2>2. order = [n \in 1 .. l |-> order[n]] /\ \A n \in 1 .. l : order[n] \in Places
      BY <1>7, <1>8 DEF l
  <2>3. order \in Seq(Places) /\ Len(order) = l
      BY <2>1, <2>2
  <2> QED
      BY <2>3 DEF l
<1>10. ASSUME NEW p \in Places
       PROVE  \E n \in 1 .. Len(order) : order[n] = p
  <2> DEFINE c == p[1]
             h == H(c)
             v == V(c)
             r == p[2] \div v
             t == p[3] \div h
             x == p[2] % v
             y == p[3] % h
             q == x * h + y + 1
  <2>1. c \in Comps /\ p = <<c, p[2], p[3]>> /\ p[2] \in 0 .. Rows * v - 1
        /\ p[3] \in 0 .. Cols * h - 1
      BY PlaceFacts
  <2>2. h \in Nat \ {0} /\ v \in Nat \ {0}
      BY <1>3, <2>1 DEF Sized
  <2>3. Rows * v \in Nat /\ Cols * h \in Nat /\ v * h \in Nat /\ h * v = v * h
      BY <1>4, <2>2, ProductNat
  <2>4. p[2] \in Nat /\ p[3] \in Nat /\ p[2] < Rows * v /\ p[3] < Cols * h
      BY <2>1, <2>3
  <2>5. r \in Nat /\ x \in 0 .. v - 1 /\ p[2] = r * v + x
      BY <2>2, <2>4, DivFacts
  <2>6. t \in Nat /\ y \in 0 .. h - 1 /\ p[3] = t * h + y
      BY <2>2, <2>4, DivFacts
  <2> HIDE DEF r, t, x, y
  <2>7. r < Rows /\ t < Cols
    <3>1. r * v \in Nat /\ r * v < Rows * v
      <4> DEFINE a == r * v
                 b == Rows * v
      <4>1. p[2] = a + x /\ x \in Nat
          BY <2>2, <2>5
      <4>2. b \in Nat /\ p[2] < b
          BY <2>3, <2>4
      <4>3. a \in Nat
          BY <2>2, <2>5, ProductNat
      <4> HIDE DEF a, b
      <4>4. a < b
          BY <4>1, <4>2, <4>3
      <4> QED
          BY <4>3, <4>4 DEF a, b
    <3>2. t * h \in Nat /\ t * h < Cols * h
      <4> DEFINE a == t * h
                 b == Cols * h
      <4>1. p[3] = a + y /\ y \in Nat
          BY <2>2, <2>6
      <4>2. b \in Nat /\ p[3] < b
          BY <2>3, <2>4
      <4>3. a \in Nat
          BY <2>2, <2>6, ProductNat
      <4> HIDE DEF a, b
      <4>4. a < b
          BY <4>1, <4>2, <4>3
      <4> QED
          BY <4>3, <4>4 DEF a, b
    <3>3. r < Rows
        BY <1>4, <2>2, <2>5, <3>1, ProductOrder
    <3>4. t < Cols
        BY <1>4, <2>2, <2>6, <3>2, ProductOrder
    <3> QED
        BY <3>3, <3>4
  <2>8. q \in Nat \ {0} /\ Raster(c, h, q) = <<c, x, y>>
    <3>1. x \in Nat
        BY <2>2, <2>5
    <3> HIDE DEF c, h
    <3>2. h \in Nat \ {0} /\ y \in 0 .. h - 1
        BY <2>2, <2>6
    <3> HIDE DEF v, q
    <3>3. /\ x * h + y + 1 \in Nat \ {0}
          /\ Raster(c, h, x * h + y + 1) = <<c, x, y>>
        BY <3>1, <3>2, RasterOf
    <3> QED
        BY <3>3 DEF q
  <2>9. q <= v * h
    <3> HIDE DEF h, v, q
    <3>1. x \in Nat /\ x < v
        BY <2>2, <2>5
    <3>2. x * h + h <= v * h /\ x * h \in Nat
        BY <2>2, <3>1, ProductOrder, ProductNat
    <3> QED
        BY <2>2, <2>3, <2>6, <3>2 DEF q
  <2>10. q \in 1 .. H(c) * V(c)
    <3> HIDE DEF q
    <3> QED
        BY <2>3, <2>8, <2>9
  <2> HIDE DEF q
  <2>11. Spot(c, r, t, q) = p
      BY <2>1, <2>5, <2>6, <2>8 DEF Spot
  <2>12. r \in 0 .. Rows - 1 /\ t \in 0 .. Cols - 1
      BY <1>4, <2>5, <2>6, <2>7
  <2> DEFINE n == (r * Cols + t) * m + (off[c - 1] + q)
  <2>13. n \in 1 .. all * m /\ order[n] = Spot(c, r, t, q)
      BY <1>1, <1>2, <2>1, <2>10, <2>12, OrderAt DEF order, m, all
  <2> QED
      BY <1>9, <2>11, <2>13
<1> QED
    BY <1>5, <1>6, <1>9, <1>10 DEF OrderFits, m, all, order

\* The MCU of such a scan holds the blocks the counters stand for.
LEMMA AllMcu ==
    ASSUME image \in Images, NEW s, s = [c \in Comps |-> c],
           Len(image.comps) > 1, CountersOK(s)
    PROVE  McuFits(s)
<1>1. ~ Single(s)
    BY UnitHolds
<1>2. PICK off : UnitFits(s, off)
    BY UnitHolds
<1>3. Rows \in Nat \ {0} /\ Cols \in Nat \ {0}
    BY GeometryHolds DEF Geometry
<1>4. row \in 0 .. Rows - 1 /\ vert = 0 /\ ctr \in 0 .. Cols - 1
    BY <1>1 DEF CountersOK, McuRows, McusPerRow, Cols
<1> DEFINE m == McuLen(s)
<1>5. m \in Nat \ {0} /\ DOMAIN McuPlaces(s) = 1 .. m /\ Len(McuPlaces(s)) = m
    BY <1>2 DEF UnitFits
<1>6. Index(s) = row * Cols + ctr /\ AllMcus(s) = Rows * Cols
    BY <1>1 DEF Index, AllMcus
<1>7. Index(s) \in 0 .. AllMcus(s) - 1
  <2>1. row * Cols + Cols <= Rows * Cols /\ row * Cols \in Nat /\ Rows * Cols \in Nat
      BY <1>3, <1>4, ProductOrder, ProductNat
  <2> QED
      BY <1>3, <1>4, <1>6, <2>1
<1>8. ASSUME NEW j \in 1 .. m
      PROVE  McuPlaces(s)[j] = ScanOrder(s)[Index(s) * m + j]
  <2>1. PICK c \in Comps : j - off[c - 1] \in 1 .. H(c) * V(c)
      BY <1>2 DEF UnitFits
  <2> DEFINE q == j - off[c - 1]
  <2>2. Sized(c) /\ Geometry
      BY GeometryHolds DEF Geometry
  <2>3. off[c - 1] \in Nat
    <3>1. Len(s) = Len(image.comps) /\ c \in 1 .. Len(image.comps)
          /\ Len(image.comps) \in Nat
        BY <2>2 DEF Comps, Geometry
    <3>2. c - 1 \in 0 .. Len(s)
        BY <3>1
    <3> QED
        BY <1>2, <3>2 DEF UnitFits
  <2>4. off[c - 1] + q = j /\ q \in 1 .. H(c) * V(c)
      BY <1>5, <2>1, <2>3
  <2> HIDE DEF q
  <2>5. ScanOrder(s)[(row * Cols + ctr) * m + (off[c - 1] + q)] = Spot(c, row, ctr, q)
      BY <1>1, <1>2, <1>4, <2>4, OrderAt
  <2>6. McuPlaces(s)[off[c - 1] + q] = McuPart(s, c)[q]
      BY <1>2, <2>4 DEF UnitFits
  <2>7. McuPart(s, c)[q] = Spot(c, row, ctr, q)
    <3>1. McuWidth(s, c) = H(c) /\ McuHeight(s, c) = V(c)
        BY <1>1 DEF McuWidth, McuHeight
    <3>2. McuPart(s, c)[q] = <<c, row * V(c) + vert + Raster(c, H(c), q)[2],
                                  ctr * H(c) + Raster(c, H(c), q)[3]>>
        BY <2>4, <3>1 DEF McuPart
    <3>3. row * V(c) \in Nat
      <4>1. row \in Nat /\ V(c) \in Nat
          BY <1>3, <1>4, <2>2 DEF Sized
      <4> QED
          BY <4>1, ProductNat, Zenon
    <3>4. row * V(c) + vert = row * V(c)
        BY <1>4, <3>3
    <3> QED
        BY <3>2, <3>4 DEF Spot
  <2> QED
      BY <1>6, <2>4, <2>5, <2>6, <2>7
<1> QED
    BY <1>5, <1>7, <1>8 DEF McuFits

\* A scan of either kind.
LEMMA ScanFacts ==
    ASSUME image \in Images, NEW s, IsScan(s)
    PROVE  OrderFits(s) /\ (CountersOK(s) => McuFits(s))
<1>1. CASE \E c \in Comps : s = <<c>>
    BY <1>1, SingleOrder, SingleMcu
<1>2. CASE Len(image.comps) > 1 /\ s = [c \in Comps |-> c]
    BY <1>2, AllOrder, AllMcu
<1> QED
    BY <1>1, <1>2 DEF IsScan

\* What depends on the image alone stays.
LEMMA SameImage ==
    ASSUME image' = image
    PROVE  /\ Rows' = Rows /\ Cols' = Cols /\ Comps' = Comps
           /\ \A c : H(c)' = H(c) /\ V(c)' = V(c)
           /\ \A c : Width(c)' = Width(c) /\ Height(c)' = Height(c)
           /\ \A c : LastRow(c)' = LastRow(c)
<1>1. Comps' = Comps /\ \A c : H(c)' = H(c) /\ V(c)' = V(c)
    BY DEF Comps, H, V
<1>2. MaxH' = MaxH /\ MaxV' = MaxV
    BY <1>1 DEF MaxH, MaxV
<1>3. Rows' = Rows /\ Cols' = Cols
    BY <1>2 DEF Rows, Cols
<1>4. \A c : Width(c)' = Width(c) /\ Height(c)' = Height(c)
    BY <1>1, <1>2 DEF Width, Height
<1>5. \A c : LastRow(c)' = LastRow(c)
    BY <1>1, <1>4 DEF LastRow
<1> QED
    BY <1>1, <1>3, <1>4, <1>5

\* At the start of a scan.
LEMMA CountersStart ==
    ASSUME image \in Images, NEW s, IsScan(s), row = 0, vert = 0, ctr = 0
    PROVE  CountersOK(s) /\ Index(s) = 0
<1>1. Geometry /\ (\A c \in Comps : Sized(c))
    BY GeometryHolds DEF Geometry
<1>2. Rows \in Nat \ {0} /\ Cols \in Nat \ {0}
    BY <1>1 DEF Geometry
<1>3. CASE \E c \in Comps : s = <<c>>
  <2>1. PICK c \in Comps : s = <<c>>
      BY <1>3
  <2>2. Single(s) /\ s[1] = c
      BY <2>1 DEF Single
  <2>3. Width(c) \in Nat \ {0} /\ V(c) \in Nat \ {0} /\ Height(c) \in Nat \ {0}
        /\ (Rows - 1) * V(c) < Height(c)
      BY <1>1 DEF Sized
  <2>4. McusPerRow(s) = Width(c) /\ Index(s) = (0 * V(c) + 0) * Width(c) + 0
      BY <2>2 DEF McusPerRow, Index
  <2>5. McuRows(s) \in Nat \ {0}
    <3>1. CASE Rows = 1
      <4>1. McuRows(s) = Height(c) - (Rows - 1) * V(c)
          BY <2>2, <3>1, LastFacts DEF McuRows
      <4> QED
          BY <2>3, <3>1, <4>1
    <3>2. CASE Rows # 1
      <4>1. 0 < Rows - 1 /\ 0 # Rows - 1
          BY <1>2, <3>2
      <4>2. McuRows(s) = V(c)
          BY <2>2, <4>1 DEF McuRows
      <4> QED
          BY <2>3, <4>2
    <3> QED
        BY <3>1, <3>2
  <2>6. (0 * V(c) + 0) * Width(c) + 0 = 0
      BY <2>3
  <2> QED
      BY <1>2, <2>3, <2>4, <2>5, <2>6 DEF CountersOK
<1>4. CASE Len(image.comps) > 1 /\ s = [c \in Comps |-> c]
  <2>1. ~ Single(s)
      BY <1>4, UnitHolds
  <2>2. McusPerRow(s) = Cols /\ McuRows(s) = 1 /\ Index(s) = 0 * Cols + 0
      BY <2>1 DEF McusPerRow, McuRows, Index, Cols
  <2> QED
      BY <1>2, <2>2 DEF CountersOK
<1> QED
    BY <1>3, <1>4 DEF IsScan

\* With one component, the counters go to the next block or the scan ends.
LEMMA SingleStep ==
    ASSUME image \in Images, NEW c \in Comps, CountersOK(<<c>>),
           NextMcu(<<c>>), image' = image
    PROVE  /\ EndOfScan(<<c>>) => /\ Index(<<c>>) + 1 = AllMcus(<<c>>)
                                  /\ row' = 0 /\ vert' = 0 /\ ctr' = 0
           /\ ~ EndOfScan(<<c>>) => CountersOK(<<c>>)' /\ Index(<<c>>)' = Index(<<c>>) + 1
<1> DEFINE s == <<c>>
           w == Width(c)
           h == Height(c)
           v == V(c)
           n == row * v
           line == n + vert
<1>1. Geometry /\ Sized(c)
    BY GeometryHolds DEF Geometry
<1>2. w \in Nat \ {0} /\ h \in Nat \ {0} /\ v \in Nat \ {0} /\ Rows \in Nat \ {0}
      /\ (Rows - 1) * v < h
    BY <1>1 DEF Geometry, Sized
<1>3. Single(s) /\ s[1] = c
    BY DEF Single
<1>4. AllMcus(s) = h * w /\ McusPerRow(s) = w
      /\ Index(s) = line * w + ctr
    BY <1>3 DEF AllMcus, McusPerRow, Index
<1>5. row \in 0 .. Rows - 1 /\ vert \in 0 .. McuRows(s) - 1 /\ ctr \in 0 .. w - 1
    BY <1>4 DEF CountersOK
<1>6. /\ row \in Nat /\ vert \in Nat /\ n \in Nat /\ line < h
      /\ row < Rows - 1 => McuRows(s) = v
      /\ row = Rows - 1 => McuRows(s) = h - (Rows - 1) * v
    BY LineInImage
<1>7. /\ Rows' = Rows /\ \A a : V(a)' = V(a)
      /\ \A a : Width(a)' = Width(a) /\ LastRow(a)' = LastRow(a)
    BY SameImage
<1>8. McusPerRow(s)' = w /\ Index(s)' = (row' * v + vert') * w + ctr'
    BY <1>3, <1>7 DEF McusPerRow, Index, Single
<1>9. EndOfRow(s) <=> ctr = w - 1
    BY <1>4 DEF EndOfRow
<1>10. EndOfIMcuRow(s) <=> ctr = w - 1 /\ vert = McuRows(s) - 1
    BY <1>9 DEF EndOfIMcuRow
<1>11. EndOfScan(s) <=> EndOfIMcuRow(s) /\ row = Rows - 1
    BY DEF EndOfScan
<1>12. line \in Nat /\ line * w \in Nat /\ (line + 1) * w = line * w + w
    BY <1>2, <1>6, ProductNat
<1>13. row' = row => McuRows(s)' = McuRows(s)
    BY <1>3, <1>7 DEF McuRows, Single
<1>14. CASE ~ EndOfRow(s)
  <2>1. ctr' = ctr + 1 /\ vert' = vert /\ row' = row
      BY <1>14 DEF NextMcu, EndOfIMcuRow, EndOfScan
  <2>2. ~ EndOfScan(s)
      BY <1>14 DEF EndOfIMcuRow, EndOfScan
  <2>3. CountersOK(s)'
      BY <1>2, <1>5, <1>7, <1>8, <1>9, <1>13, <1>14, <2>1 DEF CountersOK
  <2>4. Index(s)' = line * w + (ctr + 1)
      BY <1>8, <2>1
  <2> HIDE DEF line, w
  <2>5. Index(s)' = Index(s) + 1
      BY <1>4, <1>5, <1>12, <1>2, <2>4
  <2> QED
      BY <2>2, <2>3, <2>5
<1>15. CASE EndOfRow(s) /\ ~ EndOfIMcuRow(s)
  <2>1. ctr' = 0 /\ vert' = vert + 1 /\ row' = row
      BY <1>15 DEF NextMcu, EndOfScan
  <2>2. ~ EndOfScan(s)
      BY <1>15 DEF EndOfScan
  <2>3. vert + 1 \in 0 .. McuRows(s) - 1
      BY <1>5, <1>6, <1>2, <1>9, <1>10, <1>15
  <2>4. CountersOK(s)'
      BY <1>2, <1>5, <1>7, <1>8, <1>13, <2>1, <2>3 DEF CountersOK
  <2>5. Index(s)' = (line + 1) * w + 0
    <3>1. row' * v + vert' = line + 1
        BY <1>6, <2>1
    <3> QED
        BY <1>8, <2>1, <3>1
  <2>6. ctr = w - 1
      BY <1>9, <1>15
  <2> HIDE DEF line, w
  <2>7. Index(s)' = Index(s) + 1
      BY <1>2, <1>4, <1>12, <2>5, <2>6
  <2> QED
      BY <2>2, <2>4, <2>7
<1>16. CASE EndOfIMcuRow(s) /\ ~ EndOfScan(s)
  <2>1. ctr' = 0 /\ vert' = 0 /\ row' = row + 1
      BY <1>16 DEF NextMcu, EndOfIMcuRow
  <2>2. row < Rows - 1 /\ ctr = w - 1 /\ vert = v - 1
      BY <1>2, <1>5, <1>6, <1>10, <1>11, <1>16
  <2>3. row' \in 0 .. Rows - 1 /\ row' \in Nat
      BY <1>2, <1>6, <2>1, <2>2
  <2>4. McuRows(s)' \in Nat \ {0}
    <3>1. CASE row' = Rows - 1
      <4>1. McuRows(s)' = LastRow(c)
          BY <1>3, <1>7, <3>1 DEF McuRows, Single
      <4>2. LastRow(c) = h - (Rows - 1) * v
          BY LastFacts
      <4>3. (Rows - 1) * v \in Nat
          BY <1>2, ProductNat
      <4> QED
          BY <1>2, <4>1, <4>2, <4>3
    <3>2. CASE row' # Rows - 1
      <4>1. row' < Rows - 1
          BY <1>2, <2>3, <3>2
      <4>2. McuRows(s)' = v
          BY <1>3, <1>7, <3>2, <4>1 DEF McuRows, Single
      <4> QED
          BY <1>2, <4>2
    <3> QED
        BY <3>1, <3>2
  <2>5. CountersOK(s)'
      BY <1>2, <1>7, <1>8, <2>1, <2>3, <2>4 DEF CountersOK
  <2>6. Index(s)' = (line + 1) * w + 0
    <3>1. (row + 1) * v = n + v
        BY <1>2, <1>6
    <3>2. row' * v + vert' = line + 1
        BY <1>2, <1>6, <2>1, <2>2, <3>1
    <3> QED
        BY <1>8, <2>1, <3>2
  <2> HIDE DEF line, w
  <2>7. Index(s)' = Index(s) + 1
      BY <1>2, <1>4, <1>12, <2>2, <2>6
  <2> QED
      BY <1>16, <2>5, <2>7
<1>17. CASE EndOfScan(s)
  <2>1. ctr' = 0 /\ vert' = 0 /\ row' = 0
      BY <1>17 DEF NextMcu, EndOfIMcuRow, EndOfScan
  <2>2. row = Rows - 1 /\ ctr = w - 1 /\ vert = h - (Rows - 1) * v - 1
      BY <1>6, <1>10, <1>11, <1>17
  <2>3. line + 1 = h
      BY <1>2, <1>6, <2>2
  <2>4. Index(s) + 1 = (line + 1) * w
    <3> HIDE DEF line, w
    <3> QED
        BY <1>2, <1>4, <1>12, <2>2
  <2> QED
      BY <1>4, <1>17, <2>1, <2>3, <2>4
<1> QED
    BY <1>14, <1>15, <1>16, <1>17 DEF EndOfScan, EndOfIMcuRow

\* With several components, the counters go to the next MCU or the scan ends.
LEMMA AllStep ==
    ASSUME image \in Images, NEW s, s = [c \in Comps |-> c],
           Len(image.comps) > 1, CountersOK(s), NextMcu(s), image' = image
    PROVE  /\ EndOfScan(s) => /\ Index(s) + 1 = AllMcus(s)
                              /\ row' = 0 /\ vert' = 0 /\ ctr' = 0
           /\ ~ EndOfScan(s) => CountersOK(s)' /\ Index(s)' = Index(s) + 1
<1> DEFINE w == Cols
           n == row * w
<1>1. Rows \in Nat \ {0} /\ w \in Nat \ {0}
    BY GeometryHolds DEF Geometry
<1>2. ~ Single(s)
    BY UnitHolds
<1>3. Index(s) = n + ctr /\ AllMcus(s) = Rows * w /\ McuRows(s) = 1
      /\ McusPerRow(s) = w
    BY <1>2 DEF Index, AllMcus, McuRows, McusPerRow, Cols
<1>4. row \in 0 .. Rows - 1 /\ vert = 0 /\ ctr \in 0 .. w - 1 /\ row \in Nat
    BY <1>1, <1>3 DEF CountersOK
<1>5. Rows' = Rows /\ Cols' = Cols
    BY SameImage
<1>6. Index(s)' = row' * w + ctr' /\ McuRows(s)' = 1 /\ McusPerRow(s)' = w
  <2>1. McusPerRow(s)' = Cols'
      BY <1>2 DEF McusPerRow, Single, Cols
  <2> QED
      BY <1>2, <1>5, <2>1 DEF Index, McuRows, Single
<1>7. EndOfRow(s) <=> ctr = w - 1
    BY <1>3 DEF EndOfRow
<1>8. EndOfIMcuRow(s) <=> EndOfRow(s)
    BY <1>3, <1>4 DEF EndOfIMcuRow
<1>9. n \in Nat /\ (row + 1) * w = n + w
    BY <1>1, <1>4, ProductNat
<1>10. CASE ~ EndOfRow(s)
  <2>1. ctr' = ctr + 1 /\ vert' = vert /\ row' = row
      BY <1>10 DEF NextMcu, EndOfIMcuRow, EndOfScan
  <2>2. ~ EndOfScan(s)
      BY <1>10 DEF EndOfIMcuRow, EndOfScan
  <2>3. CountersOK(s)'
      BY <1>1, <1>4, <1>5, <1>6, <1>7, <1>10, <2>1 DEF CountersOK
  <2>4. Index(s)' = n + (ctr + 1)
      BY <1>6, <2>1
  <2> HIDE DEF n, w
  <2>5. Index(s)' = Index(s) + 1
      BY <1>1, <1>3, <1>4, <1>9, <2>4
  <2> QED
      BY <2>2, <2>3, <2>5
<1>11. CASE EndOfRow(s) /\ ~ EndOfScan(s)
  <2>1. ctr' = 0 /\ vert' = 0 /\ row' = row + 1
      BY <1>8, <1>11 DEF NextMcu
  <2>2. row < Rows - 1 /\ ctr = w - 1
      BY <1>1, <1>4, <1>7, <1>8, <1>11 DEF EndOfScan
  <2>3. CountersOK(s)'
      BY <1>1, <1>4, <1>5, <1>6, <2>1, <2>2 DEF CountersOK
  <2>4. Index(s)' = n + w
      BY <1>6, <1>9, <1>1, <2>1
  <2> HIDE DEF n, w
  <2>5. Index(s)' = Index(s) + 1
      BY <1>1, <1>3, <1>9, <2>2, <2>4
  <2> QED
      BY <1>11, <2>3, <2>5
<1>12. CASE EndOfScan(s)
  <2>1. ctr' = 0 /\ vert' = 0 /\ row' = 0
      BY <1>12 DEF NextMcu, EndOfIMcuRow, EndOfScan
  <2>2. row = Rows - 1 /\ ctr = w - 1
      BY <1>7, <1>12 DEF EndOfScan, EndOfIMcuRow
  <2>3. row + 1 = Rows
      BY <1>1, <2>2
  <2>4. Index(s) + 1 = (row + 1) * w
    <3> HIDE DEF n, w
    <3> QED
        BY <1>1, <1>3, <1>9, <2>2
  <2> QED
      BY <1>3, <1>12, <2>1, <2>3, <2>4
<1> QED
    BY <1>10, <1>11, <1>12 DEF EndOfScan, EndOfIMcuRow

\* The step to the next MCU of a scan.
LEMMA ScanStep ==
    ASSUME image \in Images, NEW s, IsScan(s), CountersOK(s), NextMcu(s),
           image' = image
    PROVE  /\ EndOfScan(s) => /\ Index(s) + 1 = AllMcus(s)
                              /\ row' = 0 /\ vert' = 0 /\ ctr' = 0
           /\ ~ EndOfScan(s) => CountersOK(s)' /\ Index(s)' = Index(s) + 1
<1>1. CASE \E c \in Comps : s = <<c>>
  <2>1. PICK c \in Comps : s = <<c>>
      BY <1>1
  <2> QED
      BY <2>1, SingleStep
<1>2. CASE Len(image.comps) > 1 /\ s = [c \in Comps |-> c]
    BY <1>2, AllStep
<1> QED
    BY <1>1, <1>2 DEF IsScan

-----------------------------------------------------------------------------
(* Files.                                                                  *)

\* The scans of a file: every component is in one.
IsFile(scans) ==
    /\ DOMAIN scans = 1 .. Len(scans)
    /\ Len(scans) \in Nat \ {0}
    /\ \A k \in 1 .. Len(scans) : IsScan(scans[k])
    /\ \A c \in Comps : \E k \in 1 .. Len(scans) :
          \E i \in 1 .. Len(scans[k]) : scans[k][i] = c

Orders(scans) == [k \in 1 .. Len(scans) |-> ScanOrder(scans[k])]
FileOrder(scans) == FlattenSeq(Orders(scans))
Starts(scans) == CHOOSE off : IsOffsets(off, Orders(scans))

\* How many blocks come before the MCU that is next, in scan k.
Pos(scans, k) == Starts(scans)[k - 1] + Index(scans[k]) * McuLen(scans[k])

\* Both scripts give a file: all components in a scan, and one each.
LEMMA FilesOfImage ==
    ASSUME image \in Images
    PROVE  IsFile(Interleaved) /\ IsFile(Separate)
<1> DEFINE n == Len(image.comps)
           all == [c \in Comps |-> c]
<1>1. n \in Nat \ {0} /\ Comps = 1 .. n
    BY GeometryHolds DEF Geometry, Comps
<1>2. Interleaved = <<all>>
    BY DEF Interleaved
<1> HIDE DEF n
<1>3. IsScan(all)
  <2>1. CASE n = 1
    <3>1. all = <<1>> /\ 1 \in Comps
        BY <1>1, <2>1
    <3> HIDE DEF all
    <3> QED
        BY <3>1 DEF IsScan
  <2>2. CASE n > 1
      BY <2>2 DEF IsScan, n
  <2> QED
      BY <1>1, <2>1, <2>2
<1>4. Len(all) = n /\ \A c \in Comps : c \in 1 .. n /\ all[c] = c
    BY <1>1
<1> HIDE DEF all
<1>5. IsFile(Interleaved)
  <2>1. Len(Interleaved) = 1 /\ Interleaved[1] = all /\ DOMAIN Interleaved = 1 .. 1
      BY <1>2
  <2>2. 1 \in 1 .. 1 /\ \A k \in 1 .. 1 : k = 1
      OBVIOUS
  <2>3. \A k \in 1 .. 1 : IsScan(Interleaved[k])
      BY <1>3, <2>1, <2>2
  <2>4. ASSUME NEW c \in Comps
        PROVE  \E k \in 1 .. 1 : \E i \in 1 .. Len(Interleaved[k]) : Interleaved[k][i] = c
    <3>1. c \in 1 .. Len(Interleaved[1]) /\ Interleaved[1][c] = c
        BY <1>4, <2>1
    <3> QED
        BY <2>2, <3>1
  <2> QED
      BY <2>1, <2>3, <2>4 DEF IsFile
<1>6. IsFile(Separate)
  <2>1. Separate = [c \in 1 .. n |-> <<c>>]
      BY <1>1 DEF Separate
  <2>2. Len(Separate) = n /\ DOMAIN Separate = 1 .. n
      BY <1>1, <2>1
  <2>3. \A k \in 1 .. n : Separate[k] = <<k>>
      BY <2>1
  <2>4. \A k \in 1 .. n : IsScan(Separate[k])
      BY <1>1, <2>3 DEF IsScan
  <2>5. ASSUME NEW c \in Comps
        PROVE  \E k \in 1 .. n : \E i \in 1 .. Len(Separate[k]) : Separate[k][i] = c
    <3>1. c \in 1 .. n /\ Separate[c] = <<c>>
        BY <1>1, <2>3
    <3>2. 1 \in 1 .. Len(Separate[c]) /\ Separate[c][1] = c
        BY <3>1
    <3> QED
        BY <3>1, <3>2
  <2> QED
      BY <1>1, <2>2, <2>4, <2>5 DEF IsFile
<1> QED
    BY <1>5, <1>6

\* The orders of the scans are sequences of blocks, with offsets.
LEMMA OrdersFit ==
    ASSUME image \in Images, NEW scans, IsFile(scans)
    PROVE  /\ Orders(scans) \in Seq(Seq(Places)) /\ Orders(scans) # <<>>
           /\ Len(Orders(scans)) = Len(scans)
           /\ \A k \in 1 .. Len(scans) : Orders(scans)[k] = ScanOrder(scans[k])
           /\ IsOffsets(Starts(scans), Orders(scans))
<1> DEFINE n == Len(scans)
           os == Orders(scans)
<1>1. n \in Nat \ {0} /\ \A k \in 1 .. n : IsScan(scans[k])
    BY DEF IsFile
<1>2. os = [k \in 1 .. n |-> ScanOrder(scans[k])]
    BY DEF Orders
<1>3. \A k \in 1 .. n : ScanOrder(scans[k]) \in Seq(Places)
    BY <1>1, ScanFacts DEF OrderFits
<1> HIDE DEF n, os
<1>4. os \in Seq(Seq(Places)) /\ Len(os) = n /\ os # <<>>
  <2> DEFINE S == Seq(Places)
  <2>1. \A k \in 1 .. n : os[k] \in S
      BY <1>2, <1>3
  <2> HIDE DEF S
  <2>2. os \in Seq(S) /\ Len(os) = n
      BY <1>1, <1>2, <2>1
  <2>3. os # <<>>
      BY <1>1, <2>2
  <2> QED
      BY <2>2, <2>3 DEF S
<1>5. \E off : IsOffsets(off, os)
    BY <1>4, OffsetsExist
<1>6. IsOffsets(Starts(scans), os)
    BY <1>5, Zenon DEF Starts, os
<1> QED
    BY <1>2, <1>4, <1>6 DEF os, n

\* The whole file: where its scans start, and that every block is in it.
LEMMA FileFacts ==
    ASSUME image \in Images, NEW scans, IsFile(scans)
    PROVE  /\ FileOrder(scans) \in Seq(Places)
           /\ Starts(scans) \in [0 .. Len(scans) -> Nat]
           /\ Starts(scans)[0] = 0
           /\ Len(FileOrder(scans)) = Starts(scans)[Len(scans)]
           /\ \A k \in 1 .. Len(scans) :
                 /\ Starts(scans)[k] = Starts(scans)[k - 1] + Len(ScanOrder(scans[k]))
                 /\ \A q \in 1 .. Len(ScanOrder(scans[k])) :
                       /\ Starts(scans)[k - 1] + q \in 1 .. Len(FileOrder(scans))
                       /\ FileOrder(scans)[Starts(scans)[k - 1] + q] = ScanOrder(scans[k])[q]
           /\ \A p \in Places : InImage(p) =>
                 \E j \in 1 .. Len(FileOrder(scans)) : FileOrder(scans)[j] = p
<1> DEFINE n == Len(scans)
           os == Orders(scans)
           off == Starts(scans)
           order == FileOrder(scans)
<1>1. /\ os \in Seq(Seq(Places)) /\ os # <<>>
      /\ Len(os) = n /\ \A k \in 1 .. n : os[k] = ScanOrder(scans[k])
      /\ IsOffsets(off, os)
    BY OrdersFit
<1>2. order = FlattenSeq(os)
    BY DEF FileOrder
<1> HIDE DEF n, os, off, order
<1>3. /\ order \in Seq(Places)
      /\ Len(order) = off[n]
      /\ \A k \in 1 .. n : \A q \in 1 .. Len(os[k]) :
            /\ off[k - 1] + q \in 1 .. off[n]
            /\ order[off[k - 1] + q] = os[k][q]
    BY <1>1, <1>2, FlattenFacts
<1>4. /\ off \in [0 .. n -> Nat]
      /\ off[0] = 0
      /\ \A k \in 1 .. n : off[k] = off[k - 1] + Len(os[k])
    BY <1>1 DEF IsOffsets
<1>5. ASSUME NEW p \in Places, InImage(p)
      PROVE  \E j \in 1 .. Len(order) : order[j] = p
  <2>1. p[1] \in Comps
      BY PlaceFacts
  <2>2. PICK k \in 1 .. n : \E i \in 1 .. Len(scans[k]) : scans[k][i] = p[1]
      BY <2>1 DEF IsFile, n
  <2>3. IsScan(scans[k])
      BY <2>2 DEF IsFile, n
  <2>4. PICK q \in 1 .. Len(ScanOrder(scans[k])) : ScanOrder(scans[k])[q] = p
      BY <1>5, <2>2, <2>3, ScanFacts DEF OrderFits
  <2>5. q \in 1 .. Len(os[k]) /\ os[k][q] = p
      BY <1>1, <2>4
  <2>6. off[k - 1] + q \in 1 .. Len(order) /\ order[off[k - 1] + q] = p
      BY <1>3, <2>5
  <2> QED
      BY <2>6
<1> QED
    BY <1>1, <1>3, <1>4, <1>5 DEF n, off, order

\* The MCU that is next is the next part of the file.
LEMMA McuInFile ==
    ASSUME image \in Images, NEW scans, IsFile(scans), NEW k \in 1 .. Len(scans),
           CountersOK(scans[k])
    PROVE  /\ Pos(scans, k) \in Nat
           /\ McuLen(scans[k]) \in Nat \ {0}
           /\ DOMAIN McuPlaces(scans[k]) = 1 .. McuLen(scans[k])
           /\ Len(McuPlaces(scans[k])) = McuLen(scans[k])
           /\ Pos(scans, k) + McuLen(scans[k]) <= Len(FileOrder(scans))
           /\ \A j \in 1 .. McuLen(scans[k]) :
                 /\ McuPlaces(scans[k])[j] = FileOrder(scans)[Pos(scans, k) + j]
                 /\ McuPlaces(scans[k])[j] \in Places
<1> DEFINE s == scans[k]
           m == McuLen(s)
           i == Index(s)
           b == Starts(scans)[k - 1]
           all == AllMcus(s)
<1>1. OrderFits(s) /\ McuFits(s)
    BY ScanFacts DEF IsFile
<1>2. m \in Nat \ {0} /\ all \in Nat \ {0} /\ i \in 0 .. all - 1
      /\ Len(ScanOrder(s)) = all * m
    BY <1>1 DEF OrderFits, McuFits
<1>3. k - 1 \in 0 .. Len(scans) /\ Len(scans) \in Nat
    BY DEF IsFile
<1>4. b \in Nat
    BY <1>3, FileFacts
<1>5. Pos(scans, k) = b + i * m
    BY DEF Pos
<1>6. /\ \A q \in 1 .. Len(ScanOrder(s)) :
            /\ b + q \in 1 .. Len(FileOrder(scans))
            /\ FileOrder(scans)[b + q] = ScanOrder(s)[q]
      /\ FileOrder(scans) \in Seq(Places)
    BY FileFacts
<1>7. Len(FileOrder(scans)) \in Nat
    BY <1>6
<1>8. \A j \in 1 .. m : McuPlaces(s)[j] = ScanOrder(s)[i * m + j]
    BY <1>1 DEF McuFits
<1>9. DOMAIN McuPlaces(s) = 1 .. m /\ Len(McuPlaces(s)) = m
    BY <1>1 DEF McuFits
<1> HIDE DEF s, m, i, b, all
<1>10. i \in Nat /\ i * m \in Nat /\ i * m + m <= all * m /\ all * m \in Nat
    BY <1>2, ProductOrder, ProductNat
<1>11. ASSUME NEW j \in 1 .. m
       PROVE  /\ b + i * m + j \in 1 .. Len(FileOrder(scans))
              /\ McuPlaces(s)[j] = FileOrder(scans)[b + i * m + j]
  <2> DEFINE q == i * m + j
  <2>1. q \in 1 .. Len(ScanOrder(s)) /\ b + i * m + j = b + q
      BY <1>2, <1>4, <1>10
  <2> HIDE DEF q
  <2>2. b + q \in 1 .. Len(FileOrder(scans)) /\ FileOrder(scans)[b + q] = ScanOrder(s)[q]
      BY <1>6, <2>1
  <2>3. McuPlaces(s)[j] = ScanOrder(s)[q]
      BY <1>8 DEF q
  <2> QED
      BY <2>1, <2>2, <2>3
<1>12. b + i * m + m <= Len(FileOrder(scans))
  <2>1. m \in 1 .. m
      BY <1>2
  <2> QED
      BY <1>7, <1>11, <2>1
<1>13. \A j \in 1 .. m : McuPlaces(s)[j] \in Places
    BY <1>6, <1>11
<1>14. b + i * m \in Nat
    BY <1>4, <1>10
<1> QED
    BY <1>2, <1>5, <1>9, <1>11, <1>12, <1>13, <1>14 DEF s, m, i, b

\* And after it the file goes on with the next MCU, or the next scan.
LEMMA FileStep ==
    ASSUME image \in Images, NEW scans, IsFile(scans), NEW k \in 1 .. Len(scans),
           CountersOK(scans[k]), NextMcu(scans[k]), image' = image
    PROVE  /\ EndOfScan(scans[k]) =>
                 /\ row' = 0 /\ vert' = 0 /\ ctr' = 0
                 /\ Pos(scans, k) + McuLen(scans[k]) = Starts(scans)[k]
           /\ ~ EndOfScan(scans[k]) =>
                 /\ CountersOK(scans[k])'
                 /\ Pos(scans, k)' = Pos(scans, k) + McuLen(scans[k])
<1> DEFINE s == scans[k]
           m == McuLen(s)
           i == Index(s)
           b == Starts(scans)[k - 1]
<1>1. OrderFits(s) /\ McuFits(s) /\ IsScan(s)
    BY ScanFacts DEF IsFile
<1>2. m \in Nat \ {0} /\ AllMcus(s) \in Nat \ {0} /\ i \in 0 .. AllMcus(s) - 1
      /\ Len(ScanOrder(s)) = AllMcus(s) * m
    BY <1>1 DEF OrderFits, McuFits
<1>3. k - 1 \in 0 .. Len(scans) /\ Len(scans) \in Nat
    BY DEF IsFile
<1>4. b \in Nat /\ Starts(scans)[k] = b + Len(ScanOrder(s))
    BY <1>3, FileFacts
<1>5. Pos(scans, k) = b + i * m
    BY DEF Pos
<1>6. i \in Nat /\ i * m \in Nat /\ (i + 1) * m = i * m + m
    BY <1>2, ProductNat
<1>7. /\ EndOfScan(s) => /\ Index(s) + 1 = AllMcus(s)
                         /\ row' = 0 /\ vert' = 0 /\ ctr' = 0
      /\ ~ EndOfScan(s) => CountersOK(s)' /\ Index(s)' = Index(s) + 1
    BY <1>1, ScanStep
<1>8. McuLen(s)' = m /\ Starts(scans)' = Starts(scans)
  <2>1. Cols' = Cols /\ Rows' = Rows /\ (\A c : H(c)' = H(c) /\ V(c)' = V(c))
        /\ \A c : Width(c)' = Width(c) /\ Height(c)' = Height(c)
      BY SameImage
  <2>2. McuLen(s)' = m
      BY <2>1 DEF McuLen, Single, Unit
  <2>3. \A a : ScanOrder(a)' = ScanOrder(a)
      BY DEF ScanOrder, Single, Height, Width, H, V, Rows, MaxH, MaxV, Comps
  <2>4. Orders(scans)' = Orders(scans)
      BY <2>3 DEF Orders
  <2>5. Starts(scans)' = Starts(scans)
      BY <2>4 DEF Starts
  <2> QED
      BY <2>2, <2>5
<1>9. Pos(scans, k)' = b + Index(s)' * m
    BY <1>8 DEF Pos
<1> HIDE DEF s, m, i, b
<1>10. EndOfScan(s) => b + i * m + m = b + Len(ScanOrder(s))
    BY <1>2, <1>4, <1>6, <1>7 DEF i
<1>11. ~ EndOfScan(s) => b + Index(s)' * m = b + i * m + m
    BY <1>2, <1>4, <1>6, <1>7 DEF i
<1> QED
    BY <1>4, <1>5, <1>7, <1>9, <1>10, <1>11 DEF s, m

\* At the start of scan k.
LEMMA FileStart ==
    ASSUME image \in Images, NEW scans, IsFile(scans), NEW k \in 1 .. Len(scans),
           row = 0, vert = 0, ctr = 0
    PROVE  CountersOK(scans[k]) /\ Pos(scans, k) = Starts(scans)[k - 1]
<1>1. IsScan(scans[k])
    BY DEF IsFile
<1>2. CountersOK(scans[k]) /\ Index(scans[k]) = 0 /\ McuLen(scans[k]) \in Nat
    BY <1>1, CountersStart, ScanFacts DEF OrderFits
<1>3. k - 1 \in 0 .. Len(scans)
    BY DEF IsFile
<1>4. Starts(scans)[k - 1] \in Nat
    BY <1>3, FileFacts
<1>5. 0 * McuLen(scans[k]) = 0
    BY <1>2
<1> QED
    BY <1>2, <1>4, <1>5 DEF Pos

-----------------------------------------------------------------------------
(* The walk.                                                               *)

\* What the walk of the sender leaves in a place.
Visited(p) == Visit(p[1], CHOOSE n \in DOMAIN Visits(p[1]) : Visits(p[1])[n] = p)

\* The walk comes to every block of the image, once.
LEMMA VisitFacts ==
    ASSUME image \in Images, NEW c \in Comps
    PROVE  /\ DOMAIN Visits(c) = 1 .. Len(Visits(c))
           /\ \A n, m \in DOMAIN Visits(c) : Visits(c)[n] = Visits(c)[m] => n = m
           /\ \A p \in Places : p[1] = c /\ InImage(p) =>
                 \E n \in DOMAIN Visits(c) : Visits(c)[n] = p
           /\ \A n \in DOMAIN Visits(c) :
                 /\ Visits(c)[n][1] = c
                 /\ InImage(Visits(c)[n]) => Visits(c)[n] \in Places
<1> DEFINE w == Width(c)
           h == Rows * V(c)
           visits == Visits(c)
<1>1. Geometry /\ Sized(c)
    BY GeometryHolds DEF Geometry
<1>2. w \in Nat \ {0} /\ h \in Nat \ {0} /\ Height(c) <= h /\ Height(c) \in Nat
      /\ w <= Cols * H(c) /\ Cols * H(c) \in Nat
    BY <1>1, ProductNat DEF Geometry, Sized
<1>3. visits = [n \in 1 .. h * w |-> Raster(c, w, n)]
    BY <1>1 DEF Visits, Sized
<1> HIDE DEF visits, h
<1> DEFINE l == h * w
<1>5. l \in Nat
    BY <1>2, ProductNat
<1>6. DOMAIN visits = 1 .. l /\ Len(visits) = l
  <2> HIDE DEF l
  <2>1. visits = [n \in 1 .. l |-> Raster(c, w, n)]
      BY <1>3 DEF l
  <2> QED
      BY <1>5, <2>1
<1>7. \A n \in 1 .. l : n \in Nat \ {0} /\ visits[n] = Raster(c, w, n)
    BY <1>3, <1>5
<1>8. ASSUME NEW n \in 1 .. l, NEW m \in 1 .. l, visits[n] = visits[m]
      PROVE  n = m
  <2>1. n \in Nat \ {0} /\ m \in Nat \ {0} /\ Raster(c, w, n) = Raster(c, w, m)
      BY <1>7, <1>8
  <2> HIDE DEF w
  <2> QED
      BY <1>2, <2>1, RasterOnce
<1>9. ASSUME NEW p \in Places, p[1] = c, InImage(p)
      PROVE  \E n \in 1 .. l : visits[n] = p
  <2> DEFINE x == p[2]
             y == p[3]
             n == x * w + y + 1
  <2>1. /\ p = <<c, x, y>> /\ x \in 0 .. Rows * V(c) - 1
        /\ y \in 0 .. Cols * H(c) - 1
      BY <1>9, PlaceFacts
  <2>2. x \in Nat /\ y \in Nat /\ x < h /\ y < w
      BY <1>2, <1>9, <2>1 DEF InImage
  <2> HIDE DEF x, y, w
  <2>3. y \in 0 .. w - 1
      BY <1>2, <2>2
  <2>4. x * w + y + 1 \in Nat \ {0} /\ Raster(c, w, x * w + y + 1) = <<c, x, y>>
    <3>1. w \in Nat \ {0} /\ x \in Nat
        BY <1>2, <2>2
    <3>2. Raster(c, w, x * w + y + 1) = <<c, x, y>>
        BY <2>3, <3>1, RasterOf, Zenon
    <3>3. x * w \in Nat
        BY <3>1, ProductNat
    <3>4. x * w + y + 1 \in Nat \ {0}
        BY <2>2, <3>3
    <3> QED
        BY <3>2, <3>4
  <2>5. x * w + w <= h * w /\ x * w \in Nat
      BY <1>2, <2>2, ProductOrder, ProductNat
  <2>6. n <= l
      BY <1>2, <1>5, <2>2, <2>5
  <2>7. n \in 1 .. l
      BY <1>5, <2>4, <2>6
  <2> HIDE DEF l
  <2>8. visits[n] = p
      BY <1>7, <2>1, <2>4, <2>7
  <2> QED
      BY <2>7, <2>8
<1>10. ASSUME NEW n \in 1 .. l
       PROVE  /\ visits[n][1] = c
              /\ InImage(visits[n]) => visits[n] \in Places
  <2> DEFINE x == Raster(c, w, n)[2]
             y == Raster(c, w, n)[3]
  <2>1. n \in Nat \ {0} /\ visits[n] = Raster(c, w, n)
      BY <1>7
  <2>2. x \in Nat /\ y \in 0 .. w - 1 /\ Raster(c, w, n) = <<c, x, y>>
    <3> HIDE DEF w
    <3> QED
        BY <1>2, <2>1, RasterAt
  <2> HIDE DEF x, y
  <2>3. visits[n] = <<c, x, y>>
      BY <2>1, <2>2
  <2>4. ASSUME InImage(<<c, x, y>>) PROVE <<c, x, y>> \in Places
    <3>1. x < Height(c)
        BY <2>4 DEF InImage
    <3>2. x \in 0 .. Rows * V(c) - 1 /\ y \in 0 .. Cols * H(c) - 1
        BY <1>2, <2>2, <3>1 DEF h
    <3> QED
        BY <3>2, PlaceFacts
  <2> QED
      BY <2>3, <2>4
<1> HIDE DEF l
<1> QED
    BY <1>6, <1>8, <1>9, <1>10 DEF visits

\* A place holds what the visit to it left there.
LEMMA VisitedIs ==
    ASSUME image \in Images, NEW c \in Comps, NEW n \in DOMAIN Visits(c)
    PROVE  Visited(Visits(c)[n]) = Visit(c, n)
<1> DEFINE p == Visits(c)[n]
           m == CHOOSE k \in DOMAIN Visits(c) : Visits(c)[k] = p
<1>1. p[1] = c
    BY VisitFacts
<1>2. m \in DOMAIN Visits(c) /\ Visits(c)[m] = p
    OBVIOUS
<1>3. m = n
    BY <1>2, VisitFacts
<1>4. Visited(p) = Visit(c, m)
    BY <1>1 DEF Visited
<1> QED
    BY <1>3, <1>4

\* Blocks that pad an MCU are taken to be none of the image.
LEMMA RealInImage ==
    ASSUME image \in Images, NEW s, IsScan(s), CountersOK(s), NEW p \in Places,
           InImage(p), Contains(McuPlaces(s), p), s = Interleaved[1]
    PROVE  Real(s, p)
<1> DEFINE c == p[1]
<1>1. Geometry /\ Sized(c) /\ c \in Comps
    BY PlaceFacts, GeometryHolds DEF Geometry
<1>2. p[2] < Height(c) /\ p[3] < Width(c) /\ p[2] \in Int /\ p[3] \in Int
  <2>1. p[2] \in 0 .. Rows * V(c) - 1 /\ p[3] \in 0 .. Cols * H(c) - 1
      BY PlaceFacts
  <2> QED
      BY <2>1 DEF InImage
<1>3. Rows \in Nat \ {0} /\ Cols \in Nat \ {0} /\ H(c) \in Nat \ {0} /\ V(c) \in Nat \ {0}
      /\ Width(c) \in Nat /\ Height(c) \in Nat
    BY <1>1 DEF Geometry, Sized
<1>4. LastRow(c) = Height(c) - (Rows - 1) * V(c)
      /\ Remainder(Width(c), H(c)) = Width(c) - (Cols - 1) * H(c)
    BY <1>1, LastFacts
<1> HIDE DEF c
<1>5. (Rows - 1) * V(c) \in Nat /\ (Cols - 1) * H(c) \in Nat
    BY <1>3, ProductNat
<1>6. row = Rows - 1 => p[2] - row * V(c) < LastRow(c)
    BY <1>2, <1>3, <1>4, <1>5
<1>7. CASE Single(s)
  <2>1. McuWidth(s, c) = 1 /\ LastCol(s, c) = 1
    <3>1. McuWidth(s, c) = 1
        BY <1>7 DEF McuWidth
    <3>2. Remainder(Width(c), 1) = 1
        BY <1>3, RemainderOne
    <3> QED
        BY <3>1, <3>2 DEF LastCol
  <2>2. EndOfRow(s) => p[3] - ctr * 1 < 1
    <3>1. s[1] = c
      <4>1. s = [a \in Comps |-> a] /\ Len(s) = 1
          BY <1>7 DEF Interleaved, Single
      <4>2. Comps = 1 .. Len(image.comps) /\ Len(image.comps) \in Nat
          BY <1>1 DEF Comps, Geometry
      <4>3. Len(s) = Len(image.comps)
          BY <4>1, <4>2
      <4>4. Comps = 1 .. 1
          BY <4>1, <4>2, <4>3
      <4>5. c = 1 /\ s[1] = 1
          BY <1>1, <4>1, <4>4 DEF c
      <4> QED
          BY <4>5
    <3>2. EndOfRow(s) <=> ctr = Width(c) - 1
        BY <1>7, <3>1 DEF EndOfRow, McusPerRow
    <3> QED
        BY <1>2, <1>3, <3>2 DEF c
  <2> QED
      BY <1>6, <2>1, <2>2 DEF Real, c
<1>8. CASE ~ Single(s)
  <2>1. McuWidth(s, c) = H(c) /\ LastCol(s, c) = Remainder(Width(c), H(c))
      BY <1>8 DEF McuWidth, LastCol
  <2>2. EndOfRow(s) <=> ctr = Cols - 1
      BY <1>8 DEF EndOfRow, McusPerRow, Cols
  <2>3. EndOfRow(s) => p[3] - ctr * H(c) < LastCol(s, c)
      BY <1>2, <1>3, <1>4, <1>5, <2>1, <2>2
  <2> QED
      BY <1>6, <2>1, <2>3 DEF Real, c
<1> QED
    BY <1>7, <1>8

-----------------------------------------------------------------------------
(* The inductive invariant.                                                *)

\* What a block has for the reader: the sender's for its place, the
\* receiver's for the visit to it.
Content(p) == IF side = "sender" THEN p ELSE Visited(p)

IsSeq(s) == \E S : s \in Seq(S)

\* The file holds the blocks of scans from the pos-th on.
FileRest(scans, pos) ==
    /\ IsSeq(file)
    /\ Len(file) = Len(FileOrder(scans)) - pos
    /\ \A n \in 1 .. Len(file) :
          InImage(FileOrder(scans)[pos + n]) =>
              file[n] = Content(FileOrder(scans)[pos + n])

\* The arrays hold the blocks up to there.
ArrayFilled(scans, pos) ==
    \A p \in Places, j \in 1 .. pos :
        InImage(p) /\ FileOrder(scans)[j] = p => array[p] = Content(p)

\* The first n blocks have been written.
FileWritten(n) ==
    /\ IsSeq(file)
    /\ Len(file) = n
    /\ \A j \in 1 .. n : InImage(FileOrder(Interleaved)[j]) =>
          file[j] = Visited(FileOrder(Interleaved)[j])

AtRest == row = 0 /\ vert = 0 /\ ctr = 0
AllVisited == \A p \in Places : InImage(p) => array[p] = Visited(p)

Reading ==
    /\ scan \in 1 .. Len(Scans)
    /\ CountersOK(Scans[scan])
    /\ FileRest(Scans, Pos(Scans, scan))
    /\ ArrayFilled(Scans, Pos(Scans, scan))

Walking ==
    /\ AtRest
    /\ file = <<>>
    /\ \A p \in Places : InImage(p) => array[p] = Content(p)

Encoding ==
    /\ AllVisited
    /\ CountersOK(Interleaved[1])
    /\ FileWritten(Pos(Interleaved, 1))

BlockInv ==
    /\ image \in Images
    /\ side \in {"sender", "receiver"}
    /\ pc = "read" => Reading
    /\ pc = "walk" => Walking
    /\ pc = "start" => AtRest /\ AllVisited
    /\ pc = "write" => Encoding
    /\ pc \in {"trailer", "term", "written"} =>
          AtRest /\ FileWritten(Len(FileOrder(Interleaved)))
    /\ PayloadKept

\* The scans of the image at hand are a file.
LEMMA ScansFile == ASSUME image \in Images PROVE IsFile(Scans)
BY FilesOfImage DEF Scans

\* The orders and the walk stay while the image does.
LEMMA SameOrders ==
    ASSUME image' = image
    PROVE  /\ Places' = Places
           /\ \A p : InImage(p)' = InImage(p) /\ Visited(p)' = Visited(p)
           /\ \A c : Visits(c)' = Visits(c)
           /\ Interleaved' = Interleaved /\ Separate' = Separate
           /\ \A scans : FileOrder(scans)' = FileOrder(scans)
<1>1. /\ Rows' = Rows /\ Cols' = Cols /\ Comps' = Comps
      /\ \A c : H(c)' = H(c) /\ V(c)' = V(c)
      /\ \A c : Width(c)' = Width(c) /\ Height(c)' = Height(c)
    BY SameImage
<1>2. Places' = Places
    BY DEF Places, Comps, Rows, Height, Width, H, V, MaxH, MaxV
<1>3. \A c : Visits(c)' = Visits(c)
    BY <1>1 DEF Visits
<1>4. \A p : InImage(p)' = InImage(p) /\ Visited(p)' = Visited(p)
    BY <1>1, <1>3 DEF InImage, Visited
<1>5. Interleaved' = Interleaved /\ Separate' = Separate
    BY <1>1 DEF Interleaved, Separate
<1>6. \A a : ScanOrder(a)' = ScanOrder(a)
    BY DEF ScanOrder, Single, Height, Width, H, V, Rows, MaxH, MaxV, Comps
<1>7. \A scans : FileOrder(scans)' = FileOrder(scans)
    BY <1>6 DEF FileOrder, Orders
<1> QED
    BY <1>2, <1>3, <1>4, <1>5, <1>7

\* At the start of a scan, also of one that the step begins.
ScanStarts ==
    image \in Images /\ AtRest =>
        \A scans : IsFile(scans) =>
            \A k \in 1 .. Len(scans) :
                CountersOK(scans[k]) /\ Pos(scans, k) = Starts(scans)[k - 1]

LEMMA ScanStartsHolds == ScanStarts
BY FileStart DEF ScanStarts, AtRest

\* What holds of the scans of the image at hand.
FilesAreFiles == image \in Images =>
    /\ IsFile(Scans)
    /\ \A scans : IsFile(scans) =>
          /\ Starts(scans)[0] = 0
          /\ Len(FileOrder(scans)) = Starts(scans)[Len(scans)]
          /\ FileOrder(scans) \in Seq(Places)

\* These hold in every state, and so in the next.
LEMMA FilesAreFilesHolds == FilesAreFiles
BY ScansFile, FileFacts DEF FilesAreFiles

LEMMA PrimedFacts == ScanStarts' /\ FilesAreFiles'
<1>1. ScanStarts'
    BY ScanStartsHolds, PTL
<1>2. FilesAreFiles'
    BY FilesAreFilesHolds, PTL
<1> QED
    BY <1>1, <1>2

-----------------------------------------------------------------------------
(* What stays.                                                             *)

\* Reading an MCU fills its blocks in the arrays.
LEMMA ReadKeeps ==
    ASSUME BlockInv, ReadMcu
    PROVE  BlockInv'
<1>1. image \in Images /\ image' = image /\ side' = side /\ pc = "read" /\ Reading
      /\ side \in {"sender", "receiver"}
    BY DEF BlockInv, ReadMcu
<1>2. PICK scans : scans = Scans
    OBVIOUS
<1>3. IsFile(scans)
    BY <1>1, <1>2, ScansFile
<1>4. PICK k \in 1 .. Len(scans) : k = scan
    BY <1>1, <1>2 DEF Reading
<1>5. PICK b : b = Pos(scans, k)
    OBVIOUS
<1>6. PICK order : order = FileOrder(scans)
    OBVIOUS
<1> DEFINE s == scans[k]
           mcu == McuPlaces(s)
           m == McuLen(s)
<1>7. CountersOK(s) /\ FileRest(scans, b) /\ ArrayFilled(scans, b)
    BY <1>1, <1>2, <1>4, <1>5 DEF Reading
<1>8. /\ array' = [p \in Places |->
                     IF Contains(mcu, p)
                       THEN file[CHOOSE n \in 1 .. Len(mcu) : mcu[n] = p]
                       ELSE array[p]]
      /\ file' = SubSeq(file, Len(mcu) + 1, Len(file))
      /\ NextMcu(s)
      /\ IF EndOfScan(s) /\ scan = Len(scans)
           THEN pc' = "walk" /\ scan' = 1
           ELSE pc' = pc /\ scan' = IF EndOfScan(s) THEN scan + 1 ELSE scan
    BY <1>2, <1>4 DEF ReadMcu
<1>9. /\ b \in Nat /\ m \in Nat \ {0}
      /\ Len(mcu) = m
      /\ b + m <= Len(order)
      /\ \A j \in 1 .. m : mcu[j] = order[b + j] /\ mcu[j] \in Places
    BY <1>1, <1>3, <1>5, <1>6, <1>7, McuInFile
<1>10. order \in Seq(Places) /\ Len(order) \in Nat
    BY <1>1, <1>3, <1>6, FileFacts
<1>11. /\ EndOfScan(s) => /\ row' = 0 /\ vert' = 0 /\ ctr' = 0
                          /\ b + m = Starts(scans)[k]
       /\ ~ EndOfScan(s) => CountersOK(s)' /\ Pos(scans, k)' = b + m
    BY <1>1, <1>3, <1>5, <1>7, <1>8, FileStep
<1>12. /\ Places' = Places
       /\ \A p : InImage(p)' = InImage(p) /\ Content(p)' = Content(p)
       /\ FileOrder(scans)' = order
       /\ Scans' = scans
    BY <1>1, <1>2, <1>6, SameOrders DEF Content, Scans
<1>13. /\ IsSeq(file)
       /\ Len(file) = Len(order) - b
       /\ \A n \in 1 .. Len(file) : InImage(order[b + n]) => file[n] = Content(order[b + n])
    BY <1>6, <1>7 DEF FileRest
<1>14. \A p \in Places, j \in 1 .. b : InImage(p) /\ order[j] = p => array[p] = Content(p)
    BY <1>6, <1>7 DEF ArrayFilled
<1> HIDE DEF mcu, m, s
<1>15. PICK B : B = b + m
    OBVIOUS
<1>16. /\ IsSeq(file')
       /\ Len(file') = Len(order) - B
       /\ \A n \in 1 .. Len(file') :
             /\ file'[n] = file[m + n] /\ m + n \in 1 .. Len(file)
  <2>1. PICK S : file \in Seq(S)
      BY <1>13 DEF IsSeq
  <2>2. Len(file) \in Nat /\ m + 1 \in Int
        /\ \A i \in m + 1 .. Len(file) : file[i] \in S
      BY <1>9, <2>1
  <2>3. /\ SubSeq(file, m + 1, Len(file)) \in Seq(S)
        /\ Len(SubSeq(file, m + 1, Len(file))) =
              IF m + 1 <= Len(file) THEN Len(file) - (m + 1) + 1 ELSE 0
        /\ \A i \in 1 .. Len(file) - (m + 1) + 1 :
              SubSeq(file, m + 1, Len(file))[i] = file[m + 1 + i - 1]
      BY <2>2, SubSeqProperties
  <2>4. file' = SubSeq(file, m + 1, Len(file))
      BY <1>8, <1>9
  <2>5. Len(file) >= m
      BY <1>9, <1>10, <1>13
  <2>6. Len(file') = Len(file) - m
      BY <1>9, <2>2, <2>3, <2>4, <2>5
  <2>7. IsSeq(file')
      BY <2>3, <2>4 DEF IsSeq
  <2>8. ASSUME NEW n \in 1 .. Len(file')
        PROVE  file'[n] = file[m + n] /\ m + n \in 1 .. Len(file)
    <3>1. n \in 1 .. Len(file) - (m + 1) + 1 /\ m + 1 + n - 1 = m + n
          /\ m + n \in 1 .. Len(file)
        BY <1>9, <2>2, <2>5, <2>6
    <3> QED
        BY <2>3, <2>4, <3>1
  <2> QED
      BY <1>9, <1>10, <1>13, <1>15, <2>6, <2>7, <2>8
<1>17. \A n \in 1 .. Len(file') : InImage(order[B + n]) => file'[n] = Content(order[B + n])
  <2> TAKE n \in 1 .. Len(file')
  <2>1. file'[n] = file[m + n] /\ m + n \in 1 .. Len(file)
      BY <1>16
  <2>2. Len(file') \in Nat
      BY <1>9, <1>10, <1>15, <1>16
  <2>3. b + (m + n) = B + n
      BY <1>9, <1>15, <2>2
  <2> QED
      BY <1>13, <2>1, <2>3
<1>18. \A p \in Places, j \in 1 .. B : InImage(p) /\ order[j] = p => array'[p] = Content(p)
  <2> SUFFICES ASSUME NEW p \in Places, NEW j \in 1 .. B, InImage(p), order[j] = p
               PROVE  array'[p] = Content(p)
      OBVIOUS
  <2>1. CASE Contains(mcu, p)
    <3> DEFINE n == CHOOSE i \in 1 .. Len(mcu) : mcu[i] = p
    <3>1. n \in 1 .. Len(mcu) /\ mcu[n] = p
        BY <2>1 DEF Contains
    <3>2. array'[p] = file[n]
        BY <1>8, <2>1
    <3> HIDE DEF n
    <3>3. order[b + n] = p /\ n \in 1 .. Len(file)
        BY <1>9, <1>10, <1>13, <3>1
    <3> QED
        BY <1>13, <3>2, <3>3
  <2>2. CASE ~ Contains(mcu, p)
    <3>1. array'[p] = array[p]
        BY <1>8, <2>2
    <3>2. j \in 1 .. b
      <4> SUFFICES ASSUME j \notin 1 .. b PROVE FALSE
          OBVIOUS
      <4>1. j - b \in 1 .. m /\ b + (j - b) = j
          BY <1>9, <1>15
      <4>2. mcu[j - b] = p /\ j - b \in 1 .. Len(mcu)
          BY <1>9, <4>1
      <4> QED
          BY <2>2, <4>2 DEF Contains
    <3> QED
        BY <1>14, <3>1, <3>2
  <2> QED
      BY <2>1, <2>2
<1>19. FileRest(scans, B)' /\ ArrayFilled(scans, B)'
    BY <1>12, <1>16, <1>17, <1>18 DEF FileRest, ArrayFilled
<1>20. Len(scans) \in Nat /\ image' \in Images
    BY <1>1, <1>3 DEF IsFile
<1>21. CASE ~ EndOfScan(s)
  <2>1. pc' = "read" /\ scan' = k
      BY <1>1, <1>4, <1>8, <1>21
  <2>2. CountersOK(s)' /\ Pos(scans, k)' = B
      BY <1>11, <1>15, <1>21
  <2>3. Reading'
      BY <1>4, <1>12, <1>19, <2>1, <2>2 DEF Reading, s
  <2> QED
      BY <1>1, <1>20, <2>1, <2>3 DEF BlockInv, PayloadKept
<1>22. CASE EndOfScan(s) /\ k # Len(scans)
  <2>1. pc' = "read" /\ scan' = k + 1
      BY <1>1, <1>4, <1>8, <1>22
  <2>2. k + 1 \in 1 .. Len(scans) /\ (k + 1) - 1 = k
      BY <1>20, <1>22
  <2>3. AtRest'
      BY <1>11, <1>22 DEF AtRest
  <2>4. IsFile(scans)' /\ Starts(scans)' = Starts(scans)
    <3>1. FilesAreFiles'
        BY PrimedFacts
    <3>2. IsFile(scans)'
        BY <1>12, <1>20, <3>1 DEF FilesAreFiles
    <3>3. \A a : ScanOrder(a)' = ScanOrder(a)
        BY <1>1 DEF ScanOrder, Single, Height, Width, H, V, Rows, MaxH, MaxV, Comps
    <3>4. Starts(scans)' = Starts(scans)
        BY <3>3 DEF Starts, Orders
    <3> QED
        BY <3>2, <3>4
  <2>5. ScanStarts'
      BY PrimedFacts
  <2>6. CountersOK(scans[k + 1])' /\ Pos(scans, k + 1)' = Starts(scans)'[k]
      BY <1>20, <2>2, <2>3, <2>4, <2>5 DEF ScanStarts
  <2>7. Pos(scans, k + 1)' = B
      BY <1>11, <1>15, <1>22, <2>4, <2>6
  <2>8. Reading'
      BY <1>12, <1>19, <2>1, <2>2, <2>6, <2>7 DEF Reading
  <2> QED
      BY <1>1, <1>20, <2>1, <2>8 DEF BlockInv, PayloadKept
<1>23. CASE EndOfScan(s) /\ k = Len(scans)
  <2>1. pc' = "walk"
      BY <1>4, <1>8, <1>23
  <2>2. AtRest'
      BY <1>11, <1>23 DEF AtRest
  <2>3. B = Len(order)
      BY <1>1, <1>3, <1>6, <1>11, <1>15, <1>23, FileFacts
  <2>4. file' = <<>>
    <3>1. PICK S : file' \in Seq(S)
        BY <1>16 DEF IsSeq
    <3>2. Len(file') = 0
        BY <1>10, <1>16, <2>3
    <3> QED
        BY <3>1, <3>2
  <2>5. \A p \in Places : InImage(p) => array'[p] = Content(p)
      BY <1>1, <1>3, <1>6, <1>18, <2>3, FileFacts
  <2>6. Walking'
      BY <1>12, <2>2, <2>4, <2>5 DEF Walking
  <2> QED
      BY <1>1, <1>20, <2>1, <2>6 DEF BlockInv, PayloadKept
<1> QED
    BY <1>21, <1>22, <1>23

\* The walk of the sender leaves each block changed where it was.
LEMMA EmbedKeeps ==
    ASSUME BlockInv, Embed
    PROVE  BlockInv'
<1>1. /\ image \in Images /\ image' = image /\ side' = side /\ side = "sender"
      /\ pc' = "start" /\ Walking /\ UNCHANGED <<row, vert, ctr>>
    BY DEF BlockInv, Embed, counters
<1>2. /\ Places' = Places
      /\ \A p : InImage(p)' = InImage(p) /\ Visited(p)' = Visited(p)
    BY <1>1, SameOrders
<1>3. ASSUME NEW p \in Places, InImage(p) PROVE array'[p] = Visited(p)
  <2>1. p[1] \in Comps
      BY <1>1, PlaceFacts
  <2>2. /\ DOMAIN Visits(p[1]) = 1 .. Len(Visits(p[1]))
        /\ \E n \in DOMAIN Visits(p[1]) : Visits(p[1])[n] = p
      BY <1>1, <1>3, <2>1, VisitFacts
  <2>3. Contains(Visits(p[1]), p)
      BY <2>2 DEF Contains
  <2> QED
      BY <2>3 DEF Embed, Visited
<1>4. AllVisited' /\ AtRest'
    BY <1>1, <1>2, <1>3 DEF AllVisited, AtRest, Walking
<1> QED
    BY <1>1, <1>4 DEF BlockInv, PayloadKept

\* The walk of the receiver comes to the blocks as the sender did.
LEMMA ExtractKeeps ==
    ASSUME BlockInv, Extract
    PROVE  BlockInv'
<1>1. /\ image \in Images /\ image' = image /\ side' = side /\ side = "receiver"
      /\ pc' = "done" /\ Walking
    BY DEF BlockInv, Extract
<1>2. /\ Comps' = Comps
      /\ \A p : InImage(p)' = InImage(p)
      /\ \A c : Visits(c)' = Visits(c)
    BY <1>1, SameOrders, SameImage
<1>3. ASSUME NEW c \in Comps, NEW n \in DOMAIN Visits(c), InImage(Visits(c)[n])
      PROVE  found'[c][n] = Visit(c, n)
  <2>1. found'[c][n] = array[Visits(c)[n]]
      BY DEF Extract
  <2>2. Visits(c)[n] \in Places
      BY <1>1, <1>3, VisitFacts
  <2>3. array[Visits(c)[n]] = Visited(Visits(c)[n])
      BY <1>1, <1>3, <2>2 DEF Walking, Content
  <2> QED
      BY <1>1, <2>1, <2>3, VisitedIs
<1>4. PayloadKept'
    BY <1>2, <1>3 DEF PayloadKept, Visit
<1> QED
    BY <1>1, <1>4 DEF BlockInv

\* The file starts with nothing of the order in it.
LEMMA StartKeeps ==
    ASSUME BlockInv, WriteStart
    PROVE  BlockInv'
<1>1. /\ image \in Images /\ image' = image /\ side' = side
      /\ pc' = "write" /\ AtRest /\ AllVisited /\ file' = <<>>
      /\ UNCHANGED <<row, vert, ctr, array>>
    BY DEF BlockInv, WriteStart, counters
<1>2. /\ Places' = Places
      /\ \A p : InImage(p)' = InImage(p) /\ Visited(p)' = Visited(p)
      /\ Interleaved' = Interleaved
    BY <1>1, SameOrders
<1>3. AllVisited' /\ AtRest'
    BY <1>1, <1>2 DEF AllVisited, AtRest
<1>4. image' \in Images
    BY <1>1
<1>5. PICK scans : scans = Interleaved
    OBVIOUS
<1>6. IsFile(scans) /\ Len(scans) = 1 /\ Starts(scans)[0] = 0
  <2>1. IsFile(scans)
      BY <1>1, <1>5, FilesOfImage
  <2>2. Len(scans) = 1
      BY <1>5 DEF Interleaved
  <2> QED
      BY <1>1, <2>1, <2>2, FileFacts
<1>7. CountersOK(scans[1]) /\ Pos(scans, 1) = 0
  <2>1. 1 \in 1 .. Len(scans) /\ 1 - 1 = 0
      BY <1>6
  <2>2. ScanStarts
      BY ScanStartsHolds
  <2>3. CountersOK(scans[1]) /\ Pos(scans, 1) = Starts(scans)[1 - 1]
      BY <1>1, <1>6, <2>1, <2>2 DEF ScanStarts
  <2> QED
      BY <1>6, <2>1, <2>3
<1>8. CountersOK(scans[1])' /\ Pos(scans, 1)' = 0
  <2>1. CountersOK(scans[1])' = CountersOK(scans[1])
    <3>1. Rows' = Rows /\ Cols' = Cols /\ \A c : V(c)' = V(c) /\ Width(c)' = Width(c)
          /\ LastRow(c)' = LastRow(c)
        BY <1>1, SameImage
    <3>2. McuRows(scans[1])' = McuRows(scans[1])
        BY <1>1, <3>1 DEF McuRows, Single
    <3>3. McusPerRow(scans[1])' = McusPerRow(scans[1])
        BY <1>1, <3>1 DEF McusPerRow, Single, Cols
    <3> QED
        BY <1>1, <3>1, <3>2, <3>3 DEF CountersOK
  <2>2. Pos(scans, 1)' = Pos(scans, 1)
      BY <1>1 DEF Pos, Starts, Orders, Index, McuLen, Unit, ScanOrder, Single, Height,
         Width, Cols, H, V, Rows, MaxH, MaxV, Comps
  <2> QED
      BY <1>7, <2>1, <2>2
<1>9. FileWritten(0)'
  <2>1. \E S : file' \in Seq(S)
      BY <1>1
  <2> QED
      BY <1>1, <2>1 DEF FileWritten, IsSeq
<1>10. Encoding'
    BY <1>2, <1>3, <1>5, <1>8, <1>9 DEF Encoding
<1> QED
    BY <1>1, <1>4, <1>10 DEF BlockInv, PayloadKept

\* Writing an MCU appends the next part of the order to the file.
LEMMA McuKeeps ==
    ASSUME BlockInv, WriteMcu
    PROVE  BlockInv'
<1>1. /\ image \in Images /\ image' = image /\ side' = side /\ pc = "write" /\ Encoding
      /\ side \in {"sender", "receiver"} /\ array' = array
    BY DEF BlockInv, WriteMcu
<1>2. PICK scans : scans = Interleaved
    OBVIOUS
<1>3. IsFile(scans) /\ Len(scans) = 1 /\ 1 \in 1 .. Len(scans)
  <2>1. Len(scans) = 1
      BY <1>2 DEF Interleaved
  <2> QED
      BY <1>1, <1>2, <2>1, FilesOfImage
<1>4. PICK b : b = Pos(scans, 1)
    OBVIOUS
<1>5. PICK order : order = FileOrder(scans)
    OBVIOUS
<1> DEFINE s == scans[1]
           mcu == McuPlaces(s)
           m == McuLen(s)
           new == [n \in 1 .. Len(mcu) |->
                     IF Real(s, mcu[n]) THEN array[mcu[n]] ELSE Dummy]
<1>6. CountersOK(s) /\ FileWritten(b) /\ AllVisited
    BY <1>1, <1>2, <1>4 DEF Encoding
<1>7. /\ file' = file \o new
      /\ NextMcu(s)
      /\ pc' = IF EndOfScan(s) THEN "trailer" ELSE pc
    BY <1>2 DEF WriteMcu
<1>8. /\ b \in Nat /\ m \in Nat \ {0}
      /\ Len(mcu) = m
      /\ b + m <= Len(order)
      /\ \A j \in 1 .. m : mcu[j] = order[b + j] /\ mcu[j] \in Places
  <2>1. CountersOK(scans[1])
      BY <1>6
  <2>2. /\ Pos(scans, 1) \in Nat
        /\ McuLen(scans[1]) \in Nat \ {0}
        /\ Len(McuPlaces(scans[1])) = McuLen(scans[1])
        /\ Pos(scans, 1) + McuLen(scans[1]) <= Len(FileOrder(scans))
        /\ \A j \in 1 .. McuLen(scans[1]) :
              /\ McuPlaces(scans[1])[j] = FileOrder(scans)[Pos(scans, 1) + j]
              /\ McuPlaces(scans[1])[j] \in Places
    <3> HIDE DEF s, mcu, m, new
    <3> QED
        BY <1>1, <1>3, <2>1, McuInFile
  <2>3. s = scans[1] /\ mcu = McuPlaces(scans[1]) /\ m = McuLen(scans[1])
      OBVIOUS
  <2> HIDE DEF s, mcu, m, new
  <2> QED
      BY <1>4, <1>5, <2>2, <2>3
<1>9. order \in Seq(Places) /\ Len(order) \in Nat
    BY <1>1, <1>3, <1>5, FileFacts
<1>10. /\ EndOfScan(s) => /\ row' = 0 /\ vert' = 0 /\ ctr' = 0
                          /\ b + m = Starts(scans)[1]
       /\ ~ EndOfScan(s) => CountersOK(s)' /\ Pos(scans, 1)' = b + m
    BY <1>1, <1>3, <1>4, <1>6, <1>7, FileStep
<1>11. /\ Places' = Places
       /\ \A p : InImage(p)' = InImage(p) /\ Visited(p)' = Visited(p)
       /\ FileOrder(scans)' = order
       /\ Interleaved' = scans
    BY <1>1, <1>2, <1>5, SameOrders
<1>12. /\ IsSeq(file)
       /\ Len(file) = b
       /\ \A j \in 1 .. b : InImage(order[j]) => file[j] = Visited(order[j])
    BY <1>2, <1>5, <1>6 DEF FileWritten
<1>13. \A n \in 1 .. m : InImage(mcu[n]) => Real(s, mcu[n])
  <2> SUFFICES ASSUME NEW n \in 1 .. m, InImage(mcu[n]) PROVE Real(s, mcu[n])
      OBVIOUS
  <2>1. Contains(mcu, mcu[n])
      BY <1>8 DEF Contains
  <2>2. IsScan(s) /\ s = Interleaved[1] /\ mcu[n] \in Places
      BY <1>2, <1>3, <1>8 DEF IsFile
  <2> QED
      BY <1>1, <1>6, <2>1, <2>2, RealInImage
<1> HIDE DEF mcu, m, s
<1>14. \A n \in 1 .. m : InImage(order[b + n]) => new[n] = Visited(order[b + n])
  <2> SUFFICES ASSUME NEW n \in 1 .. m, InImage(order[b + n])
               PROVE  new[n] = Visited(order[b + n])
      OBVIOUS
  <2>1. mcu[n] = order[b + n] /\ mcu[n] \in Places
      BY <1>8
  <2>2. new[n] = array[mcu[n]]
      BY <1>8, <1>13, <2>1
  <2> QED
      BY <1>6, <2>1, <2>2 DEF AllVisited
<1>15. new = [n \in 1 .. m |-> new[n]]
    BY <1>8
<1> HIDE DEF new
<1>16. PICK B : B = b + m
    OBVIOUS
<1>17. /\ IsSeq(file')
       /\ Len(file') = B
       /\ \A j \in 1 .. B : file'[j] = IF j <= b THEN file[j] ELSE new[j - b]
  <2>1. PICK S : file \in Seq(S)
      BY <1>12 DEF IsSeq
  <2> DEFINE T == S \cup {new[n] : n \in 1 .. m}
  <2>2. new \in Seq(T) /\ Len(new) = m
      BY <1>8, <1>15
  <2>3. file \in Seq(T)
      BY <2>1
  <2> HIDE DEF T
  <2>4. /\ file \o new \in Seq(T)
        /\ Len(file \o new) = Len(file) + Len(new)
        /\ \A i \in 1 .. Len(file) + Len(new) : (file \o new)[i] =
                 IF i <= Len(file) THEN file[i] ELSE new[i - Len(file)]
      BY <2>2, <2>3, ConcatProperties
  <2> QED
      BY <1>7, <1>12, <1>16, <2>2, <2>4 DEF IsSeq
<1>18. \A j \in 1 .. B : InImage(order[j]) => file'[j] = Visited(order[j])
  <2> SUFFICES ASSUME NEW j \in 1 .. B, InImage(order[j])
               PROVE  file'[j] = Visited(order[j])
      OBVIOUS
  <2>1. CASE j <= b
    <3>1. j \in 1 .. b
        BY <1>8, <1>16, <2>1
    <3> QED
        BY <1>12, <1>17, <2>1, <3>1
  <2>2. CASE ~ (j <= b)
    <3>1. j - b \in 1 .. m /\ b + (j - b) = j
        BY <1>8, <1>16, <2>2
    <3>2. file'[j] = new[j - b]
        BY <1>17, <2>2
    <3> QED
        BY <1>14, <3>1, <3>2
  <2> QED
      BY <2>1, <2>2
<1>19. FileWritten(B)'
    BY <1>11, <1>17, <1>18 DEF FileWritten
<1>20. CASE ~ EndOfScan(s)
  <2>1. pc' = "write"
      BY <1>1, <1>7, <1>20
  <2>2. CountersOK(s)' /\ Pos(scans, 1)' = B
      BY <1>10, <1>16, <1>20
  <2>3. AllVisited'
      BY <1>1, <1>6, <1>11 DEF AllVisited
  <2>4. Encoding'
      BY <1>11, <1>19, <2>2, <2>3 DEF Encoding, s
  <2> QED
      BY <1>1, <2>1, <2>4 DEF BlockInv, PayloadKept
<1>21. CASE EndOfScan(s)
  <2>1. pc' = "trailer"
      BY <1>7, <1>21
  <2>2. AtRest'
      BY <1>10, <1>21 DEF AtRest
  <2>3. B = Len(order)
      BY <1>1, <1>3, <1>5, <1>10, <1>16, <1>21, FileFacts
  <2>4. FileWritten(Len(FileOrder(Interleaved)))'
      BY <1>11, <1>19, <2>3
  <2> QED
      BY <1>1, <2>1, <2>2, <2>4 DEF BlockInv, PayloadKept
<1> QED
    BY <1>20, <1>21

\* The receiver has the whole file of the sender to read.
LEMMA DeliverKeeps ==
    ASSUME BlockInv, Deliver
    PROVE  BlockInv'
<1>1. /\ image \in Images /\ image' = image /\ side' = "receiver" /\ pc = "written"
      /\ pc' = "read" /\ scan' = 1 /\ file' = file
      /\ AtRest /\ FileWritten(Len(FileOrder(Interleaved)))
      /\ UNCHANGED <<row, vert, ctr>>
    BY DEF BlockInv, Deliver, counters
<1>2. PICK scans : scans = Interleaved
    OBVIOUS
<1>3. PICK order : order = FileOrder(scans)
    OBVIOUS
<1>4. /\ \A p : InImage(p)' = InImage(p) /\ Visited(p)' = Visited(p)
      /\ FileOrder(scans)' = order
      /\ Interleaved' = scans
    BY <1>1, <1>2, <1>3, SameOrders
<1>5. Scans' = scans /\ Len(scans) = 1 /\ 1 \in 1 .. Len(scans)
  <2>1. Len(scans) = 1
      BY <1>2 DEF Interleaved
  <2>2. Scans' = Interleaved'
      BY <1>1 DEF Scans
  <2> QED
      BY <1>4, <2>1, <2>2
<1>6. /\ IsFile(scans)' /\ Starts(scans)'[0] = 0 /\ order \in Seq(Places)'
  <2>1. FilesAreFiles' /\ image' \in Images
      BY <1>1, PrimedFacts
  <2> QED
      BY <1>4, <1>5, <2>1 DEF FilesAreFiles
<1>7. CountersOK(scans[1])' /\ Pos(scans, 1)' = 0
  <2>1. ScanStarts' /\ AtRest' /\ image' \in Images
      BY <1>1, PrimedFacts DEF AtRest
  <2>2. CountersOK(scans[1])' /\ Pos(scans, 1)' = Starts(scans)'[1 - 1]
      BY <1>5, <1>6, <2>1 DEF ScanStarts
  <2>3. 1 - 1 = 0
      OBVIOUS
  <2> QED
      BY <1>6, <2>2, <2>3
<1>8. /\ IsSeq(file)
      /\ Len(file) = Len(order) /\ Len(order) \in Nat
      /\ \A j \in 1 .. Len(order) : InImage(order[j]) => file[j] = Visited(order[j])
    BY <1>1, <1>2, <1>3, <1>6 DEF FileWritten
<1>9. FileRest(scans, 0)'
  <2>1. \A n \in 1 .. Len(file) : 0 + n = n
      BY <1>8
  <2>2. \A n \in 1 .. Len(file) : InImage(order[0 + n]) => file[n] = Visited(order[0 + n])
      BY <1>8, <2>1
  <2>3. \A p : Content(p)' = Visited(p)
      BY <1>1, <1>4 DEF Content
  <2> QED
      BY <1>1, <1>4, <1>8, <2>2, <2>3 DEF FileRest, IsSeq
<1>10. ArrayFilled(scans, 0)'
    BY DEF ArrayFilled
<1>11. Reading'
    BY <1>1, <1>5, <1>7, <1>9, <1>10 DEF Reading
<1> QED
    BY <1>1, <1>11 DEF BlockInv, PayloadKept

\* The other steps of the writer leave the blocks alone.
LEMMA OthersKeep ==
    ASSUME BlockInv,
           \/ ReadRefused \/ WriteRefused \/ WriteTrailer \/ WriteFails
           \/ TermDestination \/ TermFails \/ UNCHANGED vars
    PROVE  BlockInv'
<1>1. UNCHANGED <<image, side, scan, row, vert, ctr, array, file, found>>
    BY DEF ReadRefused, WriteRefused, WriteTrailer, WriteFails, TermDestination,
       TermFails, Fail, vars, counters
<1>2. /\ pc' \in {"unreadable", "failed", "term", "written"} \/ pc' = pc
      /\ pc' \in {"term", "written"} => pc \in {"trailer", "term", "written"}
    BY DEF ReadRefused, WriteRefused, WriteTrailer, WriteFails, TermDestination,
       TermFails, Fail, vars
<1>3. /\ Places' = Places
      /\ \A p : InImage(p)' = InImage(p) /\ Visited(p)' = Visited(p)
      /\ \A c : Visits(c)' = Visits(c)
      /\ Interleaved' = Interleaved /\ Scans' = Scans
      /\ \A scans : FileOrder(scans)' = FileOrder(scans)
    BY <1>1, SameOrders DEF Scans
<1>4. \A p : Content(p)' = Content(p)
    BY <1>1, <1>3 DEF Content
<1>5. /\ \A s : CountersOK(s)' = CountersOK(s)
      /\ \A scans, k : Pos(scans, k)' = Pos(scans, k)
  <2>1. Rows' = Rows /\ Cols' = Cols /\ (\A c : V(c)' = V(c) /\ Width(c)' = Width(c))
        /\ \A c : LastRow(c)' = LastRow(c)
      BY <1>1, SameImage
  <2>2. \A s : McuRows(s)' = McuRows(s) /\ McusPerRow(s)' = McusPerRow(s)
      BY <1>1, <2>1 DEF McuRows, McusPerRow, Single, Cols
  <2>3. \A s : CountersOK(s)' = CountersOK(s)
      BY <1>1, <2>1, <2>2 DEF CountersOK
  <2>4. \A scans, k : Pos(scans, k)' = Pos(scans, k)
      BY <1>1 DEF Pos, Starts, Orders, Index, McuLen, Unit, ScanOrder, Single, Height,
         Width, Cols, H, V, Rows, MaxH, MaxV, Comps
  <2> QED
      BY <2>3, <2>4
<1>6. AtRest' = AtRest /\ AllVisited' = AllVisited
    BY <1>1, <1>3 DEF AtRest, AllVisited
<1>7. Reading => Reading'
    BY <1>1, <1>3, <1>4, <1>5 DEF Reading, FileRest, ArrayFilled
<1>8. Walking => Walking'
    BY <1>1, <1>3, <1>4, <1>6 DEF Walking
<1>9. \A n : FileWritten(n) => FileWritten(n)'
    BY <1>1, <1>3 DEF FileWritten
<1>10. Encoding => Encoding'
    BY <1>3, <1>5, <1>6, <1>9 DEF Encoding
<1>11. FileWritten(Len(FileOrder(Interleaved))) => FileWritten(Len(FileOrder(Interleaved)))'
    BY <1>3, <1>9
<1>12. PayloadKept'
  <2>1. pc' = "done" => pc = "done"
      BY <1>2
  <2>2. Comps' = Comps
      BY <1>1 DEF Comps
  <2> QED
      BY <1>1, <1>3, <2>1, <2>2 DEF BlockInv, PayloadKept, Visit
<1> QED
    BY <1>1, <1>2, <1>6, <1>7, <1>8, <1>10, <1>11, <1>12 DEF BlockInv

\* No step breaks the invariant.
LEMMA BlockNext ==
    ASSUME BlockInv, [Next]_vars
    PROVE  BlockInv'
BY ReadKeeps, EmbedKeeps, ExtractKeeps, StartKeeps, McuKeeps, DeliverKeeps,
   OthersKeep DEF Next

\* A file in any of the scripts holds the blocks of the image in their order.
LEMMA BlockStart ==
    ASSUME Init
    PROVE  BlockInv
<1>1. image \in Images /\ side = "sender" /\ pc = "read" /\ scan = 1 /\ AtRest
    BY DEF Init, AtRest
<1>2. IsFile(Scans)
    BY <1>1, ScansFile
<1> DEFINE scans == Scans
           n == Len(scans)
           order == FileOrder(scans)
           codes == [k \in 1 .. n |-> ScanCode(scans[k])]
           S == Places \cup {Dummy}
<1>3. /\ order \in Seq(Places)
      /\ Len(order) = Starts(scans)[n]
      /\ Starts(scans)[0] = 0
    BY <1>1, <1>2, FileFacts
<1>4. n \in Nat \ {0} /\ 1 \in 1 .. n
    BY <1>2 DEF IsFile
<1>5. CountersOK(scans[1]) /\ Pos(scans, 1) = 0
  <2>1. CountersOK(scans[1]) /\ Pos(scans, 1) = Starts(scans)[1 - 1]
      BY <1>1, <1>2, <1>4, ScanStartsHolds DEF ScanStarts
  <2> QED
      BY <1>3, <2>1
<1>6. file = FlattenSeq(codes)
    BY DEF Init
<1>7. \A k \in 1 .. n :
         /\ ScanOrder(scans[k]) \in Seq(Places)
         /\ ScanCode(scans[k]) =
              [i \in 1 .. Len(ScanOrder(scans[k])) |->
                 IF InImage(ScanOrder(scans[k])[i]) THEN ScanOrder(scans[k])[i] ELSE Dummy]
  <2> TAKE k \in 1 .. n
  <2>1. ScanOrder(scans[k]) \in Seq(Places)
      BY <1>1, <1>2, ScanFacts DEF IsFile, OrderFits
  <2>2. DOMAIN ScanOrder(scans[k]) = 1 .. Len(ScanOrder(scans[k]))
      BY <2>1
  <2> QED
      BY <2>1, <2>2 DEF ScanCode
<1>8. IsOffsets(Starts(scans), Orders(scans)) /\ Len(Orders(scans)) = n
      /\ \A k \in 1 .. n : Orders(scans)[k] = ScanOrder(scans[k])
    BY <1>1, <1>2, OrdersFit
<1> HIDE DEF scans, n, order, S
<1>9. \A k \in 1 .. n : /\ codes[k] \in Seq(S)
                        /\ Len(codes[k]) = Len(ScanOrder(scans[k]))
  <2> TAKE k \in 1 .. n
  <2> DEFINE so == ScanOrder(scans[k])
  <2>1. so \in Seq(Places) /\ Len(so) \in Nat /\ \A i \in 1 .. Len(so) : so[i] \in Places
    <3>1. so \in Seq(Places)
        BY <1>7
    <3> HIDE DEF so, codes
    <3> QED
        BY <3>1
  <2>2. codes[k] = [i \in 1 .. Len(so) |-> IF InImage(so[i]) THEN so[i] ELSE Dummy]
      BY <1>7
  <2> HIDE DEF so, codes
  <2>3. \A i \in 1 .. Len(so) : (IF InImage(so[i]) THEN so[i] ELSE Dummy) \in S
      BY <2>1 DEF S
  <2> QED
      BY <2>1, <2>2, <2>3 DEF so
<1>10. codes \in Seq(Seq(S)) /\ Len(codes) = n /\ codes # <<>>
  <2> DEFINE T == Seq(S)
  <2>1. \A k \in 1 .. n : codes[k] \in T
      BY <1>9
  <2>2. codes = [k \in 1 .. n |-> codes[k]]
      OBVIOUS
  <2> HIDE DEF T, codes
  <2>3. codes \in Seq(T) /\ Len(codes) = n
      BY <1>4, <2>1, <2>2
  <2> QED
      BY <1>4, <2>3 DEF T
<1>11. \A k \in 1 .. n : codes[k] = ScanCode(scans[k])
    OBVIOUS
<1> HIDE DEF codes
<1>12. PICK off : off = Starts(scans)
    OBVIOUS
<1>13. IsOffsets(off, codes)
    BY <1>4, <1>8, <1>9, <1>10, <1>12 DEF IsOffsets
<1>14. /\ file \in Seq(S)
       /\ Len(file) = off[n]
       /\ \A k \in 1 .. n : \A q \in 1 .. Len(codes[k]) :
             /\ off[k - 1] + q \in 1 .. off[n]
             /\ file[off[k - 1] + q] = codes[k][q]
    BY <1>6, <1>10, <1>13, FlattenFacts
<1>15. \A k \in 1 .. n : \A q \in 1 .. Len(ScanOrder(scans[k])) :
          order[off[k - 1] + q] = ScanOrder(scans[k])[q]
    BY <1>1, <1>2, <1>12, FileFacts DEF n, scans, order
<1>16. ASSUME NEW j \in 1 .. Len(file), InImage(order[j])
       PROVE  file[j] = order[j]
  <2>1. j \in 1 .. off[Len(codes)]
      BY <1>10, <1>14
  <2>2. PICK k \in 1 .. Len(codes) : j - off[k - 1] \in 1 .. Len(codes[k])
      BY <1>10, <1>13, <2>1, OffsetsCover
  <2> DEFINE q == j - off[k - 1]
  <2>3. off[k - 1] \in Nat /\ j \in Nat
    <3>1. \A i \in 0 .. Len(codes) : off[i] \in Nat
        BY <1>13 DEF IsOffsets
    <3>2. k - 1 \in 0 .. Len(codes) /\ Len(codes) \in 0 .. Len(codes)
        BY <1>4, <1>10
    <3>3. off[k - 1] \in Nat /\ off[Len(codes)] \in Nat
        BY <3>1, <3>2
    <3> QED
        BY <2>1, <3>3
  <2>4. off[k - 1] + q = j /\ q \in 1 .. Len(codes[k]) /\ k \in 1 .. n
      BY <1>10, <2>2, <2>3
  <2> HIDE DEF q
  <2>5. file[j] = codes[k][q] /\ order[j] = ScanOrder(scans[k])[q]
        /\ q \in 1 .. Len(ScanOrder(scans[k]))
      BY <1>9, <1>14, <1>15, <2>4
  <2>6. codes[k][q] = IF InImage(ScanOrder(scans[k])[q]) THEN ScanOrder(scans[k])[q]
                                                         ELSE Dummy
    <3> DEFINE so == ScanOrder(scans[k])
    <3>1. codes[k] = [i \in 1 .. Len(so) |-> IF InImage(so[i]) THEN so[i] ELSE Dummy]
        BY <1>7, <1>11, <2>4
    <3>2. q \in 1 .. Len(so)
        BY <2>5
    <3> HIDE DEF so
    <3>3. codes[k][q] = IF InImage(so[q]) THEN so[q] ELSE Dummy
        BY <3>1, <3>2
    <3> QED
        BY <3>3 DEF so
  <2> QED
      BY <1>16, <2>5, <2>6
<1>17. Len(file) = Len(order) /\ Len(order) \in Nat
    BY <1>3, <1>12, <1>14
<1>18. FileRest(scans, 0)
  <2>1. \A j \in 1 .. Len(file) : 0 + j = j
      BY <1>17
  <2>2. \A j \in 1 .. Len(file) : InImage(order[0 + j]) => file[j] = Content(order[0 + j])
      BY <1>1, <1>16, <2>1 DEF Content
  <2> QED
      BY <1>14, <1>17, <2>2 DEF FileRest, IsSeq, order
<1>19. ArrayFilled(scans, 0)
    BY DEF ArrayFilled
<1>20. Reading
    BY <1>1, <1>4, <1>5, <1>18, <1>19 DEF Reading, scans, n
<1> QED
    BY <1>1, <1>20 DEF BlockInv, PayloadKept

\* Reader, walk and writer have the same idea of which blocks there are
\* (BlocksAgree).
THEOREM TranscodeBlocksAgree == Spec => []BlocksAgree
<1>1. BlockInv => BlocksAgree
    BY DEF BlockInv, BlocksAgree, ReadInPlace, Walking, Content
<1>2. Init => BlockInv
    BY BlockStart
<1>3. BlockInv /\ [Next]_vars => BlockInv'
    BY BlockNext
<1> QED
    BY <1>1, <1>2, <1>3, PTL DEF Spec
=============================================================================
