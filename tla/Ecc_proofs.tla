----------------------------- MODULE Ecc_proofs -----------------------------
(***************************************************************************)
(* That ECC does what it is for, for every length of a block, of the       *)
(* message and of its parity.  A message within the capacity goes in.      *)
(* Encoder and decoder have the same code: what the shift register makes   *)
(* of a block is 0 at every power the syndrome is taken at.  The decoder   *)
(* corrects: the Berlekamp-Massey algorithm finds the polynomial whose     *)
(* roots are the places of the errors, and what is wrong there, if the     *)
(* errors are no more than half of the parity bytes.  And the message is   *)
(* put together from the blocks as it was cut.                             *)
(***************************************************************************)
EXTENDS Ecc, SequenceTheorems, FiniteSetTheorems, WellFoundedInduction, TLAPS

-----------------------------------------------------------------------------
(* Induction and recursion over an initial segment of the naturals, as     *)
(* facts about sets and functions: the theorems of the library take an     *)
(* operator as parameter.                                                  *)

\* A set that contains 0, and with each number the next, contains them all.
LEMMA SegmentInduction ==
    ASSUME NEW n \in Nat, NEW T,
           0 \in T,
           \A i \in 0 .. n - 1 : i \in T => i + 1 \in T
    PROVE  \A i \in 0 .. n : i \in T
<1> DEFINE Rest == {i \in 0 .. n : i \notin T}
           Less == {s \in Nat \X Nat : s[1] < s[2]}
<1> SUFFICES ASSUME Rest # {} PROVE FALSE
    OBVIOUS
<1>1. IsWellFoundedOn(Less, Nat)
    BY NatLessThanWellFounded, Zenon DEF OpToRel
<1>2. Rest \subseteq Nat
    OBVIOUS
<1> HIDE DEF Rest, Less
<1>3. PICK x \in Rest : \A y \in Rest : ~ (<<y, x>> \in Less)
    BY <1>1, <1>2, WFMin
<1>4. x \in 0 .. n /\ x \notin T /\ x # 0
    BY DEF Rest
<1>5. x - 1 \in 0 .. n - 1 /\ x - 1 \in Nat /\ x \in Nat
    BY <1>4
<1>6. x - 1 \notin T
    BY <1>4, <1>5
<1>7. x - 1 \in Rest
    BY <1>5, <1>6 DEF Rest
<1>8. <<x - 1, x>> \in Less
    BY <1>5 DEF Less
<1> QED
    BY <1>3, <1>7, <1>8

\* Function g is computed by a recursion over 0 .. n, each value from the one
\* before.
IsRecursion(g, n, Codomain, first, step) ==
    /\ g \in [0 .. n -> Codomain]
    /\ g[0] = first
    /\ \A i \in 1 .. n : g[i] = step[i][g[i - 1]]

\* There is such a function.
LEMMA SegmentRecursion ==
    ASSUME NEW n \in Nat, NEW Codomain, NEW first \in Codomain,
           NEW step \in [1 .. n -> [Codomain -> Codomain]]
    PROVE  \E g : IsRecursion(g, n, Codomain, first, step)
<1> DEFINE Solves(g, l) == /\ g[0] = first
                           /\ \A i \in 1 .. l : g[i] = step[i][g[i - 1]]
           T == {l \in 0 .. n : \E g \in [0 .. l -> Codomain] : Solves(g, l)}
<1>1. 0 \in T
  <2> DEFINE g == [i \in 0 .. 0 |-> first]
  <2>1. g \in [0 .. 0 -> Codomain] /\ Solves(g, 0)
      OBVIOUS
  <2> HIDE DEF g, Solves
  <2> QED
      BY <2>1
<1>2. ASSUME NEW l \in 0 .. n - 1, l \in T PROVE l + 1 \in T
  <2>1. PICK g \in [0 .. l -> Codomain] : Solves(g, l)
      BY <1>2
  <2> DEFINE h == [i \in 0 .. l + 1 |->
                      IF i <= l THEN g[i] ELSE step[l + 1][g[l]]]
  <2>2. l + 1 \in 1 .. n /\ g[l] \in Codomain
      OBVIOUS
  <2>3. step[l + 1][g[l]] \in Codomain
      BY <2>2
  <2>4. h \in [0 .. l + 1 -> Codomain]
      BY <2>3
  <2>5. h[0] = first
      BY <2>1
  <2>6. ASSUME NEW i \in 1 .. l + 1 PROVE h[i] = step[i][h[i - 1]]
    <3>1. CASE i <= l
      <4>1. i \in 1 .. l /\ h[i] = g[i] /\ h[i - 1] = g[i - 1]
          BY <3>1
      <4> QED
          BY <2>1, <4>1
    <3>2. CASE i = l + 1
      <4>1. h[i - 1] = g[l] /\ h[i] = step[l + 1][g[l]]
          BY <3>2
      <4> QED
          BY <3>2, <4>1
    <3> QED
        BY <3>1, <3>2
  <2> HIDE DEF h
  <2>7. Solves(h, l + 1)
      BY <2>5, <2>6
  <2>8. \E e \in [0 .. l + 1 -> Codomain] : Solves(e, l + 1)
      BY <2>4, <2>7
  <2>9. l + 1 \in 0 .. n
      BY <2>2
  <2> HIDE DEF Solves
  <2> QED
      BY <2>8, <2>9
<1> HIDE DEF T
<1>3. n \in T
  <2>1. \A i \in 0 .. n - 1 : i \in T => i + 1 \in T
      BY <1>2
  <2>2. \A i \in 0 .. n : i \in T
      BY <1>1, <2>1, SegmentInduction, Zenon
  <2> QED
      BY <2>2
<1>4. PICK g \in [0 .. n -> Codomain] : Solves(g, n)
    BY <1>3 DEF T
<1>5. IsRecursion(g, n, Codomain, first, step)
    BY <1>4 DEF IsRecursion
<1> QED
    BY <1>5, Zenon

-----------------------------------------------------------------------------
(* Arithmetic.                                                             *)

\* Products with the same factor are in the order of the others.
LEMMA ProductOrder ==
    ASSUME NEW a \in Nat, NEW b \in Nat, NEW w \in Nat
    PROVE  /\ a * w \in Nat
           /\ (a + 1) * w = a * w + w
           /\ a <= b => a * w <= b * w
           /\ a < b => a * w + w <= b * w
<1>1. a * w \in Nat /\ (a + 1) * w = a * w + w
    OBVIOUS
<1>2. ASSUME a <= b PROVE a * w <= b * w
  <2> DEFINE d == b - a
  <2>1. d \in Nat /\ b = a + d
      BY <1>2
  <2>2. d * w \in Nat
      BY <2>1
  <2>3. b * w = a * w + d * w
      BY <2>1
  <2> QED
      BY <2>2, <2>3
<1>3. ASSUME a < b PROVE a * w + w <= b * w
  <2>1. a + 1 \in Nat /\ a + 1 <= b
      BY <1>3
  <2> DEFINE d == b - (a + 1)
  <2>2. d \in Nat /\ b = (a + 1) + d
      BY <2>1
  <2>3. d * w \in Nat
      BY <2>2
  <2>4. b * w = (a * w + w) + d * w
      BY <2>2
  <2> QED
      BY <2>3, <2>4
<1> QED
    BY <1>1, <1>2, <1>3

\* Quotient and remainder.
LEMMA DivFacts ==
    ASSUME NEW n \in Nat, NEW w \in Nat \ {0}
    PROVE  /\ n \div w \in Nat
           /\ n % w \in 0 .. w - 1
           /\ n = (n \div w) * w + (n % w)
<1>1. n \div w \in Nat /\ n % w \in 0 .. w - 1
      /\ n = w * (n \div w) + (n % w)
    OBVIOUS
<1> QED
    BY <1>1

\* A block has at least one byte besides its length and its parity.
LEMMA Sizes ==
    /\ NPAR \in Nat \ {0}
    /\ BlockLen \in Nat \ {0}
    /\ msgchunk \in Nat \ {0}
    /\ max_mlen = msgchunk + 1
    /\ BlockLen = max_mlen + NPAR
BY ReedSolomonAssumption, EccAssumption DEF msgchunk, max_mlen

\* The blocks of a message are as many as are full, and one more.
LEMMA BlocksOf ==
    ASSUME NEW len \in Nat
    PROVE  /\ NBlocks(len) \in Nat \ {0}
           /\ \A b \in Nat : b * msgchunk <= len <=> b < NBlocks(len)
<1> DEFINE q == len \div msgchunk
           r == len % msgchunk
<1>1. q \in Nat /\ r \in 0 .. msgchunk - 1 /\ len = q * msgchunk + r
    BY Sizes, DivFacts
<1>2. NBlocks(len) = q + 1
    BY DEF NBlocks
<1> HIDE DEF q, r
<1>3. ASSUME NEW b \in Nat PROVE b * msgchunk <= len <=> b < NBlocks(len)
  <2>1. CASE b <= q
    <3>1. b * msgchunk <= q * msgchunk /\ b * msgchunk \in Nat /\ q * msgchunk \in Nat
        BY <1>1, <2>1, Sizes, ProductOrder
    <3> QED
        BY <1>1, <1>2, <2>1, <3>1, Sizes
  <2>2. CASE q < b
    <3>1. q * msgchunk + msgchunk <= b * msgchunk
          /\ b * msgchunk \in Nat /\ q * msgchunk \in Nat
        BY <1>1, <2>2, Sizes, ProductOrder
    <3> QED
        BY <1>1, <1>2, <2>2, <3>1, Sizes
  <2> QED
      BY <1>1, <2>1, <2>2
<1> QED
    BY <1>1, <1>2, <1>3

-----------------------------------------------------------------------------
(* The inductive invariant.                                                *)

IsSeq(s) == \E S : s \in Seq(S)

\* The encoder has coded the blocks before this one, and some of its bytes.
Coding ==
    /\ block < NBlocks(job.len)
    /\ at \in 0 .. max_mlen
    /\ Len(coded) = block * BlockLen + at

\* All blocks are coded, and on the way none is lost.
AllCoded == Len(coded) = NBlocks(job.len) * BlockLen

Decoding == pc \in {"decode", "massey", "take"}

\* What the decoder has taken is the beginning of the message.
Front ==
    /\ block * msgchunk <= job.len
    /\ out = [i \in 1 .. block * msgchunk |-> Text(i - 1)]

\* What encoder and decoder need of the sizes.
SizeInv ==
    /\ job \in Jobs
    /\ block \in Nat
    /\ IsSeq(coded)
    /\ pc = "encode" => Coding
    /\ pc # "encode" => AllCoded
    /\ pc = "overflow" => TooLong

\* And of the message.
FrameInv ==
    /\ SizeInv
    /\ pc \in {"encode", "stuff"} => out = <<>>
    /\ Decoding /\ AllRead /\ Correctable => Front
    /\ Recovered

\* The numbers of a job.
LEMMA JobType ==
    ASSUME job \in Jobs
    PROVE  job.room \in Nat /\ job.len \in Nat /\ job.raw \in BOOLEAN
BY EccAssumption

\* Nothing is coded at first.
LEMMA FrameStart == Init => FrameInv
<1> SUFFICES ASSUME Init PROVE FrameInv
    OBVIOUS
<1>1. job \in Jobs /\ block = 0 /\ at = 0 /\ pc = "encode" /\ coded = <<>> /\ out = <<>>
    BY DEF Init
<1>2. 0 < NBlocks(job.len)
    BY <1>1, JobType, BlocksOf
<1>3. IsSeq(coded) /\ Len(coded) = 0
  <2>1. coded \in Seq({})
      BY <1>1
  <2> QED
      BY <1>1, <2>1 DEF IsSeq
<1>4. 0 * BlockLen = 0
    BY Sizes
<1> QED
    BY <1>1, <1>2, <1>3, <1>4, Sizes DEF FrameInv, SizeInv, Coding, Decoding, Recovered

-----------------------------------------------------------------------------
(* The sender.                                                             *)

\* A byte is appended.
LEMMA AppendIs ==
    ASSUME NEW s, IsSeq(s), NEW x
    PROVE  IsSeq(Append(s, x)) /\ Len(Append(s, x)) = Len(s) + 1
<1>1. PICK S : s \in Seq(S)
    BY DEF IsSeq
<1> DEFINE T == S \cup {x}
<1>2. s \in Seq(T) /\ x \in T
    BY <1>1
<1> HIDE DEF T
<1>3. Append(s, x) \in Seq(T) /\ Len(Append(s, x)) = Len(s) + 1
    BY <1>2
<1> QED
    BY <1>3 DEF IsSeq

\* Bytes given one by one are appended.
LEMMA ConcatIs ==
    ASSUME NEW s, IsSeq(s), NEW n \in Nat, NEW f, f = [i \in 1 .. n |-> f[i]]
    PROVE  /\ IsSeq(s \o f)
           /\ Len(s) \in Nat
           /\ Len(s \o f) = Len(s) + n
           /\ s \o f = [i \in 1 .. Len(s) + n |->
                          IF i <= Len(s) THEN s[i] ELSE f[i - Len(s)]]
<1>1. PICK S : s \in Seq(S)
    BY DEF IsSeq
<1> DEFINE T == S \cup {f[i] : i \in 1 .. n}
<1>2. s \in Seq(T)
    BY <1>1
<1>3. f \in Seq(T) /\ Len(f) = n
    BY <1>2
<1> HIDE DEF T
<1>4. /\ s \o f \in Seq(T)
      /\ Len(s \o f) = Len(s) + Len(f)
      /\ \A i \in 1 .. Len(s) + Len(f) : (s \o f)[i] =
              IF i <= Len(s) THEN s[i] ELSE f[i - Len(s)]
    BY <1>2, <1>3, ConcatProperties
<1>5. s \o f = [i \in 1 .. Len(s \o f) |-> (s \o f)[i]]
    BY <1>4
<1>6. Len(s) \in Nat
    BY <1>2
<1> HIDE DEF IsSeq
<1> QED
  <2>1. IsSeq(s \o f)
      BY <1>4 DEF IsSeq
  <2> QED
      BY <1>3, <1>4, <1>5, <1>6, <2>1

\* A function of the first n numbers is a sequence.
LEMMA MadeIsSeq ==
    ASSUME NEW n \in Nat, NEW f, f = [i \in 1 .. n |-> f[i]]
    PROVE  IsSeq(f) /\ Len(f) = n
<1> DEFINE T == {f[i] : i \in 1 .. n}
<1>1. f \in Seq(T) /\ Len(f) = n
    OBVIOUS
<1> HIDE DEF T
<1> QED
    BY <1>1 DEF IsSeq

\* A byte of the block is coded.
LEMMA EncodeByteSizes ==
    ASSUME SizeInv, EncodeByte
    PROVE  SizeInv'
<1>1. /\ job' = job /\ block' = block /\ pc = "encode" /\ pc' = "encode" /\ at < max_mlen
      /\ at' = at + 1 /\ coded' = Append(coded, InBlock(block, at))
    BY DEF EncodeByte
<1>2. Coding /\ IsSeq(coded) /\ job \in Jobs /\ block \in Nat
    BY <1>1 DEF SizeInv
<1>3. IsSeq(coded') /\ Len(coded') = Len(coded) + 1
    BY <1>1, <1>2, AppendIs
<1>4. IsSeq(coded)'
    BY <1>3 DEF IsSeq
<1>5. block * BlockLen \in Nat
    BY <1>2, Sizes, ProductOrder
<1>6. Coding'
    BY <1>1, <1>2, <1>3, <1>5, Sizes DEF Coding, NBlocks, max_mlen, msgchunk
<1> QED
    BY <1>1, <1>2, <1>4, <1>6 DEF SizeInv

\* The parity ends a block, or all of them.
LEMMA EncodeParitySizes ==
    ASSUME SizeInv, EncodeParity
    PROVE  SizeInv'
<1>1. /\ job' = job /\ block' = block + 1 /\ pc = "encode" /\ at = max_mlen /\ at' = 0
      /\ coded' = coded \o Parity(lfsr)
      /\ pc' = IF block + 1 = NBlocks(job.len) THEN "stuff" ELSE pc
    BY DEF EncodeParity
<1>2. Coding /\ IsSeq(coded) /\ job \in Jobs /\ block \in Nat
    BY <1>1 DEF SizeInv
<1>3. IsSeq(coded') /\ Len(coded') = Len(coded) + NPAR
  <2> DEFINE parity == Parity(lfsr)
  <2>1. parity = [i \in 1 .. NPAR |-> parity[i]]
      BY DEF Parity
  <2> HIDE DEF parity
  <2>2. IsSeq(coded \o parity) /\ Len(coded \o parity) = Len(coded) + NPAR
      BY <1>2, <2>1, Sizes, ConcatIs
  <2> QED
      BY <1>1, <2>2 DEF parity
<1>4. IsSeq(coded)'
    BY <1>3 DEF IsSeq
<1>5. block * BlockLen \in Nat /\ (block + 1) * BlockLen = block * BlockLen + BlockLen
    BY <1>2, Sizes, ProductOrder
<1>6. Len(coded') = (block + 1) * BlockLen
    BY <1>1, <1>2, <1>3, <1>5, Sizes DEF Coding
<1>7. NBlocks(job.len)' = NBlocks(job.len) /\ NBlocks(job.len) \in Nat
    BY <1>1, <1>2, JobType, BlocksOf DEF NBlocks, msgchunk, max_mlen
<1>8. pc' = "encode" => Coding'
  <2>1. 0 \in 0 .. max_mlen' /\ (block + 1) * BlockLen \in Nat
      BY <1>2, Sizes, ProductOrder DEF max_mlen
  <2> QED
      BY <1>1, <1>2, <1>6, <1>7, <2>1 DEF Coding
<1>9. pc' # "encode" => AllCoded'
    BY <1>1, <1>6, <1>7 DEF AllCoded
<1> QED
    BY <1>1, <1>2, <1>4, <1>8, <1>9 DEF SizeInv

\* The other steps change no byte of the coded message into two.
LEMMA ChangeSizes ==
    ASSUME SizeInv, pc # "encode", job' = job, block' \in Nat,
           pc' \notin {"encode", "overflow"},
           coded' = [p \in 1 .. Len(coded) |-> coded'[p]]
    PROVE  SizeInv' /\ Len(coded') = Len(coded)
<1>1. AllCoded /\ IsSeq(coded) /\ job \in Jobs
    BY DEF SizeInv
<1>2. Len(coded) \in Nat
    BY <1>1 DEF IsSeq
<1>3. IsSeq(coded') /\ Len(coded') = Len(coded)
    BY <1>2, MadeIsSeq
<1>4. IsSeq(coded)'
    BY <1>3 DEF IsSeq
<1>5. AllCoded'
    BY <1>1, <1>3 DEF AllCoded, NBlocks, msgchunk, max_mlen
<1> QED
    BY <1>1, <1>3, <1>4, <1>5 DEF SizeInv

\* A coded message that stays is one given byte by byte.
LEMMA SameCoded ==
    ASSUME SizeInv, coded' = coded
    PROVE  coded' = [p \in 1 .. Len(coded) |-> coded'[p]]
<1>1. PICK S : coded \in Seq(S)
    BY DEF SizeInv, IsSeq
<1> QED
    BY <1>1

\* The channel has no room for what is coded.
LEMMA OverflowSizes ==
    ASSUME SizeInv, Overflow
    PROVE  SizeInv'
BY DEF SizeInv, Overflow, TooLong, AllCoded, IsSeq, NBlocks, msgchunk, max_mlen

\* No step breaks what is said of the sizes.
LEMMA SizeNext ==
    ASSUME SizeInv, [Next]_vars
    PROVE  SizeInv'
<1>1. CASE Transmit
  <2>1. coded' = [p \in 1 .. Len(coded) |-> coded'[p]]
      BY <1>1 DEF Transmit
  <2> QED
      BY <1>1, <2>1, ChangeSizes DEF Transmit
<1>2. CASE CorrectErrors
  <2>1. coded' = [p \in 1 .. Len(coded) |-> coded'[p]]
      BY <1>2 DEF CorrectErrors
  <2>2. block \in Nat
      BY DEF SizeInv
  <2> QED
      BY <1>2, <2>1, <2>2, ChangeSizes DEF CorrectErrors
<1>3. CASE Beyond \/ DecodeData \/ Massey \/ TakeBlock
  <2>1. /\ pc # "encode" /\ job' = job /\ coded' = coded /\ block' \in {block, block + 1}
        /\ pc' \notin {"encode", "overflow"}
      BY <1>3 DEF Beyond, DecodeData, Massey, TakeBlock
  <2>2. block' \in Nat
      BY <2>1 DEF SizeInv
  <2> QED
      BY <2>1, <2>2, SameCoded, ChangeSizes
<1>4. CASE UNCHANGED vars
    BY <1>4 DEF SizeInv, vars, Coding, AllCoded, TooLong, IsSeq, NBlocks, msgchunk, max_mlen
<1> QED
    BY <1>1, <1>2, <1>3, <1>4, EncodeByteSizes, EncodeParitySizes, OverflowSizes DEF Next

-----------------------------------------------------------------------------
(* The receiver.                                                           *)

\* The block at hand is in the message: the decoder never looks beyond.
LEMMA BlockInside ==
    ASSUME FrameInv, Decoding, AllRead, Correctable
    PROVE  /\ block * BlockLen \in Nat /\ block * msgchunk \in Nat
           /\ (block + 1) * msgchunk = block * msgchunk + msgchunk
           /\ block < NBlocks(job.len)
           /\ block * BlockLen + BlockLen <= Len(coded)
           /\ Len(coded) \in Nat
           /\ job.len <= Len(coded)
<1>1. /\ Front /\ AllCoded /\ job \in Jobs /\ block \in Nat /\ job.len \in Nat
      /\ NBlocks(job.len) \in Nat /\ IsSeq(coded)
  <2>1. pc # "encode"
      BY DEF Decoding
  <2> QED
      BY <2>1, JobType, BlocksOf DEF FrameInv, SizeInv
<1>2. block < NBlocks(job.len)
    BY <1>1, BlocksOf DEF Front
<1>3. block * BlockLen + BlockLen <= Len(coded) /\ block * BlockLen \in Nat
    BY <1>1, <1>2, Sizes, ProductOrder DEF AllCoded
<1>4. Len(coded) \in Nat
    BY <1>1 DEF IsSeq
<1>5. block * msgchunk \in Nat /\ (block + 1) * msgchunk = block * msgchunk + msgchunk
    BY <1>1, Sizes, ProductOrder
<1>6. job.len <= Len(coded)
  <2> DEFINE n == NBlocks(job.len)
  <2>1. n \in Nat /\ ~ (n * msgchunk <= job.len) /\ n * msgchunk \in Nat
      BY <1>1, BlocksOf, Sizes, ProductOrder
  <2>2. msgchunk <= BlockLen
      BY Sizes
  <2>3. msgchunk * n <= BlockLen * n
      BY <2>1, <2>2, Sizes, ProductOrder
  <2>4. msgchunk * n = n * msgchunk /\ BlockLen * n = n * BlockLen
      BY <2>1, Sizes
  <2>5. Len(coded) = n * BlockLen
      BY <1>1 DEF AllCoded
  <2> HIDE DEF n
  <2> QED
      BY <1>1, <1>4, <2>1, <2>3, <2>4, <2>5
<1> QED
    BY <1>2, <1>3, <1>4, <1>5, <1>6

\* What is said of the message stays when the sizes and the output do.
LEMMA SameKeeps ==
    ASSUME FrameInv, SizeInv', pc # "encode", pc' \notin {"encode", "stuff"},
           Decoding' => Decoding, pc' \notin {"beyond", "done", "trash"},
           UNCHANGED <<job, block, damage, out>>, Len(coded') = Len(coded)
    PROVE  FrameInv'
<1>1. /\ AllRead' = AllRead /\ Correctable' = Correctable /\ Front' = Front
    BY DEF AllRead, Correctable, Front, msgchunk, max_mlen, StreamSize, RawCapacity,
       Capacity, CapacityEcc
<1>2. Recovered'
    BY DEF Recovered
<1> QED
    BY <1>1, <1>2 DEF FrameInv

\* The receiver starts with the first block.
LEMMA TransmitKeeps ==
    ASSUME FrameInv, SizeInv', Transmit
    PROVE  FrameInv'
<1>1. /\ job' = job /\ block' = 0 /\ pc = "stuff" /\ pc' = "decode" /\ out' = out
    BY DEF Transmit
<1>2. job \in Jobs /\ out = <<>>
    BY <1>1 DEF FrameInv, SizeInv
<1>3. Front'
  <2>1. 0 * msgchunk = 0 /\ msgchunk' = msgchunk
      BY Sizes DEF msgchunk, max_mlen
  <2>2. out' = [i \in 1 .. 0 |-> Text(i - 1)]
      BY <1>1, <1>2
  <2>3. job.len \in Nat
      BY <1>2, JobType
  <2> QED
      BY <1>1, <2>1, <2>2, <2>3 DEF Front
<1>4. Recovered'
    BY <1>1 DEF Recovered
<1> QED
    BY <1>1, <1>3, <1>4 DEF FrameInv

\* The decoder goes beyond the last block only if it was misled.
LEMMA BeyondKeeps ==
    ASSUME FrameInv, SizeInv', Beyond
    PROVE  FrameInv'
<1>1. /\ UNCHANGED <<job, block, coded, damage, out>> /\ pc = "decode" /\ pc' = "beyond"
      /\ block * BlockLen = Len(coded)
    BY DEF Beyond
<1>2. Decoding
    BY <1>1 DEF Decoding
<1>3. ~ (AllRead /\ Correctable)
  <2> SUFFICES ASSUME AllRead, Correctable PROVE FALSE
      OBVIOUS
  <2> QED
      BY <1>1, <1>2, BlockInside, Sizes
<1>4. AllRead' = AllRead /\ Correctable' = Correctable
    BY <1>1 DEF AllRead, Correctable, StreamSize, RawCapacity, Capacity, CapacityEcc
<1> QED
    BY <1>1, <1>3, <1>4 DEF FrameInv, Decoding, Recovered

\* The lesser of two numbers.
LEMMA LesserIs ==
    ASSUME NEW a \in Nat, NEW b \in Nat
    PROVE  Min({a, b}) = IF a <= b THEN a ELSE b
<1> DEFINE m == IF a <= b THEN a ELSE b
<1>1. m \in {a, b} /\ \A y \in {a, b} : m <= y
    OBVIOUS
<1>2. \A x \in {a, b} : (\A y \in {a, b} : x <= y) => x = m
    OBVIOUS
<1> HIDE DEF m
<1>3. Min({a, b}) = m
    BY <1>1, <1>2 DEF Min
<1> QED
    BY <1>3 DEF m

\* The decoder takes from a block what the encoder put into it.
LEMMA TakeKeeps ==
    ASSUME FrameInv, SizeInv', TakeBlock, Corrected
    PROVE  FrameInv'
<1> DEFINE mlen == Word[1]
           base == block * BlockLen
           took == [i \in 1 .. mlen |-> IF base + i + 1 <= Len(coded)
                                          THEN coded[base + i + 1] ELSE 0]
<1>1. /\ job' = job /\ block' = block + 1 /\ damage' = damage /\ coded' = coded
      /\ pc = "take" /\ pc' \in {"trash", "done", "decode"}
    BY DEF TakeBlock
<1>2. /\ Decoding /\ AllCoded /\ IsSeq(coded) /\ job \in Jobs /\ block \in Nat
      /\ job.len \in Nat
    BY <1>1, JobType DEF FrameInv, SizeInv, Decoding
<1>3. AllRead' = AllRead /\ Correctable' = Correctable
    BY <1>1 DEF AllRead, Correctable, StreamSize, RawCapacity, Capacity, CapacityEcc
<1>4. ASSUME AllRead, Correctable
      PROVE  /\ pc' = "decode" => Front'
             /\ pc' # "trash"
             /\ pc' = "done" => out' = Message
  <2> DEFINE n == block * msgchunk
             rest == job.len - n
  <2>1. /\ base \in Nat /\ n \in Nat /\ (block + 1) * msgchunk = n + msgchunk
        /\ base + BlockLen <= Len(coded) /\ Len(coded) \in Nat /\ job.len <= Len(coded)
      BY <1>2, <1>4, BlockInside
  <2>2. /\ n <= job.len /\ out = [i \in 1 .. n |-> Text(i - 1)] /\ rest \in Nat
        /\ job.len \in Nat /\ job.len = n + rest
      BY <1>2, <1>4, <2>1 DEF FrameInv, Front
  <2>3. \A p \in 0 .. max_mlen - 1 : coded[base + p + 1] = InBlock(block, p)
      BY <1>1, <1>4 DEF Corrected
  <2>4. (block + 1) * BlockLen = base + BlockLen
      BY <1>2, Sizes, ProductOrder
  <2>5. mlen = coded[base + 1]
    <3>1. Word = SubSeq(coded, base + 1, base + BlockLen)
        BY <2>4 DEF Word
    <3>2. PICK S : coded \in Seq(S)
        BY <1>2 DEF IsSeq
    <3> HIDE DEF base
    <3> QED
        BY <2>1, <3>1, <3>2, Sizes
  <2>6. 0 \in 0 .. max_mlen - 1 /\ base + 0 + 1 = base + 1
      BY <2>1, Sizes
  <2>7. mlen = Min({rest, msgchunk})
      BY <2>3, <2>5, <2>6 DEF InBlock
  <2>8. mlen = IF rest <= msgchunk THEN rest ELSE msgchunk
      BY <2>2, <2>7, Sizes, LesserIs
  <2>9. mlen \in Nat /\ mlen <= rest /\ mlen <= msgchunk
      BY <2>2, <2>8, Sizes
  <2> HIDE DEF mlen, base, n, rest
  <2>10. ASSUME NEW i \in 1 .. mlen PROVE took[i] = Text(n + i - 1)
    <3>1. base + i + 1 <= Len(coded) /\ i \in 0 .. max_mlen - 1 /\ i > 0 /\ i <= rest
        BY <2>1, <2>2, <2>9, Sizes
    <3>2. took[i] = coded[base + i + 1]
        BY <3>1
    <3>3. coded[base + i + 1] = InBlock(block, i)
        BY <2>3, <3>1
    <3>4. InBlock(block, i) = Text(n + i - 1)
      <4>1. ~ (i = 0) /\ ~ (i > 0 /\ i > rest) /\ i > 0 /\ i <= rest
          BY <2>2, <3>1
      <4>2. InBlock(block, i) = CASE i = 0 -> Min({rest, msgchunk})
                                  [] i > 0 /\ i <= rest -> Text(n + i - 1)
                                  [] i > 0 /\ i > rest -> 0
          BY DEF InBlock, n, rest
      <4> QED
          BY <4>1, <4>2
    <3> QED
        BY <3>2, <3>3, <3>4
  <2>11. took = [i \in 1 .. mlen |-> took[i]]
      OBVIOUS
  <2> HIDE DEF took
  <2>12. IsSeq(out) /\ Len(out) = n
    <3>1. out = [i \in 1 .. n |-> out[i]]
        BY <2>2
    <3> QED
        BY <2>1, <3>1, MadeIsSeq
  <2>13. out \o took = [i \in 1 .. n + mlen |-> Text(i - 1)]
    <3>1. out \o took = [i \in 1 .. n + mlen |->
                           IF i <= n THEN out[i] ELSE took[i - n]]
        BY <2>9, <2>11, <2>12, ConcatIs
    <3>2. ASSUME NEW i \in 1 .. n + mlen
          PROVE  (IF i <= n THEN out[i] ELSE took[i - n]) = Text(i - 1)
      <4>1. CASE i <= n
          BY <2>1, <2>2, <2>9, <4>1
      <4>2. CASE ~ (i <= n)
        <5>1. i - n \in 1 .. mlen /\ n + (i - n) - 1 = i - 1
            BY <2>1, <2>9, <4>2
        <5>2. took[i - n] = Text(n + (i - n) - 1)
            BY <2>10, <5>1
        <5> QED
            BY <4>2, <5>1, <5>2
      <4> QED
          BY <4>1, <4>2
    <3> QED
        BY <3>1, <3>2
  <2>14. ~ (mlen > 0 /\ Len(out) + mlen > HACK * Len(coded))
    <3>1. n + mlen <= Len(coded) /\ HACK * Len(coded) = Len(coded) + Len(coded)
        BY <2>1, <2>2, <2>9 DEF HACK
    <3> QED
        BY <2>1, <2>9, <2>12, <3>1
  <2>15. /\ out' = out \o took
         /\ pc' = IF mlen < max_mlen - 1 THEN "done" ELSE "decode"
      BY <2>14 DEF TakeBlock, mlen, took, base
  <2>16. max_mlen - 1 = msgchunk /\ msgchunk \in Nat
      BY Sizes
  <2>17. CASE mlen < msgchunk
    <3>1. n + mlen = job.len
        BY <2>1, <2>2, <2>8, <2>9, <2>17, Sizes
    <3>2. pc' = "done" /\ Message = [i \in 1 .. n + mlen |-> Text(i - 1)]
        BY <2>15, <2>16, <2>17, <3>1 DEF Message
    <3> QED
        BY <2>13, <2>15, <3>2
  <2>18. CASE ~ (mlen < msgchunk)
    <3>1. mlen = msgchunk /\ n + msgchunk <= job.len
        BY <2>1, <2>2, <2>9, <2>18, Sizes
    <3>2. pc' = "decode"
        BY <2>15, <2>16, <2>18
    <3>3. Front'
        BY <1>1, <2>1, <2>13, <2>15, <3>1 DEF Front, msgchunk, max_mlen
    <3> QED
        BY <3>2, <3>3
  <2> QED
      BY <2>17, <2>18
<1>5. Message' = Message
    BY <1>1 DEF Message
<1>6. Recovered'
    BY <1>1, <1>3, <1>4, <1>5 DEF Recovered
<1>7. pc' \notin {"encode", "stuff", "overflow", "massey", "take"}
    BY <1>1
<1>8. (Decoding /\ AllRead /\ Correctable)' => Front'
    BY <1>1, <1>3, <1>4 DEF Decoding
<1> QED
    BY <1>6, <1>7, <1>8 DEF FrameInv

\* No step breaks the invariant if every block is corrected.
LEMMA FrameNext ==
    ASSUME FrameInv, [Next]_vars, Corrected
    PROVE  FrameInv'
<1>1. SizeInv'
    BY SizeNext DEF FrameInv
<1>2. CASE EncodeByte \/ EncodeParity \/ Overflow
    BY <1>1, <1>2 DEF FrameInv, EncodeByte, EncodeParity, Overflow, Decoding, Recovered
<1>3. CASE DecodeData \/ Massey
    BY <1>1, <1>3, SameKeeps DEF DecodeData, Massey, Decoding
<1>4. CASE CorrectErrors
  <2>1. Len(coded') = Len(coded)
    <3>1. coded' = [p \in 1 .. Len(coded) |-> coded'[p]] /\ block \in Nat
        BY <1>4 DEF CorrectErrors, FrameInv, SizeInv
    <3> QED
        BY <1>4, <3>1, ChangeSizes DEF CorrectErrors, FrameInv
  <2> QED
      BY <1>1, <1>4, <2>1, SameKeeps DEF CorrectErrors, Decoding
<1>5. CASE UNCHANGED vars
    BY <1>1, <1>5 DEF FrameInv, vars, Decoding, AllRead, Correctable, Front, msgchunk,
       max_mlen, StreamSize, RawCapacity, Capacity, CapacityEcc, Recovered, Message
<1> QED
    BY <1>1, <1>2, <1>3, <1>4, <1>5, TransmitKeeps, BeyondKeeps, TakeKeeps DEF Next

-----------------------------------------------------------------------------
(* What the sizes give.                                                    *)

\* A message within the capacity goes in, whatever the room and the length of a
\* block, provided the blocks leave room for the header.
LEMMA CapacityEnough ==
    ASSUME job \in Jobs, AllCoded, TooLong
    PROVE  job.len > Capacity(job.room) \/ job.room % BlockLen < JELBS_HDR_SIZE
<1> DEFINE q == job.room \div BlockLen
           r == job.room % BlockLen
           n == NBlocks(job.len)
<1>1. job.room \in Nat /\ job.len \in Nat
    BY JobType
<1>2. q \in Nat /\ r \in 0 .. BlockLen - 1 /\ job.room = q * BlockLen + r
    BY <1>1, Sizes, DivFacts
<1>3. n \in Nat
    BY <1>1, BlocksOf
<1>4. Capacity(job.room) = q * msgchunk - 6
    BY DEF Capacity, CapacityEcc, msgchunk, JELBS_HDR_SIZE
<1>5. q * msgchunk \in Nat /\ q * BlockLen \in Nat /\ n * BlockLen \in Nat
    BY <1>2, <1>3, Sizes, ProductOrder
<1>6. n * BlockLen + 6 > job.room
    BY DEF AllCoded, TooLong, JELBS_HDR_SIZE
<1>7. q * msgchunk <= job.len <=> q < n
    BY <1>1, <1>2, BlocksOf
<1>8. n <= q => n * BlockLen <= q * BlockLen
    BY <1>2, <1>3, Sizes, ProductOrder
<1>9. r \in Nat
    BY <1>2, Sizes
<1> SUFFICES ASSUME ~ (r < 6) PROVE job.len > Capacity(job.room)
    BY DEF JELBS_HDR_SIZE
<1> HIDE DEF q, r, n
<1>10. q < n
    BY <1>1, <1>2, <1>3, <1>5, <1>6, <1>8, <1>9
<1> QED
    BY <1>1, <1>4, <1>5, <1>7, <1>10

\* The capacity jel_capacity gives under ECC is enough for coding, header and
\* all, whether or not the code corrects anything.
THEOREM EccCapacityHolds == Spec => []CapacityHolds
<1>1. Init => SizeInv
    BY FrameStart DEF FrameInv
<1>2. SizeInv /\ [Next]_vars => SizeInv'
    BY SizeNext
<1>3. SizeInv => CapacityHolds
  <2> SUFFICES ASSUME SizeInv, pc = "overflow"
               PROVE  job.len > Capacity(job.room) \/ job.room % BlockLen < JELBS_HDR_SIZE
      BY DEF CapacityHolds
  <2> QED
      BY CapacityEnough DEF SizeInv
<1> QED
    BY <1>1, <1>2, <1>3, PTL DEF Spec

-----------------------------------------------------------------------------
(* The field: exclusive or and multiplication, from what the tables are.   *)

\* Exclusive or makes a group of the bytes, in which each is its own inverse.
LEMMA XorFacts ==
    /\ \A a, b \in Byte : Xor(a, b) \in Byte /\ Xor(a, b) = Xor(b, a)
    /\ \A a \in Byte : Xor(a, 0) = a /\ Xor(0, a) = a /\ Xor(a, a) = 0
    /\ \A a, b, c \in Byte : Xor(Xor(a, b), c) = Xor(a, Xor(b, c))
<1> DEFINE hi(a) == a \div 16
           lo(a) == a % 16
<1>1. \A a \in Byte : hi(a) \in Nibble /\ lo(a) \in Nibble /\ a = 16 * hi(a) + lo(a)
    BY DEF Byte, Nibble
<1>2. \A h, l \in Nibble : /\ 16 * h + l \in Byte
                           /\ hi(16 * h + l) = h
                           /\ lo(16 * h + l) = l
    BY DEF Byte, Nibble
<1>3. \A a, b : Xor(a, b) = 16 * XorHalf[hi(a)][hi(b)] + XorHalf[lo(a)][lo(b)]
    BY DEF Xor
<1>4. /\ \A a, b \in Nibble : /\ XorHalf[a][b] \in Nibble
                              /\ XorHalf[a][b] = XorHalf[b][a]
                              /\ XorHalf[a][0] = a
                              /\ XorHalf[a][a] = 0
      /\ \A a, b, c \in Nibble : XorHalf[XorHalf[a][b]][c] = XorHalf[a][XorHalf[b][c]]
    BY TablesAssumption
<1>5. 0 \in Nibble /\ 0 \in Byte /\ hi(0) = 0 /\ lo(0) = 0
    BY DEF Nibble, Byte
<1> HIDE DEF hi, lo
<1>6. ASSUME NEW a \in Byte, NEW b \in Byte
      PROVE  /\ Xor(a, b) \in Byte
             /\ Xor(a, b) = Xor(b, a)
             /\ hi(Xor(a, b)) = XorHalf[hi(a)][hi(b)]
             /\ lo(Xor(a, b)) = XorHalf[lo(a)][lo(b)]
  <2>1. /\ hi(a) \in Nibble /\ hi(b) \in Nibble /\ lo(a) \in Nibble /\ lo(b) \in Nibble
      BY <1>1
  <2>2. XorHalf[hi(a)][hi(b)] \in Nibble /\ XorHalf[lo(a)][lo(b)] \in Nibble
      BY <1>4, <2>1
  <2>3. XorHalf[hi(a)][hi(b)] = XorHalf[hi(b)][hi(a)]
        /\ XorHalf[lo(a)][lo(b)] = XorHalf[lo(b)][lo(a)]
      BY <1>4, <2>1
  <2> QED
      BY <1>2, <1>3, <2>2, <2>3
<1>7. ASSUME NEW a \in Byte PROVE Xor(a, 0) = a /\ Xor(0, a) = a /\ Xor(a, a) = 0
  <2>1. hi(a) \in Nibble /\ lo(a) \in Nibble
      BY <1>1
  <2>2. /\ XorHalf[hi(a)][0] = hi(a) /\ XorHalf[lo(a)][0] = lo(a)
        /\ XorHalf[hi(a)][hi(a)] = 0 /\ XorHalf[lo(a)][lo(a)] = 0
      BY <1>4, <2>1
  <2>3. Xor(a, 0) = 16 * hi(a) + lo(a) /\ Xor(a, a) = 16 * 0 + 0
      BY <1>3, <1>5, <2>2
  <2>4. Xor(0, a) = Xor(a, 0)
      BY <1>5, <1>6
  <2> QED
      BY <1>1, <2>3, <2>4
<1>8. ASSUME NEW a \in Byte, NEW b \in Byte, NEW c \in Byte
      PROVE  Xor(Xor(a, b), c) = Xor(a, Xor(b, c))
  <2>1. Xor(Xor(a, b), c) = 16 * XorHalf[XorHalf[hi(a)][hi(b)]][hi(c)]
                               + XorHalf[XorHalf[lo(a)][lo(b)]][lo(c)]
      BY <1>3, <1>6
  <2>2. Xor(a, Xor(b, c)) = 16 * XorHalf[hi(a)][XorHalf[hi(b)][hi(c)]]
                               + XorHalf[lo(a)][XorHalf[lo(b)][lo(c)]]
      BY <1>3, <1>6
  <2>3. /\ hi(a) \in Nibble /\ hi(b) \in Nibble /\ hi(c) \in Nibble
        /\ lo(a) \in Nibble /\ lo(b) \in Nibble /\ lo(c) \in Nibble
      BY <1>1
  <2>4. /\ XorHalf[XorHalf[hi(a)][hi(b)]][hi(c)] = XorHalf[hi(a)][XorHalf[hi(b)][hi(c)]]
        /\ XorHalf[XorHalf[lo(a)][lo(b)]][lo(c)] = XorHalf[lo(a)][XorHalf[lo(b)][lo(c)]]
      BY <1>4, <2>3
  <2> QED
      BY <2>1, <2>2, <2>4
<1> QED
    BY <1>6, <1>7, <1>8

\* Powers are counted modulo 255.
LEMMA PowerFacts ==
    /\ \A i \in Nat : gexp(i) \in Byte \ {0} /\ gexp(i % 255) = gexp(i)
    /\ \A i \in Nat : Times2(gexp(i)) = gexp(i + 1)
    /\ \A i \in Nat : glog(gexp(i)) = i % 255
    /\ \A x \in Byte \ {0} : glog(x) \in Nat /\ gexp(glog(x)) = x
<1>1. \A i \in Nat : i % 255 \in 0 .. 254 /\ (i % 255) % 255 = i % 255
                     /\ ((i % 255) + 1) % 255 = (i + 1) % 255
    OBVIOUS
<1>2. \A i, j : i % 255 = j % 255 => gexp(i) = gexp(j)
    BY DEF gexp
<1>3. \A i \in Nat : gexp(i % 255) = gexp(i) /\ gexp((i % 255) + 1) = gexp(i + 1)
    BY <1>1, <1>2
<1>4. /\ \A z \in 0 .. 254 : /\ gexp(z) \in Byte \ {0} /\ glog(gexp(z)) = z
                             /\ Times2(gexp(z)) = gexp(z + 1)
      /\ \A x \in Byte \ {0} : glog(x) \in 0 .. 254 /\ gexp(glog(x)) = x
    BY TablesAssumption
<1>5. ASSUME NEW i \in Nat
      PROVE  /\ gexp(i) \in Byte \ {0}
             /\ Times2(gexp(i)) = gexp(i + 1)
             /\ glog(gexp(i)) = i % 255
  <2> DEFINE z == i % 255
  <2>1. z \in 0 .. 254 /\ gexp(z) = gexp(i) /\ gexp(z + 1) = gexp(i + 1)
      BY <1>1, <1>3, SMTT(30)
  <2> HIDE DEF z
  <2>2. gexp(z) \in Byte \ {0} /\ Times2(gexp(z)) = gexp(z + 1) /\ glog(gexp(z)) = z
      BY <1>4, <2>1
  <2> QED
      BY <2>1, <2>2 DEF z
<1>6. \A x \in Byte \ {0} : glog(x) \in Nat /\ gexp(glog(x)) = x
    BY <1>4
<1>7. \A i \in Nat : gexp(i) \in Byte \ {0} /\ gexp(i % 255) = gexp(i)
    BY <1>3, <1>5
<1>8. \A i \in Nat : Times2(gexp(i)) = gexp(i + 1) /\ glog(gexp(i)) = i % 255
    BY <1>5
<1> QED
    BY <1>6, <1>7, <1>8, ZenonT(30)

\* Multiplication of powers, and by 0.
LEMMA MultFacts ==
    /\ \A i, j \in Nat : gmult(gexp(i), gexp(j)) = gexp(i + j)
    /\ \A a : gmult(a, 0) = 0 /\ gmult(0, a) = 0
    /\ \A a, b \in Byte : gmult(a, b) \in Byte /\ gmult(a, b) = gmult(b, a)
    /\ \A a \in Byte : gmult(a, 1) = a
<1>1. ASSUME NEW i \in Nat, NEW j \in Nat
      PROVE  gmult(gexp(i), gexp(j)) = gexp(i + j)
  <2>1. gexp(i) # 0 /\ gexp(j) # 0
      BY PowerFacts
  <2>2. gmult(gexp(i), gexp(j)) = gexp((i % 255) + (j % 255))
      BY <2>1, PowerFacts DEF gmult
  <2>3. ((i % 255) + (j % 255)) % 255 = (i + j) % 255
      OBVIOUS
  <2> QED
      BY <2>2, <2>3 DEF gexp
<1>2. \A a : gmult(a, 0) = 0 /\ gmult(0, a) = 0
    BY DEF gmult
<1>3. ASSUME NEW a \in Byte, NEW b \in Byte
      PROVE  gmult(a, b) \in Byte /\ gmult(a, b) = gmult(b, a)
  <2>1. CASE a = 0 \/ b = 0
      BY <2>1, <1>2 DEF Byte
  <2>2. CASE a # 0 /\ b # 0
    <3>1. glog(a) \in Nat /\ glog(b) \in Nat
        BY <2>2, PowerFacts
    <3>2. glog(a) + glog(b) = glog(b) + glog(a) /\ glog(a) + glog(b) \in Nat
        BY <3>1
    <3> QED
        BY <2>2, <3>2, PowerFacts DEF gmult
  <2> QED
      BY <2>1, <2>2
<1>4. ASSUME NEW a \in Byte PROVE gmult(a, 1) = a
  <2>1. gexp(0) = 1
      BY PowersAssumption DEF gexp
  <2>2. CASE a = 0
      BY <1>2, <2>2
  <2>3. CASE a # 0
    <3>1. glog(a) \in Nat /\ gexp(glog(a)) = a
        BY <2>3, PowerFacts
    <3>2. gmult(gexp(glog(a)), gexp(0)) = gexp(glog(a) + 0)
        BY <1>1, <3>1
    <3> QED
        BY <2>1, <3>1, <3>2
  <2> QED
      BY <2>2, <2>3
<1> QED
    BY <1>1, <1>2, <1>3, <1>4

\* Multiplication is associative.
LEMMA MultAssociative ==
    ASSUME NEW a \in Byte, NEW b \in Byte, NEW c \in Byte
    PROVE  gmult(gmult(a, b), c) = gmult(a, gmult(b, c))
<1>1. CASE a = 0 \/ b = 0 \/ c = 0
    BY <1>1, MultFacts
<1>2. CASE a # 0 /\ b # 0 /\ c # 0
  <2>1. PICK i \in Nat : a = gexp(i)
      BY <1>2, PowerFacts
  <2>2. PICK j \in Nat : b = gexp(j)
      BY <1>2, PowerFacts
  <2>3. PICK k \in Nat : c = gexp(k)
      BY <1>2, PowerFacts
  <2>4. i + j \in Nat /\ j + k \in Nat /\ (i + j) + k = i + (j + k)
      OBVIOUS
  <2>5. gmult(a, b) = gexp(i + j) /\ gmult(b, c) = gexp(j + k)
      BY <2>1, <2>2, <2>3, MultFacts
  <2>6. gmult(gmult(a, b), c) = gexp((i + j) + k) /\ gmult(a, gmult(b, c)) = gexp(i + (j + k))
      BY <2>1, <2>3, <2>4, <2>5, MultFacts
  <2> QED
      BY <2>4, <2>6
<1> QED
    BY <1>1, <1>2

\* A power is a number of shifts.
LEMMA ShiftIs ==
    ASSUME NEW x \in Byte, NEW k \in Nat
    PROVE  gmult(gexp(k + 1), x) = Times2(gmult(gexp(k), x))
<1>1. CASE x = 0
  <2>1. Times2(0) = 0
      BY DEF Times2
  <2> QED
      BY <1>1, <2>1, MultFacts
<1>2. CASE x # 0
  <2>1. PICK i \in Nat : x = gexp(i)
      BY <1>2, PowerFacts
  <2>2. k + 1 \in Nat /\ k + i \in Nat /\ (k + 1) + i = (k + i) + 1
      OBVIOUS
  <2>3. gmult(gexp(k + 1), x) = gexp((k + 1) + i) /\ gmult(gexp(k), x) = gexp(k + i)
      BY <2>1, <2>2, MultFacts
  <2>4. Times2(gexp(k + i)) = gexp((k + i) + 1)
      BY <2>2, PowerFacts
  <2> QED
      BY <2>2, <2>3, <2>4
<1> QED
    BY <1>1, <1>2

\* Multiplication distributes over the exclusive or.
LEMMA MultDistributes ==
    ASSUME NEW a \in Byte, NEW x \in Byte, NEW y \in Byte
    PROVE  gmult(a, Xor(x, y)) = Xor(gmult(a, x), gmult(a, y))
<1> DEFINE T == {k \in 0 .. 254 : gmult(gexp(k), Xor(x, y))
                                    = Xor(gmult(gexp(k), x), gmult(gexp(k), y))}
<1>1. Xor(x, y) \in Byte /\ 0 \in Byte /\ 1 \in Byte
  <2>1. Xor(x, y) \in Byte
      BY XorFacts
  <2>2. 0 \in Byte /\ 1 \in Byte
      BY DEF Byte
  <2> QED
      BY <2>1, <2>2
<1>2. 0 \in T
  <2>1. gexp(0) = 1
      BY PowersAssumption DEF gexp
  <2>2. \A b \in Byte : gmult(1, b) = b
      BY <1>1, MultFacts
  <2>3. gmult(1, Xor(x, y)) = Xor(gmult(1, x), gmult(1, y))
      BY <1>1, <2>2
  <2> QED
      BY <2>1, <2>3
<1>3. ASSUME NEW k \in 0 .. 253, k \in T PROVE k + 1 \in T
  <2>1. k \in Nat /\ k + 1 \in 0 .. 254
      OBVIOUS
  <2>2. gmult(gexp(k), x) \in Byte /\ gmult(gexp(k), y) \in Byte
    <3>1. gexp(k) \in Byte
        BY <2>1, PowerFacts
    <3> QED
        BY <3>1, MultFacts
  <2>3. Times2(Xor(gmult(gexp(k), x), gmult(gexp(k), y)))
          = Xor(Times2(gmult(gexp(k), x)), Times2(gmult(gexp(k), y)))
      BY <2>2, TablesAssumption
  <2>4. gmult(gexp(k), Xor(x, y)) = Xor(gmult(gexp(k), x), gmult(gexp(k), y))
      BY <1>3
  <2>5. gmult(gexp(k + 1), Xor(x, y)) = Xor(gmult(gexp(k + 1), x), gmult(gexp(k + 1), y))
      BY <1>1, <2>1, <2>3, <2>4, ShiftIs
  <2> QED
      BY <2>1, <2>5
<1> HIDE DEF T
<1>4. \A k \in 0 .. 254 : k \in T
  <2>1. \A k \in 0 .. 254 - 1 : k \in T => k + 1 \in T
      BY <1>3
  <2> QED
      BY <1>2, <2>1, SegmentInduction
<1>5. CASE a = 0
  <2>1. Xor(0, 0) = 0
      BY <1>1, XorFacts
  <2> QED
      BY <1>1, <1>5, <2>1, MultFacts
<1>6. CASE a # 0
  <2>1. glog(a) \in 0 .. 254 /\ gexp(glog(a)) = a
      BY <1>6, TablesAssumption
  <2>2. glog(a) \in T
      BY <1>4, <2>1
  <2> QED
      BY <2>1, <2>2 DEF T
<1> QED
    BY <1>5, <1>6

-----------------------------------------------------------------------------
(* Evaluating a polynomial, as decode_data does (Horner).                  *)

\* h evaluates, from h[0] on, the coefficients p[1], ..., p[n] at r.
IsHorner(h, r, p, n) ==
    /\ h \in [0 .. n -> Byte]
    /\ \A i \in 1 .. n : h[i] = Xor(p[i], gmult(r, h[i - 1]))

\* The coefficients can be evaluated.
LEMMA HornerExists ==
    ASSUME NEW n \in Nat, NEW r \in Byte, NEW s \in Byte, NEW p,
           \A i \in 1 .. n : p[i] \in Byte
    PROVE  \E h : IsHorner(h, r, p, n) /\ h[0] = s
<1> DEFINE step == [i \in 1 .. n |-> [v \in Byte |-> Xor(p[i], gmult(r, v))]]
<1>1. \A i \in 1 .. n : \A v \in Byte : Xor(p[i], gmult(r, v)) \in Byte
  <2> SUFFICES ASSUME NEW i \in 1 .. n, NEW v \in Byte
               PROVE  Xor(p[i], gmult(r, v)) \in Byte
      OBVIOUS
  <2>1. gmult(r, v) \in Byte
      BY MultFacts
  <2> QED
      BY <2>1, XorFacts
<1>2. step \in [1 .. n -> [Byte -> Byte]]
    BY <1>1
<1>3. \A i \in 1 .. n : \A v \in Byte : step[i][v] = Xor(p[i], gmult(r, v))
    OBVIOUS
<1> HIDE DEF step
<1>4. PICK h : IsRecursion(h, n, Byte, s, step)
    BY <1>2, SegmentRecursion
<1>5. h \in [0 .. n -> Byte] /\ h[0] = s /\ \A i \in 1 .. n : h[i] = step[i][h[i - 1]]
    BY <1>4 DEF IsRecursion
<1>6. \A i \in 1 .. n : h[i - 1] \in Byte
    BY <1>5
<1>7. \A i \in 1 .. n : h[i] = Xor(p[i], gmult(r, h[i - 1]))
    BY <1>3, <1>5, <1>6
<1>8. IsHorner(h, r, p, n)
    BY <1>5, <1>7 DEF IsHorner
<1> QED
    BY <1>5, <1>8

\* Four bytes, in another order.
LEMMA XorSwap ==
    ASSUME NEW a \in Byte, NEW b \in Byte, NEW c \in Byte, NEW d \in Byte
    PROVE  Xor(Xor(a, b), Xor(c, d)) = Xor(Xor(a, c), Xor(b, d))
<1>1. Xor(c, d) \in Byte /\ Xor(b, d) \in Byte
    BY XorFacts
<1>2. Xor(Xor(a, b), Xor(c, d)) = Xor(a, Xor(b, Xor(c, d)))
    BY <1>1, XorFacts
<1>3. Xor(b, Xor(c, d)) = Xor(Xor(b, c), d)
    BY XorFacts
<1>4. Xor(b, c) = Xor(c, b) /\ Xor(Xor(c, b), d) = Xor(c, Xor(b, d))
    BY XorFacts
<1>5. Xor(a, Xor(c, Xor(b, d))) = Xor(Xor(a, c), Xor(b, d))
    BY <1>1, XorFacts
<1> QED
    BY <1>2, <1>3, <1>4, <1>5

\* Evaluation is linear: in the sum of the coefficients,
LEMMA HornerSum ==
    ASSUME NEW n \in Nat, NEW r \in Byte, NEW p, NEW q, NEW h, NEW g,
           \A i \in 1 .. n : p[i] \in Byte, \A i \in 1 .. n : q[i] \in Byte,
           IsHorner(h, r, p, n), IsHorner(g, r, q, n)
    PROVE  IsHorner([i \in 0 .. n |-> Xor(h[i], g[i])], r,
                    [i \in 1 .. n |-> Xor(p[i], q[i])], n)
<1> DEFINE k == [i \in 0 .. n |-> Xor(h[i], g[i])]
           s == [i \in 1 .. n |-> Xor(p[i], q[i])]
<1>1. \A i \in 0 .. n : h[i] \in Byte /\ g[i] \in Byte
    BY DEF IsHorner
<1>2. \A i \in 0 .. n : Xor(h[i], g[i]) \in Byte
    BY <1>1, XorFacts
<1>3. k \in [0 .. n -> Byte]
    BY <1>2
<1>4. ASSUME NEW i \in 1 .. n PROVE k[i] = Xor(s[i], gmult(r, k[i - 1]))
  <2>1. i - 1 \in 0 .. n /\ i \in 0 .. n
      OBVIOUS
  <2>2. /\ h[i] = Xor(p[i], gmult(r, h[i - 1])) /\ g[i] = Xor(q[i], gmult(r, g[i - 1]))
        /\ h[i - 1] \in Byte /\ g[i - 1] \in Byte /\ p[i] \in Byte /\ q[i] \in Byte
      BY <1>1, <2>1 DEF IsHorner
  <2>3. gmult(r, h[i - 1]) \in Byte /\ gmult(r, g[i - 1]) \in Byte
      BY <2>2, MultFacts
  <2>4. Xor(Xor(p[i], gmult(r, h[i - 1])), Xor(q[i], gmult(r, g[i - 1])))
          = Xor(Xor(p[i], q[i]), Xor(gmult(r, h[i - 1]), gmult(r, g[i - 1])))
      BY <2>2, <2>3, XorSwap
  <2>5. Xor(gmult(r, h[i - 1]), gmult(r, g[i - 1])) = gmult(r, Xor(h[i - 1], g[i - 1]))
      BY <2>2, MultDistributes
  <2>6. k[i] = Xor(h[i], g[i]) /\ k[i - 1] = Xor(h[i - 1], g[i - 1]) /\ s[i] = Xor(p[i], q[i])
      BY <2>1
  <2> HIDE DEF k, s
  <2> QED
      BY <2>2, <2>4, <2>5, <2>6
<1> HIDE DEF k, s
<1>5. IsHorner(k, r, s, n)
    BY <1>3, <1>4 DEF IsHorner
<1> QED
    BY <1>5 DEF k, s

\* and in a factor of them.
LEMMA HornerScaled ==
    ASSUME NEW n \in Nat, NEW r \in Byte, NEW c \in Byte, NEW p, NEW h,
           \A i \in 1 .. n : p[i] \in Byte, IsHorner(h, r, p, n)
    PROVE  IsHorner([i \in 0 .. n |-> gmult(c, h[i])], r,
                    [i \in 1 .. n |-> gmult(c, p[i])], n)
<1> DEFINE k == [i \in 0 .. n |-> gmult(c, h[i])]
           s == [i \in 1 .. n |-> gmult(c, p[i])]
<1>1. \A i \in 0 .. n : h[i] \in Byte
    BY DEF IsHorner
<1>2. \A i \in 0 .. n : gmult(c, h[i]) \in Byte
    BY <1>1, MultFacts
<1>3. k \in [0 .. n -> Byte]
    BY <1>2
<1>4. ASSUME NEW i \in 1 .. n PROVE k[i] = Xor(s[i], gmult(r, k[i - 1]))
  <2>1. i - 1 \in 0 .. n /\ i \in 0 .. n
      OBVIOUS
  <2>2. /\ h[i] = Xor(p[i], gmult(r, h[i - 1]))
        /\ h[i - 1] \in Byte /\ p[i] \in Byte
      BY <1>1, <2>1 DEF IsHorner
  <2>3. gmult(r, h[i - 1]) \in Byte
      BY <2>2, MultFacts
  <2>4. gmult(c, Xor(p[i], gmult(r, h[i - 1])))
          = Xor(gmult(c, p[i]), gmult(c, gmult(r, h[i - 1])))
      BY <2>2, <2>3, MultDistributes
  <2>5. gmult(c, gmult(r, h[i - 1])) = gmult(r, gmult(c, h[i - 1]))
    <3>1. gmult(c, gmult(r, h[i - 1])) = gmult(gmult(c, r), h[i - 1])
          /\ gmult(r, gmult(c, h[i - 1])) = gmult(gmult(r, c), h[i - 1])
        BY <2>2, MultAssociative
    <3>2. gmult(c, r) = gmult(r, c)
        BY MultFacts
    <3> QED
        BY <3>1, <3>2
  <2>6. k[i] = gmult(c, h[i]) /\ k[i - 1] = gmult(c, h[i - 1]) /\ s[i] = gmult(c, p[i])
      BY <2>1
  <2> HIDE DEF k, s
  <2> QED
      BY <2>2, <2>4, <2>5, <2>6
<1> HIDE DEF k, s
<1>5. IsHorner(k, r, s, n)
    BY <1>3, <1>4 DEF IsHorner
<1> QED
    BY <1>5 DEF k, s

-----------------------------------------------------------------------------
(* The roots of the generator.                                             *)

\* The product of a polynomial and x + gexp(i).
TimesRoot(p, i) == [d \in Degrees |-> Xor(gmult(gexp(i), p[d]), mul_z_poly(p)[d])]

\* p is a product of k factors: its degree is k, its first coefficient 1, and
\* evaluated at a power it is 0 if that is among the factors' roots.
IsProduct(p, k) ==
    /\ p \in [Degrees -> Byte]
    /\ p[k] = 1
    /\ \A d \in Degrees : d > k => p[d] = 0
    /\ \A e \in 1 .. NPAR :
          \E h : /\ IsHorner(h, gexp(e), [i \in 1 .. k |-> p[k - i]], k)
                 /\ h[0] = 1
                 /\ e <= k => h[k] = 0

\* The bytes 0 and 1.
LEMMA SmallBytes == 0 \in Byte /\ 1 \in Byte
BY DEF Byte

\* No factor yet.
LEMMA OneIsProduct == IsProduct(One, 0)
<1>1. NPAR \in Nat \ {0}
    BY ReedSolomonAssumption
<1>2. Degrees = 0 .. 2 * NPAR - 1
    BY DEF Degrees, MAXDEG
<1>3. 0 \in Degrees
    BY <1>1, <1>2
<1>4. \A d \in Degrees : One[d] = IF d = 0 THEN 1 ELSE 0
    BY <1>3 DEF One, Zero
<1>5. One \in [Degrees -> Byte]
    BY SmallBytes DEF One, Zero
<1>6. ASSUME NEW e \in 1 .. NPAR
      PROVE  \E h : /\ IsHorner(h, gexp(e), [i \in 1 .. 0 |-> One[0 - i]], 0)
                    /\ h[0] = 1
                    /\ e <= 0 => h[0] = 0
  <2> DEFINE h == [i \in 0 .. 0 |-> 1]
  <2>1. h \in [0 .. 0 -> Byte] /\ h[0] = 1
      BY SmallBytes
  <2>2. ~ (e <= 0)
      OBVIOUS
  <2> HIDE DEF h
  <2>3. IsHorner(h, gexp(e), [i \in 1 .. 0 |-> One[0 - i]], 0)
      BY <2>1 DEF IsHorner
  <2> QED
      BY <2>1, <2>2, <2>3
<1> QED
    BY <1>2, <1>3, <1>4, <1>5, <1>6 DEF IsProduct

\* The coefficients of a product with another factor.
LEMMA ProductBytes ==
    ASSUME NEW k \in 0 .. NPAR - 1, NEW p, IsProduct(p, k), NEW a \in Nat
    PROVE  /\ TimesRoot(p, a) \in [Degrees -> Byte]
           /\ \A d \in Degrees :
                 TimesRoot(p, a)[d] = Xor(gmult(gexp(a), p[d]), IF d = 0 THEN 0 ELSE p[d - 1])
           /\ TimesRoot(p, a)[k + 1] = 1
           /\ \A d \in Degrees : d > k + 1 => TimesRoot(p, a)[d] = 0
<1>1. NPAR \in Nat \ {0}
    BY ReedSolomonAssumption
<1>2. Degrees = 0 .. 2 * NPAR - 1
    BY DEF Degrees, MAXDEG
<1>3. \A d \in Degrees : d # 0 => d - 1 \in Degrees
    BY <1>1, <1>2
<1>4. /\ p \in [Degrees -> Byte] /\ p[k] = 1 /\ \A d \in Degrees : d > k => p[d] = 0
      /\ \A d \in Degrees : p[d] \in Byte
    BY DEF IsProduct
<1>5. \A d \in Degrees :
        TimesRoot(p, a)[d] = Xor(gmult(gexp(a), p[d]), IF d = 0 THEN 0 ELSE p[d - 1])
    BY DEF TimesRoot, mul_z_poly
<1>6. ASSUME NEW d \in Degrees PROVE TimesRoot(p, a)[d] \in Byte
  <2>1. gexp(a) \in Byte /\ p[d] \in Byte /\ (IF d = 0 THEN 0 ELSE p[d - 1]) \in Byte
      BY <1>3, <1>4, PowerFacts, SmallBytes
  <2>2. gmult(gexp(a), p[d]) \in Byte
      BY <2>1, MultFacts
  <2> QED
      BY <1>5, <2>1, <2>2, XorFacts
<1>7. TimesRoot(p, a) \in [Degrees -> Byte]
  <2>1. TimesRoot(p, a) = [d \in Degrees |-> TimesRoot(p, a)[d]]
      BY DEF TimesRoot
  <2> QED
      BY <1>6, <2>1
<1>8. gmult(gexp(a), 0) = 0 /\ Xor(0, 0) = 0 /\ Xor(0, 1) = 1
    BY MultFacts, XorFacts, SmallBytes
<1>9. TimesRoot(p, a)[k + 1] = 1
  <2>1. k + 1 \in Degrees /\ k + 1 > k /\ k + 1 # 0 /\ (k + 1) - 1 = k
      BY <1>1, <1>2
  <2> QED
      BY <1>4, <1>5, <1>8, <2>1
<1>10. ASSUME NEW d \in Degrees, d > k + 1 PROVE TimesRoot(p, a)[d] = 0
  <2>1. d > k /\ d - 1 > k /\ d # 0
      BY <1>1, <1>2, <1>10
  <2>2. p[d] = 0 /\ p[d - 1] = 0
      BY <1>3, <1>4, <2>1
  <2> QED
      BY <1>5, <1>8, <2>1, <2>2
<1> QED
    BY <1>5, <1>7, <1>9, <1>10

\* The value of a product with another factor: a root stays one, and there is one
\* more.
LEMMA ProductRoots ==
    ASSUME NEW k \in 0 .. NPAR - 1, NEW p, IsProduct(p, k), NEW e \in 1 .. NPAR
    PROVE  \E h : /\ IsHorner(h, gexp(e),
                              [i \in 1 .. k + 1 |-> TimesRoot(p, k + 1)[k + 1 - i]], k + 1)
                  /\ h[0] = 1
                  /\ e <= k + 1 => h[k + 1] = 0
<1> DEFINE r == gexp(e)
           a == gexp(k + 1)
           c == [i \in 1 .. k |-> p[k - i]]
<1>1. NPAR \in Nat \ {0} /\ Degrees = 0 .. 2 * NPAR - 1 /\ k \in Nat
    BY ReedSolomonAssumption DEF Degrees, MAXDEG
<1>2. r \in Byte /\ a \in Byte
  <2>1. e \in Nat /\ k + 1 \in Nat
      OBVIOUS
  <2> QED
      BY <2>1, PowerFacts
<1>3. PICK h : IsHorner(h, r, c, k) /\ h[0] = 1 /\ (e <= k => h[k] = 0)
    BY DEF IsProduct
<1>4. /\ p[k] = 1
      /\ \A d \in Degrees : p[d] \in Byte
      /\ \A i \in 0 .. k : h[i] \in Byte
      /\ \A i \in 1 .. k : h[i] = Xor(p[k - i], gmult(r, h[i - 1]))
    BY <1>3 DEF IsProduct, IsHorner
<1> DEFINE u == [i \in 1 .. k + 1 |-> IF i <= k THEN p[k - i] ELSE 0]
           g == [i \in 0 .. k + 1 |-> IF i <= k THEN h[i] ELSE gmult(r, h[k])]
           v == [i \in 1 .. k + 1 |-> gmult(a, p[k + 1 - i])]
           f == [i \in 0 .. k + 1 |-> IF i = 0 THEN 0 ELSE gmult(a, h[i - 1])]
<1> HIDE DEF r, a, c
<1>5. \A i \in 1 .. k + 1 : u[i] \in Byte
  <2>1. \A i \in 1 .. k : k - i \in Degrees
      BY <1>1
  <2> QED
      BY <1>4, <2>1, SmallBytes
<1>6. IsHorner(g, r, u, k + 1)
  <2>1. gmult(r, h[k]) \in Byte /\ h[k] \in Byte
    <3>1. k \in 0 .. k
        BY <1>1
    <3>2. h[k] \in Byte
        BY <1>4, <3>1
    <3> QED
        BY <1>2, <3>2, MultFacts
  <2>2. g \in [0 .. k + 1 -> Byte]
      BY <1>1, <1>4, <2>1
  <2>3. ASSUME NEW i \in 1 .. k + 1 PROVE g[i] = Xor(u[i], gmult(r, g[i - 1]))
    <3>1. CASE i <= k
      <4>1. i \in 1 .. k /\ i - 1 \in 0 .. k + 1 /\ i - 1 <= k /\ i \in 0 .. k + 1
          BY <1>1, <3>1
      <4>2. g[i] = h[i] /\ u[i] = p[k - i] /\ g[i - 1] = h[i - 1]
          BY <3>1, <4>1
      <4> QED
          BY <1>4, <4>1, <4>2
    <3>2. CASE ~ (i <= k)
      <4>1. i = k + 1 /\ i - 1 = k /\ k \in 0 .. k + 1 /\ k + 1 \in 0 .. k + 1 /\ k <= k
            /\ ~ (k + 1 <= k) /\ k + 1 \in 1 .. k + 1
          BY <1>1, <3>2
      <4>2. g[i] = gmult(r, h[k]) /\ u[i] = 0 /\ g[i - 1] = h[k]
          BY <4>1
      <4> QED
          BY <2>1, <4>2, XorFacts
    <3> QED
        BY <3>1, <3>2
  <2> HIDE DEF g, u
  <2> QED
      BY <2>2, <2>3 DEF IsHorner
<1>7. \A i \in 1 .. k + 1 : k + 1 - i \in Degrees
    BY <1>1
<1>8. \A i \in 1 .. k + 1 : v[i] \in Byte
    BY <1>2, <1>4, <1>7, MultFacts
<1>9. IsHorner(f, r, v, k + 1)
  <2>1. \A i \in 1 .. k + 1 : i - 1 \in 0 .. k
      BY <1>1
  <2>2. \A i \in 1 .. k + 1 : gmult(a, h[i - 1]) \in Byte
      BY <1>2, <1>4, <2>1, MultFacts
  <2>3. f \in [0 .. k + 1 -> Byte]
      BY <1>1, <2>2, SmallBytes
  <2>4. ASSUME NEW i \in 1 .. k + 1 PROVE f[i] = Xor(v[i], gmult(r, f[i - 1]))
    <3>1. CASE i = 1
      <4>1. 1 \in 1 .. k + 1 /\ 0 \in 0 .. k + 1 /\ 1 \in 0 .. k + 1 /\ k + 1 - 1 = k
            /\ 1 - 1 = 0
          BY <1>1
      <4>2. f[1] = gmult(a, h[0]) /\ v[1] = gmult(a, p[k]) /\ f[0] = 0
          BY <4>1
      <4>3. gmult(a, 1) = a /\ gmult(r, 0) = 0 /\ Xor(a, 0) = a
          BY <1>2, MultFacts, XorFacts
      <4> QED
          BY <1>3, <1>4, <3>1, <4>1, <4>2, <4>3
    <3>2. CASE i # 1
      <4>1. i - 1 \in 1 .. k /\ i - 1 \in 0 .. k + 1 /\ i - 1 # 0 /\ (i - 1) - 1 = i - 2
            /\ i \in 0 .. k + 1 /\ i # 0 /\ k + 1 - i = k - (i - 1) /\ i - 2 \in 0 .. k
          BY <1>1, <3>2
      <4>2. f[i] = gmult(a, h[i - 1]) /\ v[i] = gmult(a, p[k + 1 - i])
            /\ f[i - 1] = gmult(a, h[(i - 1) - 1])
          BY <4>1
      <4>3. h[i - 1] = Xor(p[k - (i - 1)], gmult(r, h[(i - 1) - 1]))
          BY <1>4, <4>1
      <4>4. /\ p[k + 1 - i] \in Byte /\ h[i - 2] \in Byte /\ gmult(r, h[i - 2]) \in Byte
          BY <1>2, <1>4, <1>7, <4>1, MultFacts
      <4>5. gmult(a, Xor(p[k + 1 - i], gmult(r, h[i - 2])))
              = Xor(gmult(a, p[k + 1 - i]), gmult(a, gmult(r, h[i - 2])))
          BY <1>2, <4>4, MultDistributes
      <4>6. gmult(a, gmult(r, h[i - 2])) = gmult(r, gmult(a, h[i - 2]))
        <5>1. gmult(a, gmult(r, h[i - 2])) = gmult(gmult(a, r), h[i - 2])
              /\ gmult(r, gmult(a, h[i - 2])) = gmult(gmult(r, a), h[i - 2])
            BY <1>2, <4>4, MultAssociative
        <5>2. gmult(a, r) = gmult(r, a)
            BY <1>2, MultFacts
        <5> QED
            BY <5>1, <5>2
      <4> HIDE DEF f, v
      <4> QED
          BY <4>1, <4>2, <4>3, <4>5, <4>6
    <3> QED
        BY <3>1, <3>2
  <2> HIDE DEF f, v
  <2> QED
      BY <2>3, <2>4 DEF IsHorner
<1> DEFINE w == [i \in 1 .. k + 1 |-> Xor(u[i], v[i])]
           l == [i \in 0 .. k + 1 |-> Xor(g[i], f[i])]
<1>10. IsHorner(l, r, w, k + 1)
  <2>1. k + 1 \in Nat
      BY <1>1
  <2> HIDE DEF u, v, g, f
  <2> QED
      BY <1>2, <1>5, <1>6, <1>8, <1>9, <2>1, HornerSum
<1>11. w = [i \in 1 .. k + 1 |-> TimesRoot(p, k + 1)[k + 1 - i]]
  <2>1. ASSUME NEW i \in 1 .. k + 1 PROVE w[i] = TimesRoot(p, k + 1)[k + 1 - i]
    <3> DEFINE d == k + 1 - i
    <3>1. d \in Degrees /\ (d = 0 <=> ~ (i <= k)) /\ d - 1 = k - i
        BY <1>1, <1>7
    <3>2. w[i] = Xor(IF i <= k THEN p[k - i] ELSE 0, gmult(a, p[d]))
        OBVIOUS
    <3>3. TimesRoot(p, k + 1)[d] = Xor(gmult(a, p[d]), IF d = 0 THEN 0 ELSE p[d - 1])
      <4>1. k + 1 \in Nat
          BY <1>1
      <4> HIDE DEF d
      <4> QED
          BY <3>1, <4>1, ProductBytes DEF a
    <3>4. u[i] = IF d = 0 THEN 0 ELSE p[d - 1]
        BY <3>1
    <3>5. u[i] \in Byte /\ gmult(a, p[d]) \in Byte
        BY <1>2, <1>4, <1>5, <3>1, MultFacts
    <3>6. w[i] = Xor(u[i], gmult(a, p[d]))
        OBVIOUS
    <3> HIDE DEF d, u, w
    <3>7. Xor(u[i], gmult(a, p[d])) = Xor(gmult(a, p[d]), u[i])
        BY <3>5, XorFacts
    <3>8. TimesRoot(p, k + 1)[d] = Xor(gmult(a, p[d]), u[i])
        BY <3>3, <3>4
    <3> QED
        BY <3>6, <3>7, <3>8 DEF d
  <2>2. w = [i \in 1 .. k + 1 |-> w[i]]
      OBVIOUS
  <2> HIDE DEF w
  <2> QED
      BY <2>1, <2>2
<1>12. l[0] = 1
  <2>1. 0 \in 0 .. k + 1 /\ 0 <= k
      BY <1>1
  <2>2. g[0] = h[0] /\ f[0] = 0 /\ l[0] = Xor(g[0], f[0])
      BY <2>1
  <2> QED
      BY <1>3, <2>2, XorFacts, SmallBytes
<1>13. ASSUME e <= k + 1 PROVE l[k + 1] = 0
  <2>1. k + 1 \in 0 .. k + 1 /\ ~ (k + 1 <= k) /\ k + 1 # 0 /\ (k + 1) - 1 = k
        /\ k \in 0 .. k
      BY <1>1
  <2>2. l[k + 1] = Xor(gmult(r, h[k]), gmult(a, h[k]))
      BY <2>1
  <2>3. CASE e <= k
    <3>1. h[k] = 0
        BY <1>3, <2>3
    <3> QED
        BY <2>2, <3>1, MultFacts, XorFacts, SmallBytes
  <2>4. CASE ~ (e <= k)
    <3>1. e = k + 1
        BY <1>1, <1>13, <2>4
    <3>2. r = a
        BY <3>1 DEF r, a
    <3>3. h[k] \in Byte /\ gmult(a, h[k]) \in Byte
        BY <1>2, <1>4, <2>1, MultFacts
    <3> QED
        BY <2>2, <3>2, <3>3, XorFacts
  <2> QED
      BY <2>3, <2>4
<1> HIDE DEF l, w
<1> QED
    BY <1>10, <1>11, <1>12, <1>13 DEF r

\* genPoly is the product of all factors.
LEMMA GenPolyIsProduct == IsProduct(genPoly, NPAR)
<1> DEFINE V == [Degrees -> Byte]
           step == [k \in 1 .. NPAR |-> [p \in V |-> TimesRoot(p, k)]]
<1>1. NPAR \in Nat \ {0}
    BY ReedSolomonAssumption
<1>2. \A k \in 1 .. NPAR, p \in V : TimesRoot(p, k) \in V
  <2> SUFFICES ASSUME NEW k \in 1 .. NPAR, NEW p \in V PROVE TimesRoot(p, k) \in V
      OBVIOUS
  <2>1. ASSUME NEW d \in Degrees
        PROVE  Xor(gmult(gexp(k), p[d]), mul_z_poly(p)[d]) \in Byte
    <3>1. gexp(k) \in Byte
        BY PowerFacts
    <3>2. gmult(gexp(k), p[d]) \in Byte
        BY <3>1, MultFacts
    <3>3. mul_z_poly(p)[d] = IF d = 0 THEN 0 ELSE p[d - 1]
        BY DEF mul_z_poly
    <3>4. d # 0 => d - 1 \in Degrees
        BY <1>1 DEF Degrees, MAXDEG
    <3>5. mul_z_poly(p)[d] \in Byte
        BY <3>3, <3>4, SmallBytes
    <3> QED
        BY <3>2, <3>5, XorFacts
  <2> QED
      BY <2>1 DEF TimesRoot
<1>3. One \in V
    BY OneIsProduct DEF IsProduct
<1> DEFINE IsTable(f) == f = [i \in 0 .. NPAR |->
                                IF i = 0 THEN One ELSE TimesRoot(f[i - 1], i)]
<1>4. \E f : IsTable(f)
  <2>1. step \in [1 .. NPAR -> [V -> V]]
      BY <1>2
  <2>2. \A k \in 1 .. NPAR : \A p \in V : step[k][p] = TimesRoot(p, k)
      OBVIOUS
  <2> HIDE DEF step, V
  <2>3. PICK f : IsRecursion(f, NPAR, V, One, step)
      BY <1>1, <1>3, <2>1, SegmentRecursion
  <2>4. f \in [0 .. NPAR -> V] /\ f[0] = One /\ \A i \in 1 .. NPAR : f[i] = step[i][f[i - 1]]
      BY <2>3 DEF IsRecursion
  <2>5. ASSUME NEW i \in 1 .. NPAR PROVE f[i] = TimesRoot(f[i - 1], i)
    <3>1. f[i - 1] \in V
        BY <1>1, <2>4
    <3> QED
        BY <2>2, <2>4, <3>1
  <2>6. f = [i \in 0 .. NPAR |-> f[i]]
      BY <2>4
  <2>7. \A i \in 0 .. NPAR : f[i] = IF i = 0 THEN One ELSE TimesRoot(f[i - 1], i)
    <3> SUFFICES ASSUME NEW i \in 0 .. NPAR
                 PROVE  f[i] = IF i = 0 THEN One ELSE TimesRoot(f[i - 1], i)
        OBVIOUS
    <3>1. i = 0 \/ i \in 1 .. NPAR
        BY <1>1
    <3> QED
        BY <2>4, <2>5, <3>1
  <2> QED
      BY <2>6, <2>7
<1> DEFINE product == CHOOSE f : IsTable(f)
<1>5. genPoly = product[NPAR]
    BY DEF genPoly, TimesRoot
<1>6. IsTable(product)
    BY <1>4
<1> HIDE DEF product
<1>7. /\ product[0] = One
      /\ \A i \in 1 .. NPAR : product[i] = TimesRoot(product[i - 1], i)
  <2>1. 0 \in 0 .. NPAR /\ \A i \in 1 .. NPAR : i \in 0 .. NPAR /\ i # 0
      BY <1>1
  <2> QED
      BY <1>6, <2>1
<1> DEFINE S == {k \in 0 .. NPAR : IsProduct(product[k], k)}
<1>8. 0 \in S
    BY <1>1, <1>7, OneIsProduct
<1>9. ASSUME NEW k \in 0 .. NPAR - 1, k \in S PROVE k + 1 \in S
  <2>1. k + 1 \in 1 .. NPAR /\ (k + 1) - 1 = k /\ k + 1 \in 0 .. NPAR /\ k + 1 \in Nat
      BY <1>1
  <2>2. product[k + 1] = TimesRoot(product[k], k + 1) /\ IsProduct(product[k], k)
      BY <1>7, <1>9, <2>1
  <2> DEFINE p == product[k]
  <2> HIDE DEF p
  <2>3. IsProduct(p, k)
      BY <2>2 DEF p
  <2>4. IsProduct(TimesRoot(p, k + 1), k + 1)
    <3> DEFINE q == TimesRoot(p, k + 1)
    <3>1. q \in [Degrees -> Byte] /\ q[k + 1] = 1 /\ \A d \in Degrees : d > k + 1 => q[d] = 0
        BY <2>1, <2>3, ProductBytes
    <3>2. \A e \in 1 .. NPAR :
            \E h : /\ IsHorner(h, gexp(e), [i \in 1 .. k + 1 |-> q[k + 1 - i]], k + 1)
                   /\ h[0] = 1
                   /\ e <= k + 1 => h[k + 1] = 0
        BY <2>3, ProductRoots
    <3> HIDE DEF q
    <3>3. IsProduct(q, k + 1)
        BY <3>1, <3>2 DEF IsProduct
    <3> QED
        BY <3>3 DEF q
  <2> QED
      BY <2>1, <2>2, <2>4 DEF p
<1> HIDE DEF S
<1>10. \A k \in 0 .. NPAR : k \in S
    BY <1>1, <1>8, <1>9, SegmentInduction
<1>11. NPAR \in S
    BY <1>1, <1>10
<1> QED
    BY <1>5, <1>11 DEF S

-----------------------------------------------------------------------------
(* The shift register makes codewords.                                     *)

\* The word p of n bytes, as a polynomial, is 0 at r.
IsZeroAt(r, p, n) == \E h : IsHorner(h, r, p, n) /\ h[0] = 0 /\ h[n] = 0

\* What decode_data finds is the value of the word.
LEMMA SyndromeIs ==
    ASSUME NEW word, Len(word) \in Nat, NEW j \in Degrees, j < NPAR, NEW h,
           IsHorner(h, gexp(j + 1), word, Len(word)), h[0] = 0
    PROVE  Syndrome(word)[j] = h[Len(word)]
<1> DEFINE n == Len(word)
           IsTable(x, f) == f = [i \in 0 .. n |-> IF i = 0 THEN 0 ELSE
                                   Xor(word[i], gmult(gexp(x + 1), f[i - 1]))]
           sum(x) == CHOOSE f : IsTable(x, f)
<1>1. Syndrome(word) = [x \in Degrees |-> IF x < NPAR THEN sum(x)[n] ELSE 0]
    BY DEF Syndrome
<1> HIDE DEF sum
<1>2. n \in Nat /\ IsHorner(h, gexp(j + 1), word, n) /\ h[0] = 0
    OBVIOUS
<1> HIDE DEF n
<1>3. h = [i \in 0 .. n |-> h[i]]
    BY <1>2 DEF IsHorner
<1>4. ASSUME NEW i \in 0 .. n
      PROVE  h[i] = IF i = 0 THEN 0 ELSE Xor(word[i], gmult(gexp(j + 1), h[i - 1]))
  <2>1. i = 0 \/ i \in 1 .. n
      BY <1>2
  <2> QED
      BY <1>2, <2>1 DEF IsHorner
<1>5. IsTable(j, h)
    BY <1>3, <1>4
<1>6. IsTable(j, sum(j))
    BY <1>5 DEF sum
<1> DEFINE T == {i \in 0 .. n : sum(j)[i] = h[i]}
<1>7. 0 \in T
  <2>1. 0 \in 0 .. n
      BY <1>2
  <2>2. sum(j)[0] = 0
      BY <1>6, <2>1
  <2> QED
      BY <1>2, <2>1, <2>2
<1>8. ASSUME NEW i \in 0 .. n - 1, i \in T PROVE i + 1 \in T
  <2>1. i + 1 \in 0 .. n /\ i + 1 # 0 /\ (i + 1) - 1 = i
      BY <1>2
  <2>2. h[i + 1] = Xor(word[i + 1], gmult(gexp(j + 1), h[i]))
      BY <1>4, <2>1
  <2>3. sum(j)[i + 1] = Xor(word[i + 1], gmult(gexp(j + 1), sum(j)[i]))
      BY <1>6, <2>1
  <2>4. sum(j)[i] = h[i]
      BY <1>8
  <2> QED
      BY <2>1, <2>2, <2>3, <2>4
<1> HIDE DEF T
<1>9. \A i \in 0 .. n : i \in T
    BY <1>2, <1>7, <1>8, SegmentInduction
<1>10. n \in T
    BY <1>2, <1>9
<1>11. sum(j)[n] = h[n]
    BY <1>10 DEF T
<1>12. Syndrome(word)[j] = sum(j)[n]
    BY <1>1
<1> QED
    BY <1>11, <1>12 DEF n

\* So what decode_data finds of a codeword is 0.
LEMMA ZeroSyndrome ==
    ASSUME NEW word, Len(word) \in Nat,
           \A e \in 1 .. NPAR : IsZeroAt(gexp(e), word, Len(word))
    PROVE  Syndrome(word) = Zero
<1>1. ASSUME NEW j \in Degrees, j < NPAR PROVE Syndrome(word)[j] = 0
  <2>1. j + 1 \in 1 .. NPAR
      BY <1>1, ReedSolomonAssumption DEF Degrees, MAXDEG
  <2>2. PICK h : IsHorner(h, gexp(j + 1), word, Len(word)) /\ h[0] = 0 /\ h[Len(word)] = 0
      BY <2>1 DEF IsZeroAt
  <2>3. Syndrome(word)[j] = h[Len(word)]
      BY <1>1, <2>2, SyndromeIs
  <2> QED
      BY <2>2, <2>3
<1>2. ASSUME NEW j \in Degrees, ~ (j < NPAR) PROVE Syndrome(word)[j] = 0
    BY <1>2 DEF Syndrome
<1>3. Syndrome(word) = [j \in Degrees |-> Syndrome(word)[j]]
    BY DEF Syndrome
<1> QED
    BY <1>1, <1>2, <1>3 DEF Zero

\* A word, and what the register has of its parity.
WithParity(w, n, reg) ==
    [i \in 1 .. n + NPAR |-> IF i <= n THEN w[i] ELSE reg[NPAR - (i - n)]]

Registers == [0 .. NPAR - 1 -> Byte]

\* The coefficients of the generator that the register works with.
LEMMA GenPolyFacts ==
    /\ NPAR \in Nat \ {0}
    /\ \A j \in 0 .. NPAR - 1 : genPoly[j] \in Byte
    /\ \A e \in 1 .. NPAR :
          \E h : /\ IsHorner(h, gexp(e), [i \in 1 .. NPAR |-> genPoly[NPAR - i]], NPAR)
                 /\ h[0] = 1
                 /\ h[NPAR] = 0
<1>1. NPAR \in Nat \ {0}
    BY ReedSolomonAssumption
<1>2. \A j \in 0 .. NPAR - 1 : j \in Degrees
    BY <1>1 DEF Degrees, MAXDEG
<1>3. \A e \in 1 .. NPAR : e <= NPAR
    BY <1>1
<1> QED
    BY <1>1, <1>2, <1>3, GenPolyIsProduct DEF IsProduct

\* The register after a byte.
LEMMA ShiftFacts ==
    ASSUME NEW reg \in Registers, NEW b \in Byte
    PROVE  /\ Xor(b, reg[NPAR - 1]) \in Byte
           /\ Shift(reg, b) \in Registers
           /\ \A j \in 0 .. NPAR - 1 :
                 Shift(reg, b)[j] = Xor(IF j = 0 THEN 0 ELSE reg[j - 1],
                                        gmult(Xor(b, reg[NPAR - 1]), genPoly[j]))
<1> DEFINE d == Xor(b, reg[NPAR - 1])
<1>1. NPAR \in Nat \ {0}
    BY ReedSolomonAssumption
<1>2. d \in Byte
  <2>1. reg[NPAR - 1] \in Byte
      BY <1>1 DEF Registers
  <2> QED
      BY <2>1, XorFacts
<1>3. Shift(reg, b) = [j \in 0 .. NPAR - 1 |->
                         Xor(IF j = 0 THEN 0 ELSE reg[j - 1], gmult(genPoly[j], d))]
    BY DEF Shift
<1> HIDE DEF d
<1>4. ASSUME NEW j \in 0 .. NPAR - 1
      PROVE  /\ Shift(reg, b)[j] = Xor(IF j = 0 THEN 0 ELSE reg[j - 1], gmult(d, genPoly[j]))
             /\ Shift(reg, b)[j] \in Byte
  <2>1. genPoly[j] \in Byte
      BY GenPolyFacts
  <2>2. gmult(genPoly[j], d) = gmult(d, genPoly[j]) /\ gmult(d, genPoly[j]) \in Byte
      BY <1>2, <2>1, MultFacts
  <2>3. j # 0 => j - 1 \in 0 .. NPAR - 1
      BY <1>1
  <2>4. (IF j = 0 THEN 0 ELSE reg[j - 1]) \in Byte
      BY <2>3, SmallBytes DEF Registers
  <2>5. Shift(reg, b)[j] = Xor(IF j = 0 THEN 0 ELSE reg[j - 1], gmult(d, genPoly[j]))
      BY <1>3, <2>2
  <2>6. Xor(IF j = 0 THEN 0 ELSE reg[j - 1], gmult(d, genPoly[j])) \in Byte
      BY <2>2, <2>4, XorFacts
  <2> QED
      BY <2>5, <2>6
<1>5. Shift(reg, b) \in Registers
    BY <1>3, <1>4 DEF Registers
<1> QED
    BY <1>2, <1>4, <1>5 DEF d

\* After each byte the register makes a codeword of what has passed through it.
LEMMA ShiftKeepsZero ==
    ASSUME NEW e \in 1 .. NPAR, NEW n \in Nat, NEW w, NEW x, NEW b \in Byte,
           NEW reg \in Registers,
           \A i \in 1 .. n : w[i] \in Byte /\ x[i] = w[i],
           x[n + 1] = b,
           IsZeroAt(gexp(e), WithParity(w, n, reg), n + NPAR)
    PROVE  IsZeroAt(gexp(e), WithParity(x, n + 1, Shift(reg, b)), n + 1 + NPAR)
<1> DEFINE r == gexp(e)
           N == n + NPAR
           d == Xor(b, reg[NPAR - 1])
           after == Shift(reg, b)
           word == WithParity(w, n, reg)
           next == WithParity(x, n + 1, after)
           gen == [i \in 1 .. NPAR |-> genPoly[NPAR - i]]
           old == [i \in 1 .. NPAR |-> IF i < NPAR THEN reg[NPAR - i - 1] ELSE 0]
           scaled == [i \in 1 .. NPAR |-> gmult(d, gen[i])]
           sum == [i \in 1 .. NPAR |-> Xor(old[i], scaled[i])]
<1>1. NPAR \in Nat \ {0} /\ N \in Nat /\ e \in Nat
    BY ReedSolomonAssumption
<1>2. r \in Byte
    BY <1>1, PowerFacts
<1>3. /\ d \in Byte
      /\ after \in Registers
      /\ \A j \in 0 .. NPAR - 1 :
            after[j] = Xor(IF j = 0 THEN 0 ELSE reg[j - 1], gmult(d, genPoly[j]))
    BY ShiftFacts
<1>4. \A j \in 0 .. NPAR - 1 : reg[j] \in Byte
    BY DEF Registers
<1> HIDE DEF r, d, after
<1>5. PICK h : IsHorner(h, r, word, N) /\ h[0] = 0 /\ h[N] = 0
    BY DEF IsZeroAt, r
<1>6. PICK k : IsHorner(k, r, gen, NPAR) /\ k[0] = 1 /\ k[NPAR] = 0
    BY GenPolyFacts DEF r
<1>7. /\ \A i \in 0 .. N : h[i] \in Byte
      /\ \A i \in 1 .. N : h[i] = Xor(word[i], gmult(r, h[i - 1]))
    BY <1>5 DEF IsHorner
<1>8. /\ \A i \in 1 .. n : word[i] = w[i]
      /\ \A i \in 1 .. NPAR : word[n + i] = reg[NPAR - i]
  <2>1. \A i \in 1 .. n : i \in 1 .. n + NPAR /\ i <= n
      BY <1>1
  <2>2. \A i \in 1 .. NPAR : n + i \in 1 .. n + NPAR /\ ~ (n + i <= n) /\ (n + i) - n = i
      BY <1>1
  <2> QED
      BY <2>1, <2>2 DEF WithParity
<1>9. /\ \A i \in 1 .. n : next[i] = w[i]
      /\ next[n + 1] = b
      /\ \A i \in 1 .. NPAR : next[n + 1 + i] = after[NPAR - i]
  <2>1. \A i \in 1 .. n : i \in 1 .. n + 1 + NPAR /\ i <= n + 1
      BY <1>1
  <2>2. n + 1 \in 1 .. n + 1 + NPAR /\ n + 1 <= n + 1
      BY <1>1
  <2>3. \A i \in 1 .. NPAR : /\ n + 1 + i \in 1 .. n + 1 + NPAR /\ ~ (n + 1 + i <= n + 1)
                             /\ (n + 1 + i) - (n + 1) = i
      BY <1>1
  <2> QED
      BY <2>1, <2>2, <2>3 DEF WithParity
<1> HIDE DEF word, next
<1>10. /\ \A i \in 1 .. NPAR : gen[i] \in Byte
       /\ \A i \in 1 .. NPAR : scaled[i] \in Byte
       /\ \A i \in 1 .. NPAR : old[i] \in Byte
  <2>1. \A i \in 1 .. NPAR : NPAR - i \in 0 .. NPAR - 1
      BY <1>1
  <2>2. \A i \in 1 .. NPAR : gen[i] \in Byte
      BY <2>1, GenPolyFacts
  <2>3. \A i \in 1 .. NPAR : scaled[i] \in Byte
    <3> SUFFICES ASSUME NEW i \in 1 .. NPAR PROVE scaled[i] \in Byte
        OBVIOUS
    <3>1. scaled[i] = gmult(d, gen[i])
        OBVIOUS
    <3> HIDE DEF scaled, gen
    <3>2. gen[i] \in Byte
        BY <2>2
    <3>3. gmult(d, gen[i]) \in Byte
        BY <1>3, <3>2, MultFacts
    <3> QED
        BY <3>1, <3>3
  <2>4. \A i \in 1 .. NPAR : i < NPAR => NPAR - i - 1 \in 0 .. NPAR - 1
      BY <1>1
  <2>5. \A i \in 1 .. NPAR : old[i] \in Byte
      BY <1>4, <2>4, SmallBytes
  <2> QED
      BY <2>2, <2>3, <2>5
<1> DEFINE g == [i \in 0 .. NPAR |-> IF i < NPAR THEN h[n + 1 + i] ELSE 0]
           f == [i \in 0 .. NPAR |-> gmult(d, k[i])]
           l == [i \in 0 .. NPAR |-> Xor(g[i], f[i])]
<1>11. IsHorner(g, r, old, NPAR)
  <2>1. ASSUME NEW i \in 0 .. NPAR PROVE g[i] \in Byte
    <3>1. i < NPAR => n + 1 + i \in 0 .. N
        BY <1>1
    <3> QED
        BY <1>7, <3>1, SmallBytes
  <2>2. ASSUME NEW i \in 1 .. NPAR PROVE g[i] = Xor(old[i], gmult(r, g[i - 1]))
    <3>1. CASE i < NPAR
      <4>1. /\ i - 1 \in 0 .. NPAR /\ i - 1 < NPAR /\ i \in 0 .. NPAR
            /\ n + 1 + i \in 1 .. N /\ (n + 1 + i) - 1 = n + 1 + (i - 1)
            /\ n + 1 + i = n + (1 + i) /\ 1 + i \in 1 .. NPAR
            /\ NPAR - (1 + i) = NPAR - i - 1
          BY <1>1, <3>1
      <4>2. g[i] = h[n + 1 + i] /\ old[i] = reg[NPAR - i - 1] /\ g[i - 1] = h[n + 1 + (i - 1)]
          BY <3>1, <4>1
      <4>3. h[n + 1 + i] = Xor(word[n + 1 + i], gmult(r, h[(n + 1 + i) - 1]))
          BY <1>7, <4>1
      <4>4. word[n + (1 + i)] = reg[NPAR - (1 + i)]
          BY <1>8, <4>1
      <4> HIDE DEF g, old
      <4> QED
          BY <4>1, <4>2, <4>3, <4>4
    <3>2. CASE ~ (i < NPAR)
      <4>1. /\ i = NPAR /\ i - 1 \in 0 .. NPAR /\ i - 1 < NPAR /\ i \in 0 .. NPAR
            /\ n + 1 + (i - 1) = N
          BY <1>1, <3>2
      <4>2. g[i] = 0 /\ old[i] = 0 /\ g[i - 1] = h[N]
          BY <3>2, <4>1
      <4>3. gmult(r, 0) = 0 /\ Xor(0, 0) = 0
          BY MultFacts, XorFacts, SmallBytes
      <4> HIDE DEF g, old
      <4> QED
          BY <1>5, <4>2, <4>3
    <3> QED
        BY <3>1, <3>2
  <2>3. g \in [0 .. NPAR -> Byte]
      BY <2>1
  <2> HIDE DEF g, old
  <2> QED
      BY <2>2, <2>3 DEF IsHorner
<1>12. IsHorner(f, r, scaled, NPAR)
  <2>1. NPAR \in Nat
      BY <1>1
  <2> HIDE DEF gen
  <2> QED
      BY <1>2, <1>3, <1>6, <1>10, <2>1, HornerScaled
<1>13. IsHorner(l, r, sum, NPAR)
  <2>1. NPAR \in Nat
      BY <1>1
  <2> HIDE DEF g, f, old, scaled
  <2> QED
      BY <1>2, <1>10, <1>11, <1>12, <2>1, HornerSum
<1>14. \A i \in 1 .. NPAR : sum[i] = after[NPAR - i]
  <2> SUFFICES ASSUME NEW i \in 1 .. NPAR PROVE sum[i] = after[NPAR - i]
      OBVIOUS
  <2>1. /\ NPAR - i \in 0 .. NPAR - 1 /\ (NPAR - i = 0 <=> ~ (i < NPAR))
        /\ (NPAR - i) - 1 = NPAR - i - 1
      BY <1>1
  <2>2. after[NPAR - i] = Xor(IF NPAR - i = 0 THEN 0 ELSE reg[(NPAR - i) - 1],
                              gmult(d, genPoly[NPAR - i]))
      BY <1>3, <2>1
  <2>3. sum[i] = Xor(IF i < NPAR THEN reg[NPAR - i - 1] ELSE 0, gmult(d, genPoly[NPAR - i]))
      OBVIOUS
  <2> HIDE DEF sum
  <2> QED
      BY <2>1, <2>2, <2>3
<1>15. l[0] = Xor(b, gmult(r, h[n]))
  <2> DEFINE y == reg[NPAR - 1]
             z == gmult(r, h[n])
  <2>1. /\ 0 \in 0 .. NPAR /\ 0 < NPAR /\ n + 1 + 0 = n + 1 /\ n + 1 \in 1 .. N
        /\ (n + 1) - 1 = n /\ 1 \in 1 .. NPAR /\ n \in 0 .. N /\ NPAR - 1 \in 0 .. NPAR - 1
      BY <1>1
  <2>2. g[0] = h[n + 1] /\ f[0] = gmult(d, k[0]) /\ l[0] = Xor(g[0], f[0])
      BY <2>1
  <2>3. h[n + 1] = Xor(y, z)
    <3>1. h[n + 1] = Xor(word[n + 1], gmult(r, h[(n + 1) - 1]))
        BY <1>7, <2>1
    <3> QED
        BY <1>8, <2>1, <3>1
  <2>4. y \in Byte /\ h[n] \in Byte
      BY <1>4, <1>7, <2>1
  <2>5. z \in Byte
      BY <1>2, <2>4, MultFacts
  <2> HIDE DEF y, z, g, f, l
  <2>6. f[0] = Xor(b, y)
    <3>1. f[0] = d
        BY <1>3, <1>6, <2>2, MultFacts
    <3> QED
        BY <3>1 DEF d, y
  <2>7. Xor(b, y) = Xor(y, b) /\ Xor(z, b) = Xor(b, z) /\ Xor(y, y) = 0
      BY <2>4, <2>5, XorFacts
  <2>8. Xor(Xor(y, z), Xor(y, b)) = Xor(Xor(y, y), Xor(z, b))
      BY <2>4, <2>5, XorSwap
  <2>9. Xor(b, z) \in Byte
      BY <2>5, XorFacts
  <2>10. Xor(0, Xor(b, z)) = Xor(b, z)
      BY <2>9, XorFacts
  <2> QED
      BY <2>2, <2>3, <2>6, <2>7, <2>8, <2>10 DEF z
<1>16. l[NPAR] = 0
  <2>1. NPAR \in 0 .. NPAR /\ ~ (NPAR < NPAR)
      BY <1>1
  <2>2. l[NPAR] = Xor(0, gmult(d, k[NPAR]))
      BY <2>1
  <2>3. gmult(d, 0) = 0
      BY MultFacts
  <2>4. Xor(0, 0) = 0
      BY XorFacts, SmallBytes
  <2> QED
      BY <1>6, <2>2, <2>3, <2>4
<1>17. /\ \A i \in 0 .. NPAR : l[i] \in Byte
       /\ \A i \in 1 .. NPAR : l[i] = Xor(after[NPAR - i], gmult(r, l[i - 1]))
    BY <1>13, <1>14 DEF IsHorner
<1> HIDE DEF l
<1> DEFINE m == [i \in 0 .. n + 1 + NPAR |-> IF i <= n THEN h[i] ELSE l[i - (n + 1)]]
<1>18. \A i \in 0 .. n + 1 + NPAR : m[i] \in Byte
  <2> SUFFICES ASSUME NEW i \in 0 .. n + 1 + NPAR PROVE m[i] \in Byte
      OBVIOUS
  <2>1. (i <= n => i \in 0 .. N) /\ (~ (i <= n) => i - (n + 1) \in 0 .. NPAR)
      BY <1>1
  <2> QED
      BY <1>7, <1>17, <2>1
<1>19. ASSUME NEW i \in 1 .. n + 1 + NPAR PROVE m[i] = Xor(next[i], gmult(r, m[i - 1]))
  <2>1. i \in 0 .. n + 1 + NPAR /\ i - 1 \in 0 .. n + 1 + NPAR
      BY <1>1
  <2>2. CASE i <= n
    <3>1. i \in 1 .. n /\ i - 1 <= n /\ i \in 1 .. N
        BY <1>1, <2>2
    <3>2. m[i] = h[i] /\ m[i - 1] = h[i - 1]
        BY <2>1, <2>2, <3>1
    <3> HIDE DEF m
    <3> QED
        BY <1>7, <1>8, <1>9, <3>1, <3>2
  <2>3. CASE i = n + 1
    <3>1. ~ (i <= n) /\ i - (n + 1) = 0 /\ i - 1 = n /\ i - 1 <= n
        BY <1>1, <2>3
    <3>2. m[i] = l[0] /\ m[i - 1] = h[n]
        BY <2>1, <3>1
    <3> HIDE DEF m
    <3> QED
        BY <1>9, <1>15, <2>3, <3>2
  <2>4. CASE i > n + 1
    <3> DEFINE j == i - (n + 1)
    <3>1. ~ (i <= n) /\ ~ (i - 1 <= n) /\ j \in 1 .. NPAR /\ (i - 1) - (n + 1) = j - 1
          /\ i = n + 1 + j
        BY <1>1, <2>4
    <3>2. m[i] = l[j] /\ m[i - 1] = l[j - 1]
        BY <2>1, <3>1
    <3> HIDE DEF m, j
    <3>3. next[i] = after[NPAR - j]
        BY <1>9, <3>1
    <3> QED
        BY <1>17, <3>1, <3>2, <3>3
  <2> QED
      BY <1>1, <2>2, <2>3, <2>4
<1>20. m[0] = 0 /\ m[n + 1 + NPAR] = 0
  <2>1. /\ 0 \in 0 .. n + 1 + NPAR /\ 0 <= n /\ n + 1 + NPAR \in 0 .. n + 1 + NPAR
        /\ ~ (n + 1 + NPAR <= n) /\ (n + 1 + NPAR) - (n + 1) = NPAR
      BY <1>1
  <2> QED
      BY <1>5, <1>16, <2>1
<1>21. m \in [0 .. n + 1 + NPAR -> Byte]
    BY <1>18
<1> HIDE DEF m
<1>22. IsHorner(m, r, next, n + 1 + NPAR)
    BY <1>19, <1>21 DEF IsHorner
<1> QED
    BY <1>20, <1>22 DEF IsZeroAt, next, after, r

-----------------------------------------------------------------------------
(* Sums.                                                                   *)

\* The sums of the beginnings of f.
IsSums(s, f, n) ==
    /\ s \in [0 .. n -> Byte]
    /\ s[0] = f[0]
    /\ \A i \in 1 .. n : s[i] = Xor(s[i - 1], f[i])

\* XorSum finds them.
LEMMA SumIs ==
    ASSUME NEW n \in Nat, NEW f, NEW s, IsSums(s, f, n), NEW k \in 0 .. n
    PROVE  XorSum(f, k) = s[k]
<1> DEFINE IsTable(t) == t = [i \in 0 .. k |-> IF i = 0 THEN f[0] ELSE Xor(t[i - 1], f[i])]
           sum == CHOOSE t : IsTable(t)
           w == [i \in 0 .. k |-> s[i]]
<1>1. XorSum(f, k) = sum[k]
    BY DEF XorSum
<1>2. IsTable(w)
  <2>1. ASSUME NEW i \in 0 .. k PROVE w[i] = IF i = 0 THEN f[0] ELSE Xor(w[i - 1], f[i])
    <3>1. CASE i = 0
        BY <3>1 DEF IsSums
    <3>2. CASE i # 0
      <4>1. i \in 1 .. n /\ i - 1 \in 0 .. k
          BY <3>2
      <4> QED
          BY <3>2, <4>1 DEF IsSums
    <3> QED
        BY <3>1, <3>2
  <2>2. w = [i \in 0 .. k |-> w[i]]
      OBVIOUS
  <2> HIDE DEF w
  <2> QED
      BY <2>1, <2>2
<1>3. IsTable(sum)
    BY <1>2
<1> HIDE DEF sum, w
<1>4. \A i \in 0 .. k : sum[i] = IF i = 0 THEN f[0] ELSE Xor(sum[i - 1], f[i])
    BY <1>3
<1> DEFINE T == {i \in 0 .. k : sum[i] = s[i]}
<1>5. 0 \in T
    BY <1>4 DEF IsSums
<1>6. ASSUME NEW i \in 0 .. k - 1, i \in T PROVE i + 1 \in T
  <2>1. i + 1 \in 0 .. k /\ i + 1 # 0 /\ (i + 1) - 1 = i /\ i + 1 \in 1 .. n
      OBVIOUS
  <2>2. sum[i + 1] = Xor(sum[i], f[i + 1])
      BY <1>4, <2>1
  <2>3. s[i + 1] = Xor(s[i], f[i + 1])
      BY <2>1 DEF IsSums
  <2>4. sum[i] = s[i]
      BY <1>6
  <2> QED
      BY <2>1, <2>2, <2>3, <2>4
<1>7. k \in Nat
    OBVIOUS
<1> HIDE DEF T
<1>8. \A i \in 0 .. k : i \in T
    BY <1>5, <1>6, <1>7, SegmentInduction
<1>9. k \in T
    BY <1>7, <1>8
<1> QED
    BY <1>1, <1>9 DEF T

\* A sum is a byte, and goes on term by term.
LEMMA SumFacts ==
    ASSUME NEW n \in Nat, NEW f, \A i \in 0 .. n : f[i] \in Byte
    PROVE  /\ \A k \in 0 .. n : XorSum(f, k) \in Byte
           /\ XorSum(f, 0) = f[0]
           /\ \A k \in 0 .. n - 1 : XorSum(f, k + 1) = Xor(XorSum(f, k), f[k + 1])
<1> DEFINE step == [i \in 1 .. n |-> [v \in Byte |-> Xor(v, f[i])]]
<1>1. \A i \in 1 .. n : \A v \in Byte : Xor(v, f[i]) \in Byte
  <2>1. \A i \in 1 .. n : f[i] \in Byte
      OBVIOUS
  <2> QED
      BY <2>1, XorFacts
<1>2. step \in [1 .. n -> [Byte -> Byte]]
    BY <1>1
<1>3. \A i \in 1 .. n : \A v \in Byte : step[i][v] = Xor(v, f[i])
    OBVIOUS
<1> HIDE DEF step
<1>4. f[0] \in Byte
    OBVIOUS
<1>5. PICK s : IsRecursion(s, n, Byte, f[0], step)
    BY <1>2, <1>4, SegmentRecursion
<1>6. s \in [0 .. n -> Byte] /\ s[0] = f[0] /\ \A i \in 1 .. n : s[i] = step[i][s[i - 1]]
    BY <1>5 DEF IsRecursion
<1>7. \A i \in 1 .. n : s[i] = Xor(s[i - 1], f[i])
  <2> SUFFICES ASSUME NEW i \in 1 .. n PROVE s[i] = Xor(s[i - 1], f[i])
      OBVIOUS
  <2>1. s[i - 1] \in Byte
      BY <1>6
  <2> QED
      BY <1>3, <1>6, <2>1
<1>8. IsSums(s, f, n)
    BY <1>6, <1>7 DEF IsSums
<1>9. \A k \in 0 .. n : XorSum(f, k) = s[k]
    BY <1>8, SumIs
<1>10. ASSUME NEW k \in 0 .. n - 1 PROVE XorSum(f, k + 1) = Xor(XorSum(f, k), f[k + 1])
  <2>1. k + 1 \in 1 .. n /\ k \in 0 .. n /\ k + 1 \in 0 .. n /\ (k + 1) - 1 = k
      OBVIOUS
  <2>2. s[k + 1] = Xor(s[k], f[k + 1])
      BY <1>7, <2>1
  <2> QED
      BY <1>9, <2>1, <2>2
<1>11. 0 \in 0 .. n
    OBVIOUS
<1> QED
    BY <1>6, <1>9, <1>10, <1>11

\* What is true of the terms, step by step, is true of the sum.
LEMMA SumInduction ==
    ASSUME NEW n \in Nat, NEW f, \A i \in 0 .. n : f[i] \in Byte, NEW s,
           s[0] = f[0], \A k \in 0 .. n - 1 : s[k + 1] = Xor(s[k], f[k + 1])
    PROVE  \A k \in 0 .. n : XorSum(f, k) = s[k]
<1> DEFINE T == {k \in 0 .. n : XorSum(f, k) = s[k]}
<1>1. 0 \in T
    BY SumFacts
<1>2. ASSUME NEW k \in 0 .. n - 1, k \in T PROVE k + 1 \in T
  <2>1. XorSum(f, k + 1) = Xor(XorSum(f, k), f[k + 1])
      BY SumFacts
  <2>2. k + 1 \in 0 .. n
      OBVIOUS
  <2> QED
      BY <1>2, <2>1, <2>2
<1> HIDE DEF T
<1>3. \A k \in 0 .. n : k \in T
    BY <1>1, <1>2, SegmentInduction
<1> QED
    BY <1>3 DEF T

\* The sum depends on the terms only.
LEMMA SumSame ==
    ASSUME NEW n \in Nat, NEW f, NEW g, \A i \in 0 .. n : f[i] \in Byte /\ g[i] = f[i]
    PROVE  XorSum(g, n) = XorSum(f, n)
<1> DEFINE s == [k \in 0 .. n |-> XorSum(g, k)]
<1>1. \A i \in 0 .. n : f[i] \in Byte
    OBVIOUS
<1>2. \A i \in 0 .. n : g[i] \in Byte
    OBVIOUS
<1>3. s[0] = f[0] /\ \A k \in 0 .. n - 1 : s[k + 1] = Xor(s[k], f[k + 1])
  <2>1. 0 \in 0 .. n /\ \A k \in 0 .. n - 1 : k \in 0 .. n /\ k + 1 \in 0 .. n
      OBVIOUS
  <2>2. XorSum(g, 0) = g[0] /\ \A k \in 0 .. n - 1 : XorSum(g, k + 1) = Xor(XorSum(g, k), g[k + 1])
      BY <1>2, SumFacts
  <2> QED
      BY <2>1, <2>2
<1>4. \A k \in 0 .. n : s[k] = XorSum(g, k)
    OBVIOUS
<1> HIDE DEF s
<1>5. \A k \in 0 .. n : XorSum(f, k) = s[k]
    BY <1>1, <1>3, SumInduction
<1>6. n \in 0 .. n
    OBVIOUS
<1> QED
    BY <1>4, <1>5, <1>6

\* The sum of sums.
LEMMA SumOfTwo ==
    ASSUME NEW n \in Nat, NEW f, NEW g, NEW h,
           \A i \in 0 .. n : f[i] \in Byte, \A i \in 0 .. n : g[i] \in Byte,
           \A i \in 0 .. n : h[i] = Xor(f[i], g[i])
    PROVE  XorSum(h, n) = Xor(XorSum(f, n), XorSum(g, n))
<1> DEFINE s == [k \in 0 .. n |-> Xor(XorSum(f, k), XorSum(g, k))]
<1>1. \A i \in 0 .. n : h[i] \in Byte
    BY XorFacts
<1>2. /\ \A k \in 0 .. n : XorSum(f, k) \in Byte
      /\ XorSum(f, 0) = f[0]
      /\ \A k \in 0 .. n - 1 : XorSum(f, k + 1) = Xor(XorSum(f, k), f[k + 1])
    BY SumFacts
<1>3. /\ \A k \in 0 .. n : XorSum(g, k) \in Byte
      /\ XorSum(g, 0) = g[0]
      /\ \A k \in 0 .. n - 1 : XorSum(g, k + 1) = Xor(XorSum(g, k), g[k + 1])
    BY SumFacts
<1>4. \A k \in 0 .. n : s[k] = Xor(XorSum(f, k), XorSum(g, k))
    OBVIOUS
<1> HIDE DEF s
<1>5. 0 \in 0 .. n /\ n \in 0 .. n
    OBVIOUS
<1>6. s[0] = h[0]
    BY <1>2, <1>3, <1>4, <1>5
<1>7. ASSUME NEW k \in 0 .. n - 1 PROVE s[k + 1] = Xor(s[k], h[k + 1])
  <2> DEFINE a == XorSum(f, k)
             b == XorSum(g, k)
  <2>1. k \in 0 .. n /\ k + 1 \in 0 .. n
      OBVIOUS
  <2>2. s[k + 1] = Xor(XorSum(f, k + 1), XorSum(g, k + 1)) /\ s[k] = Xor(a, b)
      BY <1>4, <2>1
  <2>3. XorSum(f, k + 1) = Xor(a, f[k + 1]) /\ XorSum(g, k + 1) = Xor(b, g[k + 1])
      BY <1>2, <1>3
  <2>4. a \in Byte /\ b \in Byte /\ f[k + 1] \in Byte /\ g[k + 1] \in Byte
      BY <1>2, <1>3, <2>1
  <2> HIDE DEF a, b
  <2>5. Xor(Xor(a, f[k + 1]), Xor(b, g[k + 1])) = Xor(Xor(a, b), Xor(f[k + 1], g[k + 1]))
      BY <2>4, XorSwap
  <2>6. h[k + 1] = Xor(f[k + 1], g[k + 1])
      BY <2>1
  <2> QED
      BY <2>2, <2>3, <2>5, <2>6
<1>8. \A k \in 0 .. n : XorSum(h, k) = s[k]
    BY <1>1, <1>6, <1>7, SumInduction
<1> QED
    BY <1>4, <1>5, <1>8

\* A factor of all terms.
LEMMA SumScaled ==
    ASSUME NEW n \in Nat, NEW f, NEW h, NEW c \in Byte,
           \A i \in 0 .. n : f[i] \in Byte, \A i \in 0 .. n : h[i] = gmult(c, f[i])
    PROVE  XorSum(h, n) = gmult(c, XorSum(f, n))
<1> DEFINE s == [k \in 0 .. n |-> gmult(c, XorSum(f, k))]
<1>1. \A i \in 0 .. n : h[i] \in Byte
    BY MultFacts, ZenonT(40)
<1>2. /\ \A k \in 0 .. n : XorSum(f, k) \in Byte
      /\ XorSum(f, 0) = f[0]
      /\ \A k \in 0 .. n - 1 : XorSum(f, k + 1) = Xor(XorSum(f, k), f[k + 1])
    BY SumFacts
<1>3. \A k \in 0 .. n : s[k] = gmult(c, XorSum(f, k))
    OBVIOUS
<1> HIDE DEF s
<1>4. 0 \in 0 .. n /\ n \in 0 .. n
    OBVIOUS
<1>5. s[0] = h[0]
    BY <1>2, <1>3, <1>4
<1>6. ASSUME NEW k \in 0 .. n - 1 PROVE s[k + 1] = Xor(s[k], h[k + 1])
  <2> DEFINE a == XorSum(f, k)
  <2>1. k \in 0 .. n /\ k + 1 \in 0 .. n
      OBVIOUS
  <2>2. s[k + 1] = gmult(c, XorSum(f, k + 1)) /\ s[k] = gmult(c, a)
      BY <1>3, <2>1
  <2>3. XorSum(f, k + 1) = Xor(a, f[k + 1])
      BY <1>2
  <2>4. a \in Byte /\ f[k + 1] \in Byte
      BY <1>2, <2>1
  <2> HIDE DEF a
  <2>5. gmult(c, Xor(a, f[k + 1])) = Xor(gmult(c, a), gmult(c, f[k + 1]))
      BY <2>4, MultDistributes
  <2> QED
      BY <2>1, <2>2, <2>3, <2>5
<1>7. \A k \in 0 .. n : XorSum(h, k) = s[k]
    BY <1>1, <1>5, <1>6, SumInduction
<1> QED
    BY <1>3, <1>4, <1>7

\* Terms that are 0 add nothing.
LEMMA SumExtended ==
    ASSUME NEW n \in Nat, NEW k \in 0 .. n, NEW f, \A i \in 0 .. n : f[i] \in Byte,
           \A i \in k + 1 .. n : f[i] = 0
    PROVE  XorSum(f, n) = XorSum(f, k)
<1> DEFINE T == {j \in 0 .. n - k : XorSum(f, k + j) = XorSum(f, k)}
<1>1. 0 \in T
    OBVIOUS
<1>2. ASSUME NEW j \in 0 .. n - k - 1, j \in T PROVE j + 1 \in T
  <2>1. k + j \in 0 .. n - 1 /\ k + j \in 0 .. n /\ k + (j + 1) = (k + j) + 1
        /\ (k + j) + 1 \in k + 1 .. n /\ j + 1 \in 0 .. n - k
      OBVIOUS
  <2>2. XorSum(f, (k + j) + 1) = Xor(XorSum(f, k + j), f[(k + j) + 1])
      BY <2>1, SumFacts
  <2>3. XorSum(f, k + j) \in Byte
      BY <2>1, SumFacts
  <2>4. f[(k + j) + 1] = 0
      BY <2>1
  <2>5. XorSum(f, k + (j + 1)) = XorSum(f, k + j)
      BY <2>1, <2>2, <2>3, <2>4, XorFacts
  <2>6. XorSum(f, k + j) = XorSum(f, k)
      BY <1>2
  <2> QED
      BY <2>1, <2>5, <2>6
<1>3. n - k \in Nat
    OBVIOUS
<1> HIDE DEF T
<1>4. \A j \in 0 .. n - k : j \in T
    BY <1>1, <1>2, <1>3, SegmentInduction
<1>5. n - k \in 0 .. n - k
    BY <1>3
<1>6. n - k \in T
    BY <1>4, <1>5
<1>7. k + (n - k) = n
    OBVIOUS
<1> QED
    BY <1>6, <1>7 DEF T

\* A sum of zeros.
LEMMA SumZero ==
    ASSUME NEW n \in Nat, NEW f, \A i \in 0 .. n : f[i] = 0
    PROVE  XorSum(f, n) = 0
<1>1. \A i \in 0 .. n : f[i] \in Byte
    BY SmallBytes
<1>2. 0 \in 0 .. n /\ \A i \in 0 + 1 .. n : f[i] = 0
    OBVIOUS
<1>3. XorSum(f, n) = XorSum(f, 0)
    BY <1>1, <1>2, SumExtended
<1>4. XorSum(f, 0) = f[0]
    BY <1>1, SumFacts
<1> QED
    BY <1>2, <1>3, <1>4

\* A sum with one term that is not 0.
LEMMA SumSingle ==
    ASSUME NEW n \in Nat, NEW k \in 0 .. n, NEW f, f[k] \in Byte,
           \A i \in 0 .. n : i # k => f[i] = 0
    PROVE  XorSum(f, n) = f[k]
<1>1. \A i \in 0 .. n : f[i] \in Byte
    BY SmallBytes
<1>2. XorSum(f, n) = XorSum(f, k)
    BY <1>1, SumExtended
<1>3. CASE k = 0
  <2>1. XorSum(f, 0) = f[0]
      BY <1>1, SumFacts
  <2> QED
      BY <1>2, <1>3, <2>1
<1>4. CASE k # 0
  <2>1. k - 1 \in Nat /\ k - 1 \in 0 .. n - 1 /\ (k - 1) + 1 = k /\ k \in 0 .. n
      BY <1>4
  <2>2. \A i \in 0 .. k - 1 : f[i] = 0
      BY <1>4
  <2>3. XorSum(f, k - 1) = 0
      BY <2>1, <2>2, SumZero
  <2>4. XorSum(f, (k - 1) + 1) = Xor(XorSum(f, k - 1), f[(k - 1) + 1])
      BY <1>1, <2>1, SumFacts
  <2>5. XorSum(f, k) = Xor(0, f[k])
      BY <2>1, <2>3, <2>4
  <2> QED
      BY <1>2, <2>5, XorFacts
<1> QED
    BY <1>3, <1>4

\* A table of bytes, its columns, and the sums of its rows and of its columns.
IsGrid(F, C, rows, cols, m, n) ==
    /\ \A i \in 0 .. m : \A j \in 0 .. n : F[i][j] \in Byte
    /\ \A i \in 0 .. m : rows[i] = XorSum(F[i], n)
    /\ \A j \in 0 .. n : \A i \in 0 .. m : C[j][i] = F[i][j]
    /\ \A j \in 0 .. n : cols[j] = XorSum(C[j], m)

\* The sums of both are the same.
LEMMA SumSwap ==
    ASSUME NEW m \in Nat, NEW n \in Nat, NEW F, NEW C, NEW rows, NEW cols,
           IsGrid(F, C, rows, cols, m, n)
    PROVE  XorSum(rows, m) = XorSum(cols, n)
<1>1. /\ \A i \in 0 .. m : \A j \in 0 .. n : F[i][j] \in Byte
      /\ \A i \in 0 .. m : rows[i] = XorSum(F[i], n)
      /\ \A j \in 0 .. n : \A i \in 0 .. m : C[j][i] = F[i][j]
      /\ \A j \in 0 .. n : cols[j] = XorSum(C[j], m)
    BY DEF IsGrid
<1>2. ASSUME NEW r, NEW t, \A i \in 0 .. m : r[i] \in Byte, t[0] = r[0],
              \A k \in 0 .. m - 1 : t[k + 1] = Xor(t[k], r[k + 1])
       PROVE  \A k \in 0 .. m : XorSum(r, k) = t[k]
    BY <1>2, SumInduction
<1> USE <1>1
<1> DEFINE part(k) == [j \in 0 .. n |-> XorSum(C[j], k)]
           s == [k \in 0 .. m |-> XorSum(part(k), n)]
<1>3. ASSUME NEW j \in 0 .. n
      PROVE  /\ \A i \in 0 .. m : C[j][i] = F[i][j]
             /\ \A k \in 0 .. m : XorSum(C[j], k) \in Byte
             /\ XorSum(C[j], 0) = F[0][j]
             /\ \A k \in 0 .. m - 1 : XorSum(C[j], k + 1) = Xor(XorSum(C[j], k), F[k + 1][j])
  <2> DEFINE c == C[j]
  <2>1. \A i \in 0 .. m : c[i] = F[i][j]
      OBVIOUS
  <2>2. 0 \in 0 .. m /\ \A k \in 0 .. m - 1 : k + 1 \in 0 .. m
      OBVIOUS
  <2> HIDE DEF c
  <2>3. \A i \in 0 .. m : c[i] \in Byte
      BY <2>1
  <2>4. /\ \A k \in 0 .. m : XorSum(c, k) \in Byte
        /\ XorSum(c, 0) = c[0]
        /\ \A k \in 0 .. m - 1 : XorSum(c, k + 1) = Xor(XorSum(c, k), c[k + 1])
      BY <2>3, SumFacts
  <2>5. /\ XorSum(c, 0) = F[0][j]
        /\ \A k \in 0 .. m - 1 : XorSum(c, k + 1) = Xor(XorSum(c, k), F[k + 1][j])
      BY <2>1, <2>2, <2>4
  <2> QED
      BY <2>1, <2>4, <2>5 DEF c
<1>4. \A k \in 0 .. m : \A j \in 0 .. n : part(k)[j] = XorSum(C[j], k)
    OBVIOUS
<1>5. \A k \in 0 .. m : s[k] = XorSum(part(k), n)
    OBVIOUS
<1> HIDE DEF part, s
<1>6. \A k \in 0 .. m : \A j \in 0 .. n : part(k)[j] \in Byte
    BY <1>3, <1>4
<1>7. \A i \in 0 .. m : rows[i] \in Byte
  <2> SUFFICES ASSUME NEW i \in 0 .. m PROVE rows[i] \in Byte
      OBVIOUS
  <2>1. \A j \in 0 .. n : F[i][j] \in Byte
      OBVIOUS
  <2>2. n \in 0 .. n
      OBVIOUS
  <2>3. XorSum(F[i], n) \in Byte
      BY <2>1, <2>2, SumFacts
  <2> QED
      BY <2>3
<1>8. s[0] = rows[0]
  <2>1. 0 \in 0 .. m
      OBVIOUS
  <2>2. \A j \in 0 .. n : F[0][j] \in Byte /\ part(0)[j] = F[0][j]
      BY <1>3, <1>4, <2>1
  <2>3. XorSum(part(0), n) = XorSum(F[0], n)
      BY <2>2, SumSame
  <2> QED
      BY <1>5, <2>1, <2>3
<1>9. ASSUME NEW k \in 0 .. m - 1 PROVE s[k + 1] = Xor(s[k], rows[k + 1])
  <2>1. k \in 0 .. m /\ k + 1 \in 0 .. m
      OBVIOUS
  <2>2. \A j \in 0 .. n : part(k)[j] \in Byte
      BY <1>6, <2>1
  <2>3. \A j \in 0 .. n : F[k + 1][j] \in Byte
      BY <2>1
  <2>4. \A j \in 0 .. n : part(k + 1)[j] = Xor(part(k)[j], F[k + 1][j])
      BY <1>3, <1>4, <2>1
  <2>5. XorSum(part(k + 1), n) = Xor(XorSum(part(k), n), XorSum(F[k + 1], n))
      BY <2>2, <2>3, <2>4, SumOfTwo
  <2> QED
      BY <1>5, <2>1, <2>5
<1>10. \A k \in 0 .. m : XorSum(rows, k) = s[k]
    BY <1>7, <1>8, <1>9, <1>2
<1>11. m \in 0 .. m
    OBVIOUS
<1>12. XorSum(rows, m) = XorSum(part(m), n)
    BY <1>5, <1>10, <1>11
<1>13. \A j \in 0 .. n : part(m)[j] \in Byte /\ cols[j] = part(m)[j]
    BY <1>4, <1>6, <1>11
<1>14. XorSum(cols, n) = XorSum(part(m), n)
    BY <1>13, SumSame
<1> QED
    BY <1>12, <1>14

-----------------------------------------------------------------------------
(* The field.                                                              *)

\* What is added twice is gone.
LEMMA XorCancel ==
    ASSUME NEW a \in Byte, NEW b \in Byte
    PROVE  Xor(Xor(a, b), b) = a
<1>1. Xor(Xor(a, b), b) = Xor(a, Xor(b, b))
    BY XorFacts
<1>2. Xor(b, b) = 0
    BY XorFacts
<1> QED
    BY <1>1, <1>2, XorFacts

\* Bytes are the same if nothing is left of them.
LEMMA XorEqual ==
    ASSUME NEW a \in Byte, NEW b \in Byte, Xor(a, b) = 0
    PROVE  a = b
<1>1. Xor(Xor(a, b), b) = a
    BY XorCancel
<1>2. Xor(0, b) = b
    BY XorFacts
<1> QED
    BY <1>1, <1>2

\* Products of four.
LEMMA MultSwap ==
    ASSUME NEW a \in Byte, NEW b \in Byte, NEW c \in Byte, NEW d \in Byte
    PROVE  gmult(gmult(a, b), gmult(c, d)) = gmult(gmult(a, c), gmult(b, d))
<1>1. gmult(c, d) \in Byte /\ gmult(b, d) \in Byte /\ gmult(b, c) \in Byte
    BY MultFacts
<1>2. gmult(gmult(a, b), gmult(c, d)) = gmult(a, gmult(b, gmult(c, d)))
    BY <1>1, MultAssociative
<1>3. gmult(gmult(a, c), gmult(b, d)) = gmult(a, gmult(c, gmult(b, d)))
    BY <1>1, MultAssociative
<1>4. gmult(b, gmult(c, d)) = gmult(gmult(b, c), d)
    BY MultAssociative
<1>5. gmult(c, gmult(b, d)) = gmult(gmult(c, b), d)
    BY MultAssociative
<1>6. gmult(b, c) = gmult(c, b)
    BY MultFacts
<1> QED
    BY <1>2, <1>3, <1>4, <1>5, <1>6

\* A product of what is not 0 is not, and can be divided.
LEMMA MultNonzero ==
    ASSUME NEW a \in Byte \ {0}, NEW b \in Byte \ {0}
    PROVE  gmult(a, b) \in Byte \ {0}
<1>1. glog(a) \in Nat /\ glog(b) \in Nat /\ gexp(glog(a)) = a /\ gexp(glog(b)) = b
    BY PowerFacts
<1>2. gmult(a, b) = gexp(glog(a) + glog(b))
    BY <1>1, MultFacts
<1>3. glog(a) + glog(b) \in Nat
    BY <1>1
<1> QED
    BY <1>2, <1>3, PowerFacts

\* The powers begin with 1, and come back to it.
LEMMA PowerFirst == gexp(0) = 1 /\ gexp(255) = 1
<1>1. (0 % 255) + 1 = 1 /\ (255 % 255) + 1 = 1
    OBVIOUS
<1> QED
    BY <1>1, PowersAssumption DEF gexp

\* ginv finds the inverse.
LEMMA InverseFacts ==
    ASSUME NEW a \in Byte \ {0}
    PROVE  ginv(a) \in Byte \ {0} /\ gmult(a, ginv(a)) = 1
<1>1. glog(a) \in 0 .. 254 /\ gexp(glog(a)) = a
    BY TablesAssumption
<1> DEFINE l == glog(a)
<1>2. l \in Nat /\ 255 - l \in Nat /\ l + (255 - l) = 255
    BY <1>1
<1>3. ginv(a) = gexp(255 - l)
    BY DEF ginv
<1>4. gmult(gexp(l), gexp(255 - l)) = gexp(l + (255 - l))
    BY <1>2, MultFacts
<1>5. gexp(l) = a
    BY <1>1
<1> HIDE DEF l
<1> QED
    BY <1>2, <1>3, <1>4, <1>5, PowerFirst, PowerFacts

\* A factor can be divided out.
LEMMA MultCancel ==
    ASSUME NEW a \in Byte, NEW b \in Byte \ {0}
    PROVE  gmult(gmult(a, b), ginv(b)) = a
<1>1. b \in Byte /\ ginv(b) \in Byte /\ gmult(b, ginv(b)) = 1
    BY InverseFacts
<1>2. gmult(gmult(a, b), ginv(b)) = gmult(a, gmult(b, ginv(b)))
    BY <1>1, MultAssociative
<1> QED
    BY <1>1, <1>2, MultFacts

\* Powers of powers.
LEMMA PowerTypes ==
    ASSUME NEW i \in Nat, NEW k \in Nat
    PROVE  i * k \in Nat /\ gexp(i * k) \in Byte \ {0} /\ gexp(i * k) \in Byte
<1>1. i * k \in Nat
    OBVIOUS
<1> QED
    BY <1>1, PowerFacts

\* A product of powers is the power of the sum.
LEMMA PowerSum ==
    ASSUME NEW i \in Nat, NEW j \in Nat, NEW k \in Nat
    PROVE  gexp(i * (j + k)) = gmult(gexp(i * j), gexp(i * k))
<1>1. i * j \in Nat /\ i * k \in Nat /\ i * (j + k) = i * j + i * k
    OBVIOUS
<1> QED
    BY <1>1, MultFacts

\* The first power of a power, and the next one.
LEMMA PowerNext ==
    ASSUME NEW i \in Nat, NEW k \in Nat
    PROVE  /\ gexp(i * 0) = 1
           /\ gexp(i * (k + 1)) = gmult(gexp(i * k), gexp(i))
<1>1. i * 0 = 0 /\ i * 1 = i
    OBVIOUS
<1>2. gexp(i * (k + 1)) = gmult(gexp(i * k), gexp(i * 1))
    BY PowerSum
<1> QED
    BY <1>1, <1>2, PowerFirst

\* The places of a codeword, and the powers that stand for them: no two are the
\* same.
Places == 0 .. 254

\* What is known of the power of a place.
LEMMA PlaceFacts ==
    ASSUME NEW i \in Places
    PROVE  /\ i \in Nat /\ 255 - i \in Nat
           /\ gexp(i) \in Byte \ {0} /\ gexp(255 - i) \in Byte \ {0}
           /\ gmult(gexp(i), gexp(255 - i)) = 1
           /\ \A j \in Places : gexp(i) = gexp(j) => i = j
<1>1. i \in Nat /\ 255 - i \in Nat /\ i + (255 - i) = 255
    BY DEF Places
<1>2. gmult(gexp(i), gexp(255 - i)) = 1
    BY <1>1, MultFacts, PowerFirst
<1>3. ASSUME NEW j \in Places, gexp(i) = gexp(j) PROVE i = j
  <2>1. glog(gexp(i)) = i /\ glog(gexp(j)) = j
      BY TablesAssumption DEF Places
  <2> QED
      BY <1>3, <2>1
<1> QED
    BY <1>1, <1>2, <1>3, PowerFacts

-----------------------------------------------------------------------------
(* Polynomials and their values.                                           *)

\* The polynomials.
Polys == [Degrees -> Byte]

\* The numbers of the degrees.
LEMMA DegreeFacts ==
    /\ NPAR \in Nat \ {0}
    /\ Degrees = 0 .. MAXDEG - 1
    /\ MAXDEG - 1 \in Nat
    /\ MAXDEG = 2 * NPAR
    /\ \A n \in 0 .. NPAR : n \in Degrees
BY ReedSolomonAssumption DEF Degrees, MAXDEG

\* The terms of a value at the power e.
Terms(p, e) == [d \in Degrees |-> gmult(p[d], gexp(e * d))]
Value(p, e) == XorSum(Terms(p, e), MAXDEG - 1)

\* The terms are bytes.
LEMMA TermBytes ==
    ASSUME NEW p \in Polys, NEW e \in Nat, NEW d \in Degrees
    PROVE  Terms(p, e)[d] \in Byte /\ Terms(p, e)[d] = gmult(p[d], gexp(e * d))
<1>1. Terms(p, e)[d] = gmult(p[d], gexp(e * d))
    BY DEF Terms
<1>2. p[d] \in Byte /\ d \in Nat
    BY DEF Polys, Degrees
<1>3. gexp(e * d) \in Byte
    BY <1>2, PowerTypes
<1> QED
    BY <1>1, <1>2, <1>3, MultFacts

\* The sums of the first terms.
LEMMA ValueFacts ==
    ASSUME NEW p \in Polys, NEW e \in Nat
    PROVE  /\ Value(p, e) \in Byte
           /\ \A n \in Degrees : XorSum(Terms(p, e), n) \in Byte
           /\ XorSum(Terms(p, e), 0) = p[0]
           /\ \A n \in 0 .. MAXDEG - 2 : XorSum(Terms(p, e), n + 1)
                                          = Xor(XorSum(Terms(p, e), n), Terms(p, e)[n + 1])
<1> DEFINE t == Terms(p, e)
           M == MAXDEG - 1
<1>1. \A d \in 0 .. M : t[d] \in Byte
    BY TermBytes, DegreeFacts
<1>2. M \in Nat /\ M \in 0 .. M /\ Degrees = 0 .. M /\ 0 .. M - 1 = 0 .. MAXDEG - 2 /\ 0 \in Degrees
    BY DegreeFacts
<1>3. t[0] = p[0]
  <2>1. t[0] = gmult(p[0], gexp(e * 0))
      BY <1>2, TermBytes
  <2>2. gexp(e * 0) = 1
      BY PowerNext, 0 \in Nat
  <2>3. p[0] \in Byte
      BY <1>2 DEF Polys
  <2> QED
      BY <2>1, <2>2, <2>3, MultFacts
<1> HIDE DEF t, M
<1>4. /\ \A k \in 0 .. M : XorSum(t, k) \in Byte
      /\ XorSum(t, 0) = t[0]
      /\ \A k \in 0 .. M - 1 : XorSum(t, k + 1) = Xor(XorSum(t, k), t[k + 1])
    BY <1>1, <1>2, SumFacts
<1>5. Value(p, e) = XorSum(t, M)
    BY DEF Value, t, M
<1> QED
    BY <1>2, <1>3, <1>4, <1>5 DEF t

\* The quotient of p by 1 - x z, as a power series.
IsQuotient(h, p, x) ==
    /\ h \in Polys
    /\ h[0] = p[0]
    /\ \A d \in Degrees : d # 0 => h[d] = Xor(p[d], gmult(x, h[d - 1]))

\* It can be computed, term by term.
LEMMA QuotientExists ==
    ASSUME NEW p \in Polys, NEW x \in Byte
    PROVE  \E h : IsQuotient(h, p, x)
<1> DEFINE M == MAXDEG - 1
           step == [d \in 1 .. M |-> [v \in Byte |-> Xor(p[d], gmult(x, v))]]
<1>1. M \in Nat /\ Degrees = 0 .. M /\ 0 \in Degrees
    BY DegreeFacts
<1> HIDE DEF M
<1>2. ASSUME NEW d \in 1 .. M, NEW v \in Byte PROVE Xor(p[d], gmult(x, v)) \in Byte
  <2>1. p[d] \in Byte
      BY <1>1 DEF Polys
  <2>2. gmult(x, v) \in Byte
      BY MultFacts
  <2> QED
      BY <2>1, <2>2, XorFacts
<1>3. step \in [1 .. M -> [Byte -> Byte]]
    BY <1>2
<1>4. \A d \in 1 .. M : \A v \in Byte : step[d][v] = Xor(p[d], gmult(x, v))
    OBVIOUS
<1> HIDE DEF step
<1>5. p[0] \in Byte
    BY <1>1 DEF Polys
<1>6. PICK h : IsRecursion(h, M, Byte, p[0], step)
    BY <1>1, <1>3, <1>5, SegmentRecursion
<1>7. h \in [0 .. M -> Byte] /\ h[0] = p[0] /\ \A d \in 1 .. M : h[d] = step[d][h[d - 1]]
    BY <1>6 DEF IsRecursion
<1>8. ASSUME NEW d \in Degrees, d # 0 PROVE h[d] = Xor(p[d], gmult(x, h[d - 1]))
  <2>1. d \in 1 .. M /\ d - 1 \in 0 .. M
      BY <1>1, <1>8
  <2>2. h[d - 1] \in Byte
      BY <1>7, <2>1
  <2> QED
      BY <1>4, <1>7, <2>1, <2>2
<1> QED
    BY <1>1, <1>7, <1>8 DEF IsQuotient, Polys

\* The one there is.
Quotient(p, x) == CHOOSE h : IsQuotient(h, p, x)

\* So there is the quotient.
LEMMA QuotientFacts ==
    ASSUME NEW p \in Polys, NEW x \in Byte
    PROVE  IsQuotient(Quotient(p, x), p, x) /\ Quotient(p, x) \in Polys
<1>1. IsQuotient(Quotient(p, x), p, x)
    BY QuotientExists DEF Quotient
<1> QED
    BY <1>1 DEF IsQuotient

-----------------------------------------------------------------------------
(* Values and quotients.                                                   *)

\* A term of p, by the terms of its quotient.
LEMMA QuotientTerm ==
    ASSUME NEW p \in Polys, NEW x \in Byte, NEW e \in Nat, NEW d \in 0 .. MAXDEG - 2
    PROVE  Terms(p, e)[d + 1]
             = Xor(Terms(Quotient(p, x), e)[d + 1],
                   gmult(gmult(x, gexp(e)), Terms(Quotient(p, x), e)[d]))
<1> DEFINE h == Quotient(p, x)
           r == gexp(e)
           s == gexp(e * d)
           u == gexp(e * (d + 1))
<1>1. d \in Degrees /\ d + 1 \in Degrees /\ d \in Nat /\ d + 1 \in Nat /\ d + 1 # 0
      /\ (d + 1) - 1 = d
    BY DegreeFacts
<1>2. h \in Polys /\ h[d + 1] = Xor(p[d + 1], gmult(x, h[d]))
    BY <1>1, QuotientFacts DEF IsQuotient
<1>3. /\ Terms(h, e)[d + 1] = gmult(h[d + 1], u)
      /\ Terms(h, e)[d] = gmult(h[d], s)
      /\ Terms(p, e)[d + 1] = gmult(p[d + 1], u)
    BY <1>1, <1>2, TermBytes
<1>4. u = gmult(s, r)
    BY <1>1, PowerNext
<1>5. r \in Byte /\ s \in Byte /\ u \in Byte
    BY <1>1, PowerFacts, PowerTypes
<1>6. h[d] \in Byte /\ h[d + 1] \in Byte /\ p[d + 1] \in Byte
    BY <1>1, <1>2 DEF Polys
<1> HIDE DEF h, r, s, u
<1>7. gmult(x, h[d]) \in Byte
    BY <1>6, MultFacts
<1>8. p[d + 1] = Xor(h[d + 1], gmult(x, h[d]))
    BY <1>2, <1>6, <1>7, XorCancel
<1>9. gmult(u, p[d + 1]) = Xor(gmult(u, h[d + 1]), gmult(u, gmult(x, h[d])))
    BY <1>5, <1>6, <1>7, <1>8, MultDistributes
<1>10. gmult(u, p[d + 1]) = gmult(p[d + 1], u) /\ gmult(u, h[d + 1]) = gmult(h[d + 1], u)
    BY <1>5, <1>6, MultFacts
<1>11. gmult(u, gmult(x, h[d])) = gmult(gmult(x, r), gmult(h[d], s))
  <2>1. gmult(gmult(x, r), gmult(h[d], s)) = gmult(gmult(x, h[d]), gmult(r, s))
      BY <1>5, <1>6, MultSwap
  <2>2. gmult(r, s) = u
      BY <1>4, <1>5, MultFacts
  <2>3. gmult(gmult(x, h[d]), u) = gmult(u, gmult(x, h[d]))
      BY <1>5, <1>7, MultFacts
  <2> QED
      BY <2>1, <2>2, <2>3
<1> QED
    BY <1>3, <1>9, <1>10, <1>11 DEF h, r

\* The value of p, up to a degree, by the value of its quotient up to there.
LEMMA QuotientValue ==
    ASSUME NEW p \in Polys, NEW x \in Byte, NEW e \in Nat, NEW n \in Degrees
    PROVE  LET y == gmult(x, gexp(e))
               V == XorSum(Terms(Quotient(p, x), e), n)
           IN  XorSum(Terms(p, e), n)
                 = Xor(Xor(V, gmult(y, V)), gmult(y, Terms(Quotient(p, x), e)[n]))
<1> DEFINE h == Quotient(p, x)
           y == gmult(x, gexp(e))
           M == MAXDEG - 1
           t == Terms(p, e)
           u == Terms(h, e)
           T == {k \in 0 .. M : XorSum(t, k) = Xor(Xor(XorSum(u, k), gmult(y, XorSum(u, k))),
                                                   gmult(y, u[k]))}
<1>1. M \in Nat /\ Degrees = 0 .. M /\ 0 \in Degrees /\ MAXDEG - 2 = M - 1
    BY DegreeFacts
<1>2. y \in Byte
  <2>1. gexp(e) \in Byte
      BY PowerFacts
  <2> QED
      BY <2>1, MultFacts
<1>3. h \in Polys /\ h[0] = p[0]
    BY QuotientFacts DEF IsQuotient
<1>4. /\ \A k \in 0 .. M : XorSum(u, k) \in Byte
      /\ XorSum(u, 0) = h[0]
      /\ \A k \in 0 .. M - 1 : XorSum(u, k + 1) = Xor(XorSum(u, k), u[k + 1])
  <2> HIDE DEF h, M
  <2> QED
      BY <1>1, <1>3, ValueFacts
<1>5. /\ \A k \in 0 .. M : XorSum(t, k) \in Byte
      /\ XorSum(t, 0) = p[0]
      /\ \A k \in 0 .. M - 1 : XorSum(t, k + 1) = Xor(XorSum(t, k), t[k + 1])
  <2> HIDE DEF M
  <2> QED
      BY <1>1, ValueFacts
<1>6. \A k \in 0 .. M : u[k] \in Byte
  <2> HIDE DEF h, M
  <2> QED
      BY <1>1, <1>3, TermBytes
<1>7. u[0] = h[0]
  <2>1. gexp(e * 0) = 1
      BY PowerNext, 0 \in Nat
  <2>2. u[0] = gmult(h[0], gexp(e * 0))
      BY <1>1 DEF Terms
  <2>3. h[0] \in Byte
      BY <1>1, <1>3 DEF Polys
  <2> QED
      BY <2>1, <2>2, <2>3, MultFacts
<1>8. \A k \in 0 .. M - 1 : t[k + 1] = Xor(u[k + 1], gmult(y, u[k]))
  <2> HIDE DEF M
  <2> QED
      BY <1>1, QuotientTerm
<1> HIDE DEF h, y, M, t, u
<1>9. 0 \in T
  <2>1. p[0] \in Byte
      BY <1>1 DEF Polys
  <2>2. gmult(y, p[0]) \in Byte
      BY <1>2, <2>1, MultFacts
  <2>3. Xor(Xor(p[0], gmult(y, p[0])), gmult(y, p[0])) = p[0]
      BY <2>1, <2>2, XorCancel
  <2>4. 0 \in 0 .. M
      BY <1>1
  <2> QED
      BY <1>3, <1>4, <1>5, <1>7, <2>3, <2>4
<1>10. ASSUME NEW k \in 0 .. M - 1, k \in T PROVE k + 1 \in T
  <2> DEFINE V == XorSum(u, k)
             W == XorSum(u, k + 1)
             a == gmult(y, u[k])
             b == u[k + 1]
             c == gmult(y, b)
             d == gmult(y, V)
  <2>1. k \in 0 .. M /\ k + 1 \in 0 .. M
      BY <1>1
  <2>2. V \in Byte /\ b \in Byte /\ u[k] \in Byte
      BY <1>4, <1>6, <2>1
  <2>3. a \in Byte
      BY <1>2, <2>2, MultFacts
  <2>4. c \in Byte
      BY <1>2, <2>2, MultFacts
  <2>5. d \in Byte
      BY <1>2, <2>2, MultFacts
  <2>6. XorSum(t, k) = Xor(Xor(V, d), a)
      BY <1>10
  <2>7. XorSum(t, k + 1) = Xor(XorSum(t, k), t[k + 1]) /\ t[k + 1] = Xor(b, a)
      BY <1>5, <1>8
  <2>8. W = Xor(V, b)
      BY <1>4
  <2>9. gmult(y, W) = Xor(d, c)
      BY <1>2, <2>2, <2>8, MultDistributes
  <2>10. Xor(V, d) \in Byte /\ Xor(V, b) \in Byte
      BY <2>2, <2>5, XorFacts
  <2> HIDE DEF V, W, a, b, c, d
  <2>11. Xor(Xor(Xor(V, d), a), Xor(b, a)) = Xor(Xor(V, d), b)
    <3>1. Xor(Xor(Xor(V, d), a), Xor(b, a)) = Xor(Xor(Xor(V, d), b), Xor(a, a))
        BY <2>2, <2>3, <2>10, XorSwap
    <3>2. Xor(a, a) = 0 /\ Xor(Xor(V, d), b) \in Byte
        BY <2>2, <2>3, <2>10, XorFacts
    <3> QED
        BY <3>1, <3>2, XorFacts
  <2>12. Xor(Xor(W, Xor(d, c)), c) = Xor(Xor(V, d), b)
    <3>1. Xor(W, Xor(d, c)) = Xor(Xor(V, d), Xor(b, c))
        BY <2>2, <2>4, <2>5, <2>8, XorSwap
    <3>2. Xor(Xor(V, d), Xor(b, c)) = Xor(Xor(Xor(V, d), b), c)
        BY <2>2, <2>4, <2>10, XorFacts
    <3>3. Xor(Xor(V, d), b) \in Byte
        BY <2>2, <2>10, XorFacts
    <3>4. Xor(Xor(Xor(Xor(V, d), b), c), c) = Xor(Xor(V, d), b)
        BY <2>4, <3>3, XorCancel
    <3> QED
        BY <3>1, <3>2, <3>4
  <2>13. XorSum(t, k + 1) = Xor(Xor(W, gmult(y, W)), c)
      BY <2>6, <2>7, <2>9, <2>11, <2>12
  <2> QED
      BY <2>1, <2>13 DEF W, c, b
<1> HIDE DEF T
<1>11. \A k \in 0 .. M : k \in T
    BY <1>1, <1>9, <1>10, SegmentInduction
<1>12. n \in T
    BY <1>1, <1>11
<1>13. XorSum(t, n) = Xor(Xor(XorSum(u, n), gmult(y, XorSum(u, n))), gmult(y, u[n]))
    BY <1>12 DEF T
<1> QED
    BY <1>13 DEF t, u, y, h

\* Where x z is 1, the value of p is the last term of the quotient.
LEMMA ValueAtPole ==
    ASSUME NEW p \in Polys, NEW x \in Byte, NEW e \in Nat, gmult(x, gexp(e)) = 1
    PROVE  Value(p, e) = gmult(Quotient(p, x)[MAXDEG - 1], gexp(e * (MAXDEG - 1)))
<1> DEFINE h == Quotient(p, x)
           M == MAXDEG - 1
           V == XorSum(Terms(h, e), M)
           t == Terms(h, e)[M]
<1>1. M \in Degrees /\ h \in Polys
    BY DegreeFacts, QuotientFacts
<1>2. V \in Byte /\ t \in Byte /\ t = gmult(h[M], gexp(e * M))
    BY <1>1, ValueFacts, TermBytes
<1>3. Value(p, e) = Xor(Xor(V, gmult(1, V)), gmult(1, t))
    BY <1>1, QuotientValue DEF Value
<1> HIDE DEF h, M, V, t
<1>4. gmult(1, V) = V /\ gmult(1, t) = t
  <2>1. gmult(1, V) = gmult(V, 1) /\ gmult(1, t) = gmult(t, 1)
      BY <1>2, SmallBytes, MultFacts
  <2> QED
      BY <1>2, <2>1, MultFacts
<1>5. Xor(V, V) = 0 /\ Xor(0, t) = t
    BY <1>2, XorFacts
<1> QED
    BY <1>2, <1>3, <1>4, <1>5 DEF h, M

\* If the division leaves nothing, a zero of p is one of the quotient, except where
\* x z is 1.
LEMMA ZeroOfQuotient ==
    ASSUME NEW p \in Polys, NEW x \in Byte, NEW e \in Nat,
           Quotient(p, x)[MAXDEG - 1] = 0, gmult(x, gexp(e)) # 1, Value(p, e) = 0
    PROVE  Value(Quotient(p, x), e) = 0
<1> DEFINE h == Quotient(p, x)
           M == MAXDEG - 1
           V == Value(h, e)
           t == Terms(h, e)[M]
           y == gmult(x, gexp(e))
<1>1. M \in Degrees /\ h \in Polys
    BY DegreeFacts, QuotientFacts
<1>2. y \in Byte
  <2>1. gexp(e) \in Byte
      BY PowerFacts
  <2> QED
      BY <2>1, MultFacts
<1>3. V \in Byte
    BY <1>1, ValueFacts
<1>4. t = 0
  <2>1. t = gmult(h[M], gexp(e * M))
      BY <1>1, TermBytes
  <2> QED
      BY <2>1, MultFacts
<1>5. Value(p, e) = Xor(Xor(V, gmult(y, V)), gmult(y, t))
    BY <1>1, QuotientValue DEF Value
<1>6. y # 1
    OBVIOUS
<1> HIDE DEF h, M, V, t, y
<1>7. gmult(y, V) \in Byte
    BY <1>2, <1>3, MultFacts
<1>8. Xor(V, gmult(y, V)) = 0
  <2>1. gmult(y, t) = 0
      BY <1>4, MultFacts
  <2>2. Xor(V, gmult(y, V)) \in Byte
      BY <1>3, <1>7, XorFacts
  <2> QED
      BY <1>5, <2>1, <2>2, XorFacts
<1>9. V = gmult(y, V)
    BY <1>3, <1>7, <1>8, XorEqual
<1>10. ASSUME V # 0 PROVE FALSE
  <2>1. V \in Byte \ {0}
      BY <1>3, <1>10
  <2>2. gmult(gmult(y, V), ginv(V)) = y /\ gmult(V, ginv(V)) = 1
      BY <1>2, <2>1, MultCancel, InverseFacts
  <2> QED
      BY <1>6, <1>9, <2>2
<1> QED
    BY <1>10 DEF V, h

\* A polynomial with a term of degree 0 has no more zeros than its degree.
HasDegree(p, n) == p \in Polys /\ p[0] # 0 /\ \A d \in Degrees : d > n => p[d] = 0
HasZeros(p, R) == \A i \in R : Value(p, 255 - i) = 0

\* A factor is taken out of it.
LEMMA QuotientDegree ==
    ASSUME NEW n \in Nat, n + 1 \in Degrees, NEW p, HasDegree(p, n + 1), NEW i \in Places,
           Value(p, 255 - i) = 0
    PROVE  HasDegree(Quotient(p, gexp(i)), n) /\ Quotient(p, gexp(i))[MAXDEG - 1] = 0
<1> DEFINE x == gexp(i)
           h == Quotient(p, x)
           M == MAXDEG - 1
           r == gexp((255 - i) * M)
<1>1. p \in Polys /\ p[0] # 0 /\ \A d \in Degrees : d > n + 1 => p[d] = 0
    BY DEF HasDegree
<1>2. M \in Nat /\ Degrees = 0 .. M
    BY DegreeFacts
<1>3. x \in Byte \ {0} /\ 255 - i \in Nat /\ gmult(x, gexp(255 - i)) = 1
    BY PlaceFacts
<1>4. r \in Byte \ {0}
    BY <1>2, <1>3, PowerTypes
<1>5. Value(p, 255 - i) = gmult(h[M], r)
  <2>1. x \in Byte
      BY <1>3
  <2> QED
      BY <1>1, <1>3, <2>1, ValueAtPole
<1>6. h \in Polys /\ h[0] = p[0] /\ \A d \in Degrees : d # 0 => h[d] = Xor(p[d], gmult(x, h[d - 1]))
  <2>1. x \in Byte
      BY <1>3
  <2> QED
      BY <1>1, <2>1, QuotientFacts DEF IsQuotient
<1> HIDE DEF x, h, M, r
<1>7. h[M] = 0
  <2>1. M \in Degrees
      BY <1>2
  <2>2. h[M] \in Byte
      BY <1>6, <2>1 DEF Polys
  <2>3. ASSUME h[M] # 0 PROVE FALSE
    <3>1. h[M] \in Byte \ {0}
        BY <2>2, <2>3
    <3>2. gmult(h[M], r) \in Byte \ {0}
        BY <1>4, <3>1, MultNonzero
    <3> QED
        BY <1>5, <3>2
  <2> QED
      BY <2>3
\* From the last degree down, the quotient is 0 above n.
<1> DEFINE T == {k \in 0 .. M - (n + 1) : h[M - k] = 0}
<1>8. 0 \in T
    BY <1>2, <1>7
<1>9. ASSUME NEW k \in 0 .. M - (n + 1) - 1, k \in T PROVE k + 1 \in T
  <2> DEFINE d == M - k
  <2>1. d \in Degrees /\ d # 0 /\ d > n + 1 /\ d - 1 \in Degrees /\ d - 1 = M - (k + 1)
        /\ k + 1 \in 0 .. M - (n + 1)
      BY <1>2
  <2>2. h[d] = 0
      BY <1>9
  <2> HIDE DEF d
  <2>3. h[d] = Xor(p[d], gmult(x, h[d - 1])) /\ p[d] = 0
      BY <1>1, <1>6, <2>1
  <2>4. h[d - 1] \in Byte
      BY <1>6, <2>1 DEF Polys
  <2>5. gmult(x, h[d - 1]) = 0
    <3>1. gmult(x, h[d - 1]) \in Byte
        BY <1>3, <2>4, MultFacts
    <3> QED
        BY <2>2, <2>3, <3>1, XorFacts
  <2>6. ASSUME h[d - 1] # 0 PROVE FALSE
    <3>1. h[d - 1] \in Byte \ {0}
        BY <2>4, <2>6
    <3> QED
        BY <1>3, <2>5, <3>1, MultNonzero
  <2> QED
      BY <2>1, <2>6
<1>10. M - (n + 1) \in Nat
    BY <1>2
<1> HIDE DEF T
<1>11. \A k \in 0 .. M - (n + 1) : k \in T
    BY <1>8, <1>9, <1>10, SegmentInduction
<1>12. ASSUME NEW d \in Degrees, d > n PROVE h[d] = 0
  <2>1. M - d \in 0 .. M - (n + 1) /\ M - (M - d) = d
      BY <1>2, <1>12
  <2>2. M - d \in T
      BY <1>11, <2>1
  <2> QED
      BY <2>1, <2>2 DEF T
<1> QED
    BY <1>1, <1>6, <1>7, <1>12 DEF HasDegree, h, x, M

\* So, factor by factor, it has no more zeros than its degree.
LEMMA RootCount ==
    ASSUME NEW n \in Degrees, NEW p, HasDegree(p, n),
           NEW R \in SUBSET Places, HasZeros(p, R)
    PROVE  IsFiniteSet(R) /\ Cardinality(R) <= n
<1> DEFINE M == MAXDEG - 1
           T == {k \in 0 .. M : \A q \in Polys : \A Q \in SUBSET Places :
                   HasDegree(q, k) /\ HasZeros(q, Q) => Cardinality(Q) <= k}
<1>1. M \in Nat /\ Degrees = 0 .. M
    BY DegreeFacts
<1>2. \A Q \in SUBSET Places : IsFiniteSet(Q) /\ Cardinality(Q) \in Nat
  <2>1. IsFiniteSet(Places)
    <3>1. 0 \in Int /\ 254 \in Int
        OBVIOUS
    <3>2. IsFiniteSet(0 .. 254)
        BY <3>1, FS_Interval, Zenon
    <3> QED
        BY <3>2 DEF Places
  <2> QED
      BY <2>1, FS_Subset, FS_CardinalityType
<1> HIDE DEF M
<1>3. 0 \in T
  <2> SUFFICES ASSUME NEW q \in Polys, NEW Q \in SUBSET Places, HasDegree(q, 0), HasZeros(q, Q)
               PROVE  Cardinality(Q) <= 0
      BY <1>1
  <2>1. ASSUME NEW i \in Q PROVE FALSE
    <3> DEFINE e == 255 - i
               t == Terms(q, e)
    <3>1. e \in Nat /\ Value(q, e) = 0
        BY PlaceFacts DEF HasZeros
    <3>2. \A d \in 0 .. M : t[d] \in Byte
        BY <1>1, <3>1, TermBytes, ZenonT(40)
    <3>3. \A d \in 0 + 1 .. M : t[d] = 0
      <4> SUFFICES ASSUME NEW d \in 0 + 1 .. M PROVE t[d] = 0
          OBVIOUS
      <4>1. d \in Degrees /\ d > 0
          BY <1>1
      <4>2. q[d] = 0 /\ t[d] = gmult(q[d], gexp(e * d))
          BY <3>1, <4>1, TermBytes DEF HasDegree
      <4> QED
          BY <4>2, MultFacts, ZenonT(40)
    <3>4. XorSum(t, 0) = q[0]
        BY <3>1, ValueFacts
    <3>5. Value(q, e) = XorSum(t, M)
        BY DEF Value, M
    <3> HIDE DEF t, e
    <3>6. 0 \in 0 .. M
        BY <1>1
    <3>7. XorSum(t, M) = XorSum(t, 0)
        BY <1>1, <3>2, <3>3, <3>6, SumExtended
    <3> QED
        BY <3>1, <3>4, <3>5, <3>7 DEF HasDegree
  <2>2. Q = {}
      BY <2>1
  <2> QED
      BY <2>2, FS_EmptySet
<1>4. ASSUME NEW k \in 0 .. M - 1, k \in T PROVE k + 1 \in T
  <2>1. k \in Nat /\ k + 1 \in 0 .. M /\ k + 1 \in Degrees
      BY <1>1
  <2> SUFFICES ASSUME NEW q \in Polys, NEW Q \in SUBSET Places, HasDegree(q, k + 1), HasZeros(q, Q)
               PROVE  Cardinality(Q) <= k + 1
      BY <2>1
  <2>2. CASE Q = {}
      BY <2>1, <2>2, FS_EmptySet
  <2>3. CASE Q # {}
    <3>1. PICK i \in Q : TRUE
        BY <2>3
    <3> DEFINE h == Quotient(q, gexp(i))
               P == Q \ {i}
    <3>2. i \in Places /\ Value(q, 255 - i) = 0
        BY DEF HasZeros
    <3>3. HasDegree(h, k) /\ h[MAXDEG - 1] = 0
        BY <2>1, <3>2, QuotientDegree
    <3>4. HasZeros(h, P)
      <4> SUFFICES ASSUME NEW j \in P PROVE Value(h, 255 - j) = 0
          BY DEF HasZeros
      <4>1. j \in Places /\ j # i /\ Value(q, 255 - j) = 0
          BY DEF HasZeros
      <4>2. gexp(i) \in Byte /\ 255 - j \in Nat
          BY <3>2, <4>1, PlaceFacts
      <4>3. gmult(gexp(i), gexp(255 - j)) # 1
        <5> DEFINE a == gexp(i)
                   b == gexp(255 - j)
                   c == gexp(j)
        <5>1. a \in Byte /\ b \in Byte \ {0} /\ c \in Byte /\ gmult(c, b) = 1
            BY <3>2, <4>1, PlaceFacts
        <5>2. a # c
            BY <3>2, <4>1, PlaceFacts
        <5> HIDE DEF a, b, c
        <5>3. gmult(gmult(a, b), ginv(b)) = a /\ gmult(gmult(c, b), ginv(b)) = c
            BY <5>1, MultCancel
        <5>4. gmult(a, b) # 1
            BY <5>1, <5>2, <5>3
        <5> QED
            BY <5>4 DEF a, b
      <4> QED
          BY <3>3, <4>1, <4>2, <4>3, ZeroOfQuotient
    <3>5. P \in SUBSET Places /\ h \in Polys
        BY <3>3 DEF HasDegree
    <3> HIDE DEF h
    <3>6. Cardinality(P) <= k
        BY <1>4, <3>3, <3>4, <3>5
    <3>7. Cardinality(P) = Cardinality(Q) - 1
        BY <1>2, <3>1, FS_RemoveElement
    <3>8. Cardinality(Q) \in Nat
        BY <1>2
    <3> QED
        BY <2>1, <3>6, <3>7, <3>8
  <2> QED
      BY <2>2, <2>3
<1> HIDE DEF T
<1>5. \A k \in 0 .. M : k \in T
    BY <1>1, <1>3, <1>4, SegmentInduction
<1>6. n \in T /\ p \in Polys
    BY <1>1, <1>5 DEF HasDegree
<1> QED
    BY <1>2, <1>6 DEF T

-----------------------------------------------------------------------------
(* Errors and their power sums.                                            *)

\* The last of the places.
LastPlace == 254

\* The places, as the range of a sum.
LEMMA PlacesAre == LastPlace \in Nat /\ LastPlace \in 0 .. LastPlace /\ Places = 0 .. LastPlace
BY DEF LastPlace, Places

\* What is wrong at each place, or another weight of it.
Weights == [Places -> Byte]
Support(w) == {i \in Places : w[i] # 0}

\* The sum of the weights, each times the power s of its place.
MomentTerms(w, s) == [i \in Places |-> gmult(w[i], gexp(i * s))]
Moment(w, s) == XorSum(MomentTerms(w, s), LastPlace)

\* The terms are bytes.
LEMMA MomentTermBytes ==
    ASSUME NEW w \in Weights, NEW s \in Nat, NEW i \in Places
    PROVE  /\ MomentTerms(w, s)[i] \in Byte
           /\ MomentTerms(w, s)[i] = gmult(w[i], gexp(i * s))
           /\ gexp(i * s) \in Byte
           /\ w[i] \in Byte
<1>1. MomentTerms(w, s)[i] = gmult(w[i], gexp(i * s))
    BY DEF MomentTerms
<1>2. w[i] \in Byte /\ i \in Nat
    BY DEF Weights, Places
<1>3. gexp(i * s) \in Byte
    BY <1>2, PowerTypes
<1> QED
    BY <1>1, <1>2, <1>3, MultFacts

\* And so is the sum.
LEMMA MomentBytes ==
    ASSUME NEW w \in Weights, NEW s \in Nat
    PROVE  Moment(w, s) \in Byte
<1>1. \A i \in 0 .. LastPlace : MomentTerms(w, s)[i] \in Byte
    BY MomentTermBytes, PlacesAre
<1>2. LastPlace \in Nat /\ LastPlace \in 0 .. LastPlace
    BY PlacesAre
<1>3. XorSum(MomentTerms(w, s), LastPlace) \in Byte
    BY <1>1, <1>2, SumFacts
<1> QED
    BY <1>3 DEF Moment

\* There are finitely many places.
LEMMA SupportFinite ==
    ASSUME NEW w
    PROVE  IsFiniteSet(Support(w)) /\ Cardinality(Support(w)) \in Nat
<1>1. IsFiniteSet(Places)
  <2>1. 0 \in Int /\ LastPlace \in Int
      BY PlacesAre
  <2>2. IsFiniteSet(0 .. LastPlace)
      BY <2>1, FS_Interval, Zenon
  <2> QED
      BY <2>2, PlacesAre
<1>2. Support(w) \subseteq Places
    BY DEF Support
<1> QED
    BY <1>1, <1>2, FS_Subset, FS_CardinalityType

\* The weight of one place can be taken away.
LEMMA MomentWithout ==
    ASSUME NEW w \in Weights, NEW m \in Places, NEW u,
           u = [i \in Places |-> gmult(w[i], Xor(gexp(i), gexp(m)))], NEW s \in Nat
    PROVE  /\ u \in Weights
           /\ Moment(u, s) = Xor(Moment(w, s + 1), gmult(gexp(m), Moment(w, s)))
<1> DEFINE x == gexp(m)
<1>1. x \in Byte /\ s + 1 \in Nat
    BY PlaceFacts
<1>2. u \in Weights
  <2> SUFFICES ASSUME NEW i \in Places PROVE gmult(w[i], Xor(gexp(i), x)) \in Byte
      BY DEF Weights
  <2>1. w[i] \in Byte /\ gexp(i) \in Byte
      BY PlaceFacts DEF Weights
  <2>2. Xor(gexp(i), x) \in Byte
      BY <1>1, <2>1, XorFacts
  <2> QED
      BY <2>1, <2>2, MultFacts
<1> DEFINE f == MomentTerms(w, s + 1)
           g == MomentTerms(w, s)
           h == MomentTerms(u, s)
           gx == [i \in 0 .. LastPlace |-> gmult(x, g[i])]
<1>3. \A i \in 0 .. LastPlace : f[i] \in Byte /\ g[i] \in Byte /\ h[i] \in Byte
  <2> HIDE DEF f, g, h
  <2> QED
      BY <1>1, <1>2, MomentTermBytes, PlacesAre DEF f, g, h
<1>4. ASSUME NEW i \in 0 .. LastPlace PROVE h[i] = Xor(f[i], gx[i])
  <2> DEFINE a == gexp(i)
             b == gexp(i * s)
             c == w[i]
  <2>1. i \in Places /\ i \in Nat
      BY PlacesAre
  <2>2. a \in Byte /\ b \in Byte /\ c \in Byte
      BY <2>1, PlaceFacts, MomentTermBytes, ZenonT(40)
  <2>3. h[i] = gmult(u[i], b) /\ u[i] = gmult(c, Xor(a, x))
      BY <1>2, <2>1, MomentTermBytes
  <2>4. f[i] = gmult(c, gexp(i * (s + 1))) /\ gexp(i * (s + 1)) = gmult(b, a)
      BY <1>1, <2>1, MomentTermBytes, PowerNext
  <2>5. gx[i] = gmult(x, g[i]) /\ g[i] = gmult(c, b)
      BY <2>1, MomentTermBytes
  <2> HIDE DEF a, b, c, x, f, g, h, gx
  <2>6. Xor(a, x) \in Byte /\ gmult(c, b) \in Byte /\ gmult(b, a) \in Byte
      BY <1>1, <2>2, XorFacts, MultFacts
  <2>7. gmult(gmult(c, Xor(a, x)), b) = gmult(gmult(c, b), Xor(a, x))
    <3>1. gmult(gmult(c, Xor(a, x)), b) = gmult(c, gmult(Xor(a, x), b))
        BY <2>2, <2>6, MultAssociative
    <3>2. gmult(gmult(c, b), Xor(a, x)) = gmult(c, gmult(b, Xor(a, x)))
        BY <2>2, <2>6, MultAssociative
    <3>3. gmult(Xor(a, x), b) = gmult(b, Xor(a, x))
        BY <2>2, <2>6, MultFacts
    <3> QED
        BY <3>1, <3>2, <3>3
  <2>8. gmult(gmult(c, b), Xor(a, x)) = Xor(gmult(gmult(c, b), a), gmult(gmult(c, b), x))
      BY <1>1, <2>2, <2>6, MultDistributes
  <2>9. gmult(gmult(c, b), a) = gmult(c, gmult(b, a))
      BY <2>2, MultAssociative
  <2>10. gmult(gmult(c, b), x) = gmult(x, gmult(c, b))
      BY <1>1, <2>6, MultFacts
  <2> QED
      BY <2>3, <2>4, <2>5, <2>7, <2>8, <2>9, <2>10
<1>5. \A i \in 0 .. LastPlace : gx[i] = gmult(x, g[i])
    OBVIOUS
<1> HIDE DEF x, f, g, h, gx
<1>6. LastPlace \in Nat
    BY PlacesAre
<1>7. XorSum(gx, LastPlace) = gmult(x, XorSum(g, LastPlace))
    BY <1>1, <1>3, <1>5, <1>6, SumScaled
<1>8. \A i \in 0 .. LastPlace : gx[i] \in Byte
    BY <1>1, <1>3, <1>5, MultFacts, ZenonT(40)
<1>9. \A i \in 0 .. LastPlace : f[i] \in Byte
    BY <1>3
<1>10. XorSum(h, LastPlace) = Xor(XorSum(f, LastPlace), XorSum(gx, LastPlace))
    BY <1>4, <1>6, <1>8, <1>9, SumOfTwo
<1> QED
    BY <1>2, <1>7, <1>10 DEF Moment, f, g, h, x

\* Weights at v places are told by their first v power sums: if these are 0, so are
\* the weights.
LEMMA Vandermonde ==
    ASSUME NEW v \in Nat, NEW w \in Weights, Cardinality(Support(w)) <= v,
           \A s \in 0 .. v - 1 : Moment(w, s) = 0
    PROVE  \A i \in Places : w[i] = 0
<1> DEFINE T == {k \in 0 .. v : \A u \in Weights :
                   /\ Cardinality(Support(u)) <= k
                   /\ \A s \in 0 .. k - 1 : Moment(u, s) = 0
                   => \A i \in Places : u[i] = 0}
<1>1. 0 \in T
  <2> SUFFICES ASSUME NEW u \in Weights, Cardinality(Support(u)) <= 0
               PROVE  \A i \in Places : u[i] = 0
      OBVIOUS
  <2>1. Cardinality(Support(u)) = 0
      BY SupportFinite
  <2>2. Support(u) = {}
      BY <2>1, SupportFinite, FS_EmptySet
  <2> QED
      BY <2>2 DEF Support
<1>2. ASSUME NEW k \in 0 .. v - 1, k \in T PROVE k + 1 \in T
  <2>1. k \in Nat /\ k + 1 \in 0 .. v /\ (k + 1) - 1 = k
      OBVIOUS
  <2> SUFFICES ASSUME NEW u \in Weights, Cardinality(Support(u)) <= k + 1,
                      \A s \in 0 .. k : Moment(u, s) = 0
               PROVE  \A i \in Places : u[i] = 0
      BY <2>1
  <2> SUFFICES ASSUME NEW m \in Places, u[m] # 0 PROVE FALSE
      OBVIOUS
  <2> DEFINE t == [i \in Places |-> gmult(u[i], Xor(gexp(i), gexp(m)))]
  <2>2. \A s \in Nat : /\ t \in Weights
                       /\ Moment(t, s) = Xor(Moment(u, s + 1), gmult(gexp(m), Moment(u, s)))
      BY MomentWithout
  <2>3. t \in Weights
      BY <2>2, 0 \in Nat
  <2>4. \A s \in 0 .. k - 1 : Moment(t, s) = 0
    <3> SUFFICES ASSUME NEW s \in 0 .. k - 1 PROVE Moment(t, s) = 0
        OBVIOUS
    <3>1. s \in Nat /\ s \in 0 .. k /\ s + 1 \in 0 .. k
        BY <2>1
    <3>2. Moment(u, s) = 0 /\ Moment(u, s + 1) = 0
        BY <3>1
    <3>3. gmult(gexp(m), 0) = 0 /\ Xor(0, 0) = 0
        BY MultFacts, XorFacts, SmallBytes
    <3> HIDE DEF t
    <3> QED
        BY <2>2, <3>1, <3>2, <3>3
  <2>5. \A i \in Places : t[i] = 0 <=> (u[i] = 0 \/ i = m)
    <3> SUFFICES ASSUME NEW i \in Places PROVE t[i] = 0 <=> (u[i] = 0 \/ i = m)
        OBVIOUS
    <3> DEFINE a == Xor(gexp(i), gexp(m))
    <3>1. t[i] = gmult(u[i], a)
        OBVIOUS
    <3>2. u[i] \in Byte /\ gexp(i) \in Byte /\ gexp(m) \in Byte
        BY PlaceFacts DEF Weights
    <3>3. a \in Byte
        BY <3>2, XorFacts
    <3>4. a = 0 <=> i = m
      <4>1. i = m => a = 0
          BY <3>2, XorFacts
      <4>2. ASSUME a = 0 PROVE i = m
        <5>1. gexp(i) = gexp(m)
            BY <3>2, <4>2, XorEqual
        <5> QED
            BY <5>1, PlaceFacts
      <4> QED
          BY <4>1, <4>2
    <3> HIDE DEF t, a
    <3>5. u[i] = 0 \/ a = 0 => t[i] = 0
        BY <3>1, MultFacts
    <3>6. ASSUME u[i] # 0, a # 0 PROVE t[i] # 0
      <4>1. u[i] \in Byte \ {0} /\ a \in Byte \ {0}
          BY <3>2, <3>3, <3>6
      <4>2. gmult(u[i], a) \in Byte \ {0}
          BY <4>1, MultNonzero
      <4> QED
          BY <3>1, <4>2
    <3> QED
        BY <3>4, <3>5, <3>6
  <2> HIDE DEF t
  <2>6. Support(t) = Support(u) \ {m} /\ m \in Support(u)
      BY <2>5 DEF Support
  <2>7. Cardinality(Support(t)) = Cardinality(Support(u)) - 1
      BY <2>6, SupportFinite, FS_RemoveElement
  <2>8. Cardinality(Support(t)) <= k
      BY <2>1, <2>7, SupportFinite
  <2>9. \A i \in Places : t[i] = 0
      BY <1>2, <2>3, <2>4, <2>8
  <2>10. \A i \in Places : i # m => u[i] = 0
      BY <2>5, <2>9
  <2>11. Moment(u, 0) = u[m]
    <3> DEFINE f == MomentTerms(u, 0)
    <3>1. \A i \in Places : f[i] = gmult(u[i], gexp(i * 0)) /\ u[i] \in Byte
        BY MomentTermBytes, 0 \in Nat
    <3>2. \A i \in Places : i * 0 = 0
        BY DEF Places
    <3>3. \A i \in Places : f[i] = u[i]
      <4> SUFFICES ASSUME NEW i \in Places PROVE f[i] = u[i]
          OBVIOUS
      <4>1. f[i] = gmult(u[i], gexp(0)) /\ u[i] \in Byte
          BY <3>1, <3>2
      <4> QED
          BY <4>1, PowerFirst, MultFacts
    <3> HIDE DEF f
    <3>4. LastPlace \in Nat /\ m \in 0 .. LastPlace /\ f[m] \in Byte
        BY <3>1, <3>3, PlacesAre
    <3>5. \A i \in 0 .. LastPlace : i # m => f[i] = 0
        BY <2>10, <3>3, PlacesAre
    <3>6. XorSum(f, LastPlace) = f[m]
        BY <3>4, <3>5, SumSingle
    <3> QED
        BY <3>3, <3>6 DEF Moment, f
  <2>12. 0 \in 0 .. k
      BY <2>1
  <2> QED
      BY <2>11, <2>12
<1> HIDE DEF T
<1>3. \A k \in 0 .. v : k \in T
    BY <1>1, <1>2, SegmentInduction
<1>4. v \in T
    BY <1>3
<1> QED
    BY <1>4 DEF T

-----------------------------------------------------------------------------
(* The syndrome of errors, and what a polynomial makes of it.              *)

\* What decode_data finds if E is wrong.
IsSyndrome(S, E) ==
    /\ S \in Polys
    /\ \A j \in Degrees : S[j] = IF j < NPAR THEN Moment(E, j + 1) ELSE 0

\* A coefficient of the quotient, as a sum.
LEMMA QuotientSum ==
    ASSUME NEW p \in Polys, NEW i \in Places, NEW d \in Degrees
    PROVE  /\ \A k \in 0 .. d : gmult(p[k], gexp(i * (d - k))) \in Byte
           /\ Quotient(p, gexp(i))[d] = XorSum([k \in 0 .. d |-> gmult(p[k], gexp(i * (d - k)))], d)
<1> DEFINE x == gexp(i)
           h == Quotient(p, x)
           M == MAXDEG - 1
           term(n) == [k \in 0 .. n |-> gmult(p[k], gexp(i * (n - k)))]
           T == {n \in 0 .. M : h[n] = XorSum(term(n), n)}
<1>1. M \in Nat /\ Degrees = 0 .. M /\ i \in Nat
    BY DegreeFacts DEF Places
<1>2. x \in Byte
    BY PlaceFacts
<1>3. h \in Polys /\ h[0] = p[0] /\ \A n \in Degrees : n # 0 => h[n] = Xor(p[n], gmult(x, h[n - 1]))
    BY <1>2, QuotientFacts DEF IsQuotient
<1>4. \A n \in 0 .. M : \A k \in 0 .. n : term(n)[k] = gmult(p[k], gexp(i * (n - k)))
    OBVIOUS
<1> HIDE DEF h, M, term
<1>5. ASSUME NEW n \in 0 .. M, NEW k \in 0 .. n
      PROVE  /\ p[k] \in Byte
             /\ gexp(i * (n - k)) \in Byte
             /\ term(n)[k] \in Byte
             /\ gmult(p[k], gexp(i * (n - k))) \in Byte
  <2>1. k \in Degrees /\ n - k \in Nat
      BY <1>1
  <2>2. p[k] \in Byte
      BY <2>1 DEF Polys
  <2>3. gexp(i * (n - k)) \in Byte
      BY <1>1, <2>1, PowerTypes
  <2>4. gmult(p[k], gexp(i * (n - k))) \in Byte
      BY <2>2, <2>3, MultFacts
  <2> QED
      BY <1>4, <2>2, <2>3, <2>4
<1> HIDE DEF x
<1>6. 0 \in T
  <2>1. 0 \in 0 .. M /\ 0 \in 0 .. 0 /\ i * (0 - 0) = 0 /\ 0 \in Nat
      BY <1>1
  <2>2. \A k \in 0 .. 0 : term(0)[k] \in Byte
      BY <1>5, <2>1
  <2>3. XorSum(term(0), 0) = term(0)[0]
      BY <2>1, <2>2, SumFacts
  <2>4. term(0)[0] = gmult(p[0], gexp(0))
      BY <1>4, <2>1
  <2>5. p[0] \in Byte
      BY <1>5, <2>1
  <2> QED
      BY <1>3, <2>1, <2>3, <2>4, <2>5, PowerFirst, MultFacts
<1>7. ASSUME NEW n \in 0 .. M - 1, n \in T PROVE n + 1 \in T
  <2> DEFINE f == term(n + 1)
             g == term(n)
  <2>1. /\ n \in Nat /\ n \in 0 .. M /\ n + 1 \in 0 .. M /\ n + 1 # 0 /\ (n + 1) - 1 = n
        /\ n + 1 \in Degrees /\ n \in 0 .. n /\ n + 1 \in 0 .. n + 1 /\ n + 1 \in Nat
        /\ i * ((n + 1) - (n + 1)) = 0 /\ n \in 0 .. (n + 1) - 1
      BY <1>1
  <2>2. \A k \in 0 .. n + 1 : f[k] \in Byte
      BY <1>5, <2>1
  <2>3. \A k \in 0 .. n : g[k] \in Byte
      BY <1>5, <2>1
  <2>4. \A k \in 0 .. n : f[k] = gmult(x, g[k])
    <3> SUFFICES ASSUME NEW k \in 0 .. n PROVE f[k] = gmult(x, g[k])
        OBVIOUS
    <3> DEFINE b == gexp(i * (n - k))
    <3>1. k \in 0 .. n + 1 /\ n - k \in Nat /\ (n + 1) - k = (n - k) + 1
        BY <2>1
    <3>2. f[k] = gmult(p[k], gexp(i * ((n - k) + 1))) /\ g[k] = gmult(p[k], b)
        BY <1>4, <2>1, <3>1
    <3>3. gexp(i * ((n - k) + 1)) = gmult(b, x)
        BY <1>1, <3>1, PowerNext DEF x
    <3>4. p[k] \in Byte /\ b \in Byte
        BY <1>5, <2>1
    <3> HIDE DEF f, g, b
    <3>5. gmult(p[k], b) \in Byte
        BY <3>4, MultFacts
    <3>6. gmult(p[k], gmult(b, x)) = gmult(gmult(p[k], b), x)
        BY <1>2, <3>4, MultAssociative
    <3>7. gmult(gmult(p[k], b), x) = gmult(x, gmult(p[k], b))
        BY <1>2, <3>5, MultFacts
    <3> QED
        BY <3>2, <3>3, <3>6, <3>7
  <2>5. f[n + 1] = p[n + 1] /\ p[n + 1] \in Byte
    <3>1. f[n + 1] = gmult(p[n + 1], gexp(0)) /\ p[n + 1] \in Byte
        BY <1>4, <1>5, <2>1
    <3> QED
        BY <3>1, PowerFirst, MultFacts
  <2>6. h[n] = XorSum(g, n) /\ h[n + 1] = Xor(p[n + 1], gmult(x, h[n]))
      BY <1>3, <1>7, <2>1
  <2> HIDE DEF f, g
  <2>7. XorSum(f, n) = gmult(x, XorSum(g, n))
      BY <1>2, <2>1, <2>3, <2>4, SumScaled
  <2>8. XorSum(f, n + 1) = Xor(XorSum(f, n), f[n + 1]) /\ XorSum(f, n) \in Byte
    <3>1. n \in 0 .. n + 1
        BY <2>1
    <3> QED
        BY <2>1, <2>2, <3>1, SumFacts
  <2>9. Xor(XorSum(f, n), p[n + 1]) = Xor(p[n + 1], XorSum(f, n))
      BY <2>5, <2>8, XorFacts
  <2>10. h[n + 1] = XorSum(f, n + 1)
      BY <2>5, <2>6, <2>7, <2>8, <2>9
  <2> QED
      BY <2>1, <2>10 DEF f
<1> HIDE DEF T
<1>8. \A n \in 0 .. M : n \in T
    BY <1>1, <1>6, <1>7, SegmentInduction
<1>9. d \in T /\ d \in 0 .. M
    BY <1>1, <1>8
<1>10. \A k \in 0 .. d : gmult(p[k], gexp(i * (d - k))) \in Byte
    BY <1>5, <1>9
<1>11. h[d] = XorSum(term(d), d)
    BY <1>9 DEF T
<1> QED
    BY <1>10, <1>11 DEF term, h, x

-----------------------------------------------------------------------------
\* What is left at each place of a division of p, at degree d.
Residue(p, E, d) ==
    [i \in Places |-> gmult(gmult(E[i], gexp(i)), Quotient(p, gexp(i))[d])]

\* What is left is 0 where nothing is wrong.
LEMMA ResidueFacts ==
    ASSUME NEW p \in Polys, NEW E \in Weights, NEW d \in Degrees
    PROVE  /\ Residue(p, E, d) \in Weights
           /\ \A i \in Places :
                 /\ Residue(p, E, d)[i] = gmult(gmult(E[i], gexp(i)), Quotient(p, gexp(i))[d])
                 /\ gmult(E[i], gexp(i)) \in Byte
                 /\ Quotient(p, gexp(i))[d] \in Byte
                 /\ Residue(p, E, d)[i] \in Byte
<1>1. ASSUME NEW i \in Places
      PROVE  /\ Residue(p, E, d)[i] = gmult(gmult(E[i], gexp(i)), Quotient(p, gexp(i))[d])
             /\ gmult(E[i], gexp(i)) \in Byte
             /\ Quotient(p, gexp(i))[d] \in Byte
             /\ Residue(p, E, d)[i] \in Byte
  <2>1. E[i] \in Byte /\ gexp(i) \in Byte
      BY PlaceFacts DEF Weights
  <2>2. gmult(E[i], gexp(i)) \in Byte
      BY <2>1, MultFacts
  <2>3. Quotient(p, gexp(i))[d] \in Byte
      BY <2>1, QuotientFacts DEF Polys
  <2>4. gmult(gmult(E[i], gexp(i)), Quotient(p, gexp(i))[d]) \in Byte
      BY <2>2, <2>3, MultFacts
  <2> QED
      BY <2>2, <2>3, <2>4 DEF Residue
<1>2. Residue(p, E, d) = [i \in Places |-> Residue(p, E, d)[i]]
    BY DEF Residue
<1>3. Residue(p, E, d) \in Weights
    BY <1>1, <1>2 DEF Weights
<1> QED
    BY <1>1, <1>3

\* A coefficient of the product with the syndrome is the sum of what is left.
LEMMA ProductWithSyndrome ==
    ASSUME NEW p \in Polys, NEW E \in Weights, NEW S, IsSyndrome(S, E), NEW d \in 0 .. NPAR - 1
    PROVE  MultAt(p, S, d) = XorSum(Residue(p, E, d), LastPlace)
<1> DEFINE q(i) == [k \in 0 .. d |-> gmult(p[k], gexp(i * (d - k)))]
           F == [k \in 0 .. d |-> [i \in Places |->
                   gmult(p[k], gmult(E[i], gexp(i * ((d - k) + 1))))]]
           rows == [k \in 0 .. d |-> gmult(p[k], S[d - k])]
           cols == Residue(p, E, d)
           C == [i \in Places |-> [k \in 0 .. d |-> F[k][i]]]
<1>1. NPAR \in Nat \ {0} /\ d \in Nat /\ d \in Degrees /\ d \in 0 .. d
    BY DegreeFacts
<1>2. ASSUME NEW k \in 0 .. d
      PROVE  /\ k \in Degrees /\ d - k \in Nat /\ (d - k) + 1 \in Nat /\ d - k \in Degrees
             /\ d - k < NPAR
             /\ p[k] \in Byte
  <2>1. k \in Degrees /\ d - k \in Nat /\ (d - k) + 1 \in Nat /\ d - k \in Degrees /\ d - k < NPAR
      BY <1>1, DegreeFacts
  <2> QED
      BY <2>1 DEF Polys
<1>3. ASSUME NEW k \in 0 .. d, NEW i \in Places
      PROVE  /\ F[k][i] = gmult(p[k], gmult(E[i], gexp(i * ((d - k) + 1))))
             /\ gmult(E[i], gexp(i * ((d - k) + 1))) \in Byte
             /\ F[k][i] \in Byte
  <2>1. F[k][i] = gmult(p[k], gmult(E[i], gexp(i * ((d - k) + 1))))
      OBVIOUS
  <2>2. E[i] \in Byte /\ i \in Nat
      BY PlaceFacts DEF Weights
  <2>3. gexp(i * ((d - k) + 1)) \in Byte
      BY <1>2, <2>2, PowerTypes
  <2> HIDE DEF F
  <2>4. gmult(E[i], gexp(i * ((d - k) + 1))) \in Byte
      BY <2>2, <2>3, MultFacts
  <2>5. p[k] \in Byte
      BY <1>2
  <2>6. gmult(p[k], gmult(E[i], gexp(i * ((d - k) + 1)))) \in Byte
      BY <2>4, <2>5, MultFacts
  <2> QED
      BY <2>1, <2>4, <2>6
<1>4. \A i \in Places : \A k \in 0 .. d : C[i][k] = F[k][i]
    OBVIOUS
<1>5. \A k \in 0 .. d : F[k] = [i \in Places |-> F[k][i]]
    OBVIOUS
<1>6. \A k \in 0 .. d : rows[k] = gmult(p[k], S[d - k])
    OBVIOUS
<1>7. MultAt(p, S, d) = XorSum(rows, d)
    BY DEF MultAt
<1> HIDE DEF F, C, rows
<1>8. ASSUME NEW k \in 0 .. d PROVE rows[k] = XorSum(F[k], LastPlace)
  <2> DEFINE t == MomentTerms(E, (d - k) + 1)
  <2>1. \A i \in 0 .. LastPlace : t[i] \in Byte /\ t[i] = gmult(E[i], gexp(i * ((d - k) + 1)))
      BY <1>2, MomentTermBytes, PlacesAre
  <2>2. S[d - k] = XorSum(t, LastPlace)
    <3>1. S[d - k] = Moment(E, (d - k) + 1)
        BY <1>2 DEF IsSyndrome
    <3> QED
        BY <3>1 DEF Moment
  <2> HIDE DEF t
  <2>3. \A i \in 0 .. LastPlace : t[i] \in Byte
      BY <2>1
  <2>4. \A i \in 0 .. LastPlace : F[k][i] = gmult(p[k], t[i])
      BY <1>3, <2>1, PlacesAre
  <2>5. p[k] \in Byte
      BY <1>2
  <2>6. XorSum(F[k], LastPlace) = gmult(p[k], XorSum(t, LastPlace))
      BY <2>3, <2>4, <2>5, PlacesAre, SumScaled
  <2> QED
      BY <1>6, <2>2, <2>6
<1>9. ASSUME NEW i \in Places PROVE cols[i] = XorSum(C[i], d)
  <2> DEFINE c == gmult(E[i], gexp(i))
             g == q(i)
             f == C[i]
  <2>1. /\ \A k \in 0 .. d : gmult(p[k], gexp(i * (d - k))) \in Byte
        /\ Quotient(p, gexp(i))[d] = XorSum(g, d)
      BY <1>1, QuotientSum
  <2>2. cols[i] = gmult(c, Quotient(p, gexp(i))[d]) /\ c \in Byte
      BY <1>1, ResidueFacts
  <2>3. \A k \in 0 .. d : g[k] = gmult(p[k], gexp(i * (d - k)))
      OBVIOUS
  <2>4. \A k \in 0 .. d : f[k] = F[k][i]
      BY <1>4
  <2> HIDE DEF g, f
  <2>5. \A k \in 0 .. d : g[k] \in Byte
      BY <2>1, <2>3
  <2>6. \A k \in 0 .. d : f[k] = gmult(c, g[k])
    <3> SUFFICES ASSUME NEW k \in 0 .. d PROVE f[k] = gmult(c, g[k])
        OBVIOUS
    <3> DEFINE b == gexp(i * (d - k))
               x == gexp(i)
               y == gexp(i * ((d - k) + 1))
    <3>1. y = gmult(b, x) /\ b \in Byte /\ x \in Byte /\ y \in Byte
      <4>1. i \in Nat
          BY PlaceFacts
      <4> QED
          BY <1>2, <4>1, PowerNext, PowerTypes, PlaceFacts, ZenonT(40)
    <3>2. p[k] \in Byte /\ E[i] \in Byte
        BY <1>2 DEF Weights
    <3>3. f[k] = gmult(p[k], gmult(E[i], y)) /\ g[k] = gmult(p[k], b) /\ c = gmult(E[i], x)
        BY <1>3, <2>3, <2>4
    <3> HIDE DEF b, x, y, c
    <3>4. gmult(p[k], gmult(E[i], y)) = gmult(gmult(E[i], x), gmult(p[k], b))
      <4>1. gmult(gmult(E[i], x), gmult(p[k], b)) = gmult(gmult(E[i], p[k]), gmult(x, b))
          BY <3>1, <3>2, MultSwap
      <4>2. gmult(x, b) = y
          BY <3>1, MultFacts
      <4>3. gmult(gmult(E[i], p[k]), y) = gmult(gmult(p[k], E[i]), y)
        <5>1. gmult(E[i], p[k]) = gmult(p[k], E[i])
            BY <3>2, MultFacts
        <5> QED
            BY <5>1
      <4>4. gmult(gmult(p[k], E[i]), y) = gmult(p[k], gmult(E[i], y))
          BY <3>1, <3>2, MultAssociative
      <4> QED
          BY <4>1, <4>2, <4>3, <4>4
    <3> QED
        BY <3>3, <3>4
  <2>7. XorSum(f, d) = gmult(c, XorSum(g, d))
      BY <1>1, <2>2, <2>5, <2>6, SumScaled
  <2> QED
      BY <2>1, <2>2, <2>7 DEF f
<1>10. \A k \in 0 .. d : \A i \in 0 .. LastPlace : F[k][i] \in Byte
    BY <1>3, PlacesAre
<1>11. \A i \in 0 .. LastPlace : cols[i] = XorSum(C[i], d)
    BY <1>9, PlacesAre
<1>13. \A i \in 0 .. LastPlace : \A k \in 0 .. d : C[i][k] = F[k][i]
    BY <1>4, PlacesAre
<1> HIDE DEF cols, q
<1>12. XorSum(rows, d) = XorSum(cols, LastPlace)
  <2>1. d \in Nat /\ LastPlace \in Nat
      BY <1>1, PlacesAre
  <2>2. IsGrid(F, C, rows, cols, d, LastPlace)
      BY <1>8, <1>10, <1>11, <1>13 DEF IsGrid
  <2> QED
      BY <2>1, <2>2, SumSwap
<1> QED
    BY <1>7, <1>12 DEF cols

\* Above the degree of p, what is left at a place is multiplied by its power.
LEMMA ResidueTail ==
    ASSUME NEW p \in Polys, NEW E \in Weights, NEW L \in Degrees,
           \A d \in Degrees : d > L => p[d] = 0,
           NEW s \in Nat, L + s \in Degrees
    PROVE  Residue(p, E, L + s) = MomentTerms(Residue(p, E, L), s)
<1> DEFINE w == Residue(p, E, L)
           T == {k \in 0 .. s : Residue(p, E, L + k) = MomentTerms(w, k)}
<1>1. /\ L \in Nat
      /\ \A k \in 0 .. s : L + k \in Degrees /\ k \in Nat
    BY DegreeFacts
<1>2. w \in Weights
    BY ResidueFacts
<1> HIDE DEF w
<1>3. 0 \in T
  <2>1. \A i \in Places : i * 0 = 0 /\ w[i] \in Byte
      BY <1>2 DEF Weights, Places
  <2>2. \A i \in Places : gmult(w[i], gexp(i * 0)) = w[i]
    <3> SUFFICES ASSUME NEW i \in Places PROVE gmult(w[i], gexp(i * 0)) = w[i]
        OBVIOUS
    <3> QED
        BY <2>1, PowerFirst, MultFacts
  <2>3. MomentTerms(w, 0) = [i \in Places |-> w[i]]
      BY <2>2 DEF MomentTerms
  <2>4. w = [i \in Places |-> w[i]]
      BY <1>2 DEF Weights
  <2>5. L + 0 = L
      BY <1>1
  <2> QED
      BY <2>3, <2>4, <2>5 DEF w
<1>4. ASSUME NEW k \in 0 .. s - 1, k \in T PROVE k + 1 \in T
  <2> DEFINE d == L + k
  <2>1. k \in Nat /\ k + 1 \in 0 .. s /\ k \in 0 .. s /\ k + 1 \in Nat
      OBVIOUS
  <2>2. d \in Degrees /\ d + 1 \in Degrees /\ L + (k + 1) = d + 1 /\ d + 1 > L /\ d + 1 # 0
        /\ (d + 1) - 1 = d
      BY <1>1, <2>1
  <2>3. Residue(p, E, d) = MomentTerms(w, k)
      BY <1>4
  <2> HIDE DEF d
  <2>4. \A i \in Places : Residue(p, E, d + 1)[i] = MomentTerms(w, k + 1)[i]
    <3> SUFFICES ASSUME NEW i \in Places
                 PROVE  Residue(p, E, d + 1)[i] = MomentTerms(w, k + 1)[i]
        OBVIOUS
    <3> DEFINE x == gexp(i)
               h == Quotient(p, x)
               c == gmult(E[i], x)
               b == gexp(i * k)
    <3>1. x \in Byte /\ i \in Nat
        BY PlaceFacts
    <3>2. h[d + 1] = Xor(p[d + 1], gmult(x, h[d])) /\ p[d + 1] = 0
        BY <2>2, <3>1, QuotientFacts DEF IsQuotient
    <3>3. /\ Residue(p, E, d + 1)[i] = gmult(c, h[d + 1])
          /\ Residue(p, E, d)[i] = gmult(c, h[d])
          /\ c \in Byte /\ h[d] \in Byte
        BY <2>2, ResidueFacts
    <3>4. MomentTerms(w, k)[i] = gmult(w[i], b) /\ w[i] \in Byte /\ b \in Byte
        BY <1>2, <2>1, MomentTermBytes
    <3>5. MomentTerms(w, k + 1)[i] = gmult(w[i], gmult(b, x))
      <4>1. MomentTerms(w, k + 1)[i] = gmult(w[i], gexp(i * (k + 1)))
          BY <1>2, <2>1, MomentTermBytes
      <4> QED
          BY <2>1, <3>1, <4>1, PowerNext
    <3>6. gmult(c, h[d]) = gmult(w[i], b)
        BY <2>3, <3>3, <3>4
    <3> HIDE DEF x, h, c, b
    <3>7. h[d + 1] = gmult(x, h[d])
      <4>1. gmult(x, h[d]) \in Byte
          BY <3>1, <3>3, MultFacts
      <4> QED
          BY <3>2, <4>1, XorFacts
    <3>8. gmult(c, gmult(x, h[d])) = gmult(gmult(c, h[d]), x)
      <4>1. gmult(gmult(c, h[d]), x) = gmult(c, gmult(h[d], x))
          BY <3>1, <3>3, MultAssociative
      <4>2. gmult(h[d], x) = gmult(x, h[d])
          BY <3>1, <3>3, MultFacts
      <4> QED
          BY <4>1, <4>2
    <3>9. gmult(gmult(w[i], b), x) = gmult(w[i], gmult(b, x))
        BY <3>1, <3>4, MultAssociative
    <3> QED
        BY <3>3, <3>5, <3>6, <3>7, <3>8, <3>9
  <2>5. /\ Residue(p, E, d + 1) = [i \in Places |-> Residue(p, E, d + 1)[i]]
        /\ MomentTerms(w, k + 1) = [i \in Places |-> MomentTerms(w, k + 1)[i]]
      BY DEF Residue, MomentTerms
  <2>6. Residue(p, E, d + 1) = MomentTerms(w, k + 1)
      BY <2>4, <2>5
  <2> QED
      BY <2>1, <2>2, <2>6
<1> HIDE DEF T
<1>5. \A k \in 0 .. s : k \in T
    BY <1>3, <1>4, SegmentInduction
<1>6. s \in T
    BY <1>5
<1> QED
    BY <1>6 DEF T, w

\* So are the coefficients of the product with the syndrome.
LEMMA ProductTail ==
    ASSUME NEW p \in Polys, NEW E \in Weights, NEW S, IsSyndrome(S, E), NEW L \in Degrees,
           \A d \in Degrees : d > L => p[d] = 0,
           NEW s \in Nat, L + s < NPAR
    PROVE  MultAt(p, S, L + s) = Moment(Residue(p, E, L), s)
<1>1. L + s \in 0 .. NPAR - 1 /\ L + s \in Degrees
    BY DegreeFacts
<1>2. MultAt(p, S, L + s) = XorSum(Residue(p, E, L + s), LastPlace)
    BY <1>1, ProductWithSyndrome
<1>3. Residue(p, E, L + s) = MomentTerms(Residue(p, E, L), s)
    BY <1>1, ResidueTail
<1> QED
    BY <1>2, <1>3 DEF Moment

-----------------------------------------------------------------------------
(* Products with the syndrome.                                             *)

\* A sum that begins with 0.
LEMMA SumShift ==
    ASSUME NEW n \in Nat, NEW f, NEW g, \A i \in 0 .. n : g[i] \in Byte,
           f[0] = 0, \A i \in 0 .. n : f[i + 1] = g[i]
    PROVE  XorSum(f, n + 1) = XorSum(g, n)
<1> DEFINE s == [k \in 0 .. n |-> XorSum(f, k + 1)]
<1>1. \A i \in 0 .. n + 1 : f[i] \in Byte
  <2> SUFFICES ASSUME NEW i \in 0 .. n + 1 PROVE f[i] \in Byte
      OBVIOUS
  <2>1. CASE i = 0
      BY <2>1, SmallBytes
  <2>2. CASE i # 0
    <3>1. i - 1 \in 0 .. n /\ (i - 1) + 1 = i
        BY <2>2
    <3>2. f[(i - 1) + 1] = g[i - 1]
        BY <3>1
    <3> QED
        BY <3>1, <3>2
  <2> QED
      BY <2>1, <2>2
<1>2. n + 1 \in Nat
    OBVIOUS
<1>3. /\ \A k \in 0 .. n + 1 : XorSum(f, k) \in Byte
      /\ XorSum(f, 0) = f[0]
      /\ \A k \in 0 .. (n + 1) - 1 : XorSum(f, k + 1) = Xor(XorSum(f, k), f[k + 1])
    BY <1>1, <1>2, SumFacts
<1>4. \A k \in 0 .. n : s[k] = XorSum(f, k + 1)
    OBVIOUS
<1> HIDE DEF s
<1>5. \A k \in 0 .. n : s[k] = Xor(XorSum(f, k), g[k])
  <2>1. \A k \in 0 .. n : k \in 0 .. (n + 1) - 1
      OBVIOUS
  <2> QED
      BY <1>3, <1>4, <2>1
<1>6. s[0] = g[0]
  <2>1. 0 \in 0 .. n
      OBVIOUS
  <2>2. s[0] = Xor(0, g[0]) /\ g[0] \in Byte
      BY <1>3, <1>5, <2>1
  <2> QED
      BY <2>2, XorFacts
<1>7. ASSUME NEW k \in 0 .. n - 1 PROVE s[k + 1] = Xor(s[k], g[k + 1])
  <2>1. k \in 0 .. n /\ k + 1 \in 0 .. n
      OBVIOUS
  <2> QED
      BY <1>4, <1>5, <2>1
<1>8. \A k \in 0 .. n : XorSum(g, k) = s[k]
    BY <1>6, <1>7, SumInduction
<1>9. n \in 0 .. n
    OBVIOUS
<1> QED
    BY <1>4, <1>8, <1>9

\* The terms of a coefficient of a product.
ProductTerms(p, q, n) == [i \in 0 .. n |-> gmult(p[i], q[n - i])]

\* The terms are bytes.
LEMMA ProductTermBytes ==
    ASSUME NEW p \in Polys, NEW q \in Polys, NEW n \in Degrees
    PROVE  /\ n \in Nat
           /\ MultAt(p, q, n) = XorSum(ProductTerms(p, q, n), n)
           /\ \A i \in 0 .. n : /\ ProductTerms(p, q, n)[i] = gmult(p[i], q[n - i])
                                /\ ProductTerms(p, q, n)[i] \in Byte
                                /\ p[i] \in Byte
                                /\ q[n - i] \in Byte
                                /\ i \in Degrees
           /\ MultAt(p, q, n) \in Byte
<1>1. n \in Nat /\ n \in 0 .. n
    BY DegreeFacts
<1>2. MultAt(p, q, n) = XorSum(ProductTerms(p, q, n), n)
    BY DEF MultAt, ProductTerms
<1>3. ASSUME NEW i \in 0 .. n
      PROVE  /\ ProductTerms(p, q, n)[i] = gmult(p[i], q[n - i])
             /\ ProductTerms(p, q, n)[i] \in Byte
             /\ p[i] \in Byte
             /\ q[n - i] \in Byte
             /\ i \in Degrees
  <2>1. i \in Degrees /\ n - i \in Degrees
      BY <1>1, DegreeFacts
  <2>2. p[i] \in Byte /\ q[n - i] \in Byte
      BY <2>1 DEF Polys
  <2>3. gmult(p[i], q[n - i]) \in Byte
      BY <2>2, MultFacts
  <2> QED
      BY <2>1, <2>2, <2>3 DEF ProductTerms
<1>4. MultAt(p, q, n) \in Byte
  <2> DEFINE f == ProductTerms(p, q, n)
  <2>1. \A i \in 0 .. n : f[i] \in Byte
      BY <1>3
  <2> HIDE DEF f
  <2>2. XorSum(f, n) \in Byte
      BY <1>1, <2>1, SumFacts
  <2> QED
      BY <1>2, <2>2 DEF f
<1> QED
    BY <1>1, <1>2, <1>3, <1>4

\* The coefficients of a sum,
LEMMA AddScaledFacts ==
    ASSUME NEW p \in Polys, NEW x \in Byte, NEW q \in Polys
    PROVE  /\ AddScaled(p, x, q) \in Polys
           /\ \A d \in Degrees : AddScaled(p, x, q)[d] = Xor(p[d], gmult(x, q[d]))
<1>1. \A d \in Degrees : AddScaled(p, x, q)[d] = Xor(p[d], gmult(x, q[d]))
    BY DEF AddScaled
<1>2. ASSUME NEW d \in Degrees PROVE Xor(p[d], gmult(x, q[d])) \in Byte
  <2>1. p[d] \in Byte /\ q[d] \in Byte
      BY DEF Polys
  <2>2. gmult(x, q[d]) \in Byte
      BY <2>1, MultFacts
  <2> QED
      BY <2>1, <2>2, XorFacts
<1>3. AddScaled(p, x, q) \in Polys
    BY <1>2 DEF AddScaled, Polys
<1> QED
    BY <1>1, <1>3

\* of a multiple,
LEMMA ScaleFacts ==
    ASSUME NEW p \in Polys, NEW x \in Byte
    PROVE  Scale(x, p) \in Polys /\ \A d \in Degrees : Scale(x, p)[d] = gmult(x, p[d])
<1>1. \A d \in Degrees : Scale(x, p)[d] = gmult(x, p[d])
    BY DEF Scale
<1>2. \A d \in Degrees : p[d] \in Byte
    BY DEF Polys
<1>3. \A d \in Degrees : gmult(x, p[d]) \in Byte
    BY <1>2, MultFacts
<1>4. Scale(x, p) \in Polys
    BY <1>3 DEF Scale, Polys
<1> QED
    BY <1>1, <1>4

\* and of a multiple of z.
LEMMA ShiftedFacts ==
    ASSUME NEW p \in Polys
    PROVE  /\ mul_z_poly(p) \in Polys
           /\ mul_z_poly(p)[0] = 0
           /\ \A d \in Degrees : d # 0 => mul_z_poly(p)[d] = p[d - 1]
<1>1. \A d \in Degrees : mul_z_poly(p)[d] = IF d = 0 THEN 0 ELSE p[d - 1]
    BY DEF mul_z_poly
<1>2. 0 \in Degrees
    BY DegreeFacts
<1>3. ASSUME NEW d \in Degrees PROVE (IF d = 0 THEN 0 ELSE p[d - 1]) \in Byte
  <2>1. d # 0 => d - 1 \in Degrees
      BY DegreeFacts
  <2> QED
      BY <2>1, SmallBytes DEF Polys
<1>4. mul_z_poly(p) \in Polys
    BY <1>3 DEF mul_z_poly, Polys
<1> QED
    BY <1>1, <1>2, <1>4

\* The product is linear.
LEMMA ProductOfSum ==
    ASSUME NEW p \in Polys, NEW x \in Byte, NEW q \in Polys, NEW S \in Polys, NEW n \in Degrees
    PROVE  MultAt(AddScaled(p, x, q), S, n) = Xor(MultAt(p, S, n), gmult(x, MultAt(q, S, n)))
<1> DEFINE r == AddScaled(p, x, q)
           f == ProductTerms(p, S, n)
           g == ProductTerms(q, S, n)
           h == ProductTerms(r, S, n)
           gx == [i \in 0 .. n |-> gmult(x, g[i])]
<1>1. n \in Nat /\ r \in Polys
    BY ProductTermBytes, AddScaledFacts
<1>2. /\ MultAt(p, S, n) = XorSum(f, n)
      /\ \A i \in 0 .. n : /\ f[i] = gmult(p[i], S[n - i]) /\ f[i] \in Byte /\ p[i] \in Byte
                           /\ S[n - i] \in Byte /\ i \in Degrees
    BY ProductTermBytes
<1>3. /\ MultAt(q, S, n) = XorSum(g, n)
      /\ \A i \in 0 .. n : g[i] = gmult(q[i], S[n - i]) /\ g[i] \in Byte /\ q[i] \in Byte
    BY ProductTermBytes
<1>4. /\ MultAt(r, S, n) = XorSum(h, n)
      /\ \A i \in 0 .. n : h[i] = gmult(r[i], S[n - i])
  <2> HIDE DEF r
  <2> QED
      BY <1>1, ProductTermBytes
<1>5. \A i \in 0 .. n : gx[i] = gmult(x, g[i])
    OBVIOUS
<1>6. \A d \in Degrees : r[d] = Xor(p[d], gmult(x, q[d]))
    BY AddScaledFacts
<1> HIDE DEF r, f, g, h, gx
<1>7. \A i \in 0 .. n : gx[i] \in Byte
    BY <1>3, <1>5, MultFacts
<1>8. ASSUME NEW i \in 0 .. n PROVE h[i] = Xor(f[i], gx[i])
  <2> DEFINE a == p[i]
             b == q[i]
             c == S[n - i]
  <2>1. a \in Byte /\ b \in Byte /\ c \in Byte
      BY <1>2, <1>3
  <2>2. h[i] = gmult(Xor(a, gmult(x, b)), c) /\ f[i] = gmult(a, c) /\ gx[i] = gmult(x, gmult(b, c))
      BY <1>2, <1>3, <1>4, <1>5, <1>6
  <2> HIDE DEF a, b, c
  <2>3. gmult(x, b) \in Byte
      BY <2>1, MultFacts
  <2>4. Xor(a, gmult(x, b)) \in Byte
      BY <2>1, <2>3, XorFacts
  <2>5. gmult(Xor(a, gmult(x, b)), c) = gmult(c, Xor(a, gmult(x, b)))
      BY <2>1, <2>4, MultFacts
  <2>6. gmult(c, Xor(a, gmult(x, b))) = Xor(gmult(c, a), gmult(c, gmult(x, b)))
      BY <2>1, <2>3, MultDistributes
  <2>7. gmult(c, a) = gmult(a, c) /\ gmult(c, gmult(x, b)) = gmult(gmult(x, b), c)
      BY <2>1, <2>3, MultFacts
  <2>8. gmult(gmult(x, b), c) = gmult(x, gmult(b, c))
      BY <2>1, MultAssociative
  <2> QED
      BY <2>2, <2>5, <2>6, <2>7, <2>8
<1>9. \A i \in 0 .. n : f[i] \in Byte
    BY <1>2
<1>10. \A i \in 0 .. n : g[i] \in Byte
    BY <1>3
<1>11. XorSum(gx, n) = gmult(x, XorSum(g, n))
    BY <1>1, <1>5, <1>10, SumScaled
<1>12. XorSum(h, n) = Xor(XorSum(f, n), XorSum(gx, n))
    BY <1>1, <1>7, <1>8, <1>9, SumOfTwo
<1> QED
    BY <1>2, <1>3, <1>4, <1>11, <1>12 DEF r

\* A multiple has the multiples as coefficients.
LEMMA ProductOfScaled ==
    ASSUME NEW p \in Polys, NEW x \in Byte, NEW S \in Polys, NEW n \in Degrees
    PROVE  MultAt(Scale(x, p), S, n) = gmult(x, MultAt(p, S, n))
<1> DEFINE q == Scale(x, p)
           f == ProductTerms(p, S, n)
           h == ProductTerms(q, S, n)
<1>1. n \in Nat /\ q \in Polys /\ \A d \in Degrees : q[d] = gmult(x, p[d])
    BY ProductTermBytes, ScaleFacts
<1>2. /\ MultAt(p, S, n) = XorSum(f, n)
      /\ \A i \in 0 .. n : /\ f[i] = gmult(p[i], S[n - i]) /\ f[i] \in Byte /\ p[i] \in Byte
                           /\ S[n - i] \in Byte /\ i \in Degrees
    BY ProductTermBytes
<1>3. MultAt(q, S, n) = XorSum(h, n) /\ \A i \in 0 .. n : h[i] = gmult(q[i], S[n - i])
  <2> HIDE DEF q
  <2> QED
      BY <1>1, ProductTermBytes
<1> HIDE DEF q, f, h
<1>4. ASSUME NEW i \in 0 .. n PROVE h[i] = gmult(x, f[i])
  <2>1. p[i] \in Byte /\ S[n - i] \in Byte
      BY <1>2
  <2>2. h[i] = gmult(gmult(x, p[i]), S[n - i]) /\ f[i] = gmult(p[i], S[n - i])
      BY <1>1, <1>2, <1>3
  <2> QED
      BY <2>1, <2>2, MultAssociative
<1>5. \A i \in 0 .. n : f[i] \in Byte
    BY <1>2
<1>6. XorSum(h, n) = gmult(x, XorSum(f, n))
    BY <1>1, <1>4, <1>5, SumScaled
<1> QED
    BY <1>2, <1>3, <1>6 DEF q

\* A multiple of z has them one degree further.
LEMMA ProductOfShifted ==
    ASSUME NEW p \in Polys, NEW S \in Polys, NEW n \in Nat, n + 1 \in Degrees
    PROVE  MultAt(mul_z_poly(p), S, n + 1) = MultAt(p, S, n)
<1> DEFINE q == mul_z_poly(p)
           f == ProductTerms(q, S, n + 1)
           g == ProductTerms(p, S, n)
<1>1. n \in Degrees /\ q \in Polys /\ q[0] = 0 /\ \A d \in Degrees : d # 0 => q[d] = p[d - 1]
    BY DegreeFacts, ShiftedFacts
<1>2. /\ MultAt(p, S, n) = XorSum(g, n)
      /\ \A i \in 0 .. n : g[i] = gmult(p[i], S[n - i]) /\ g[i] \in Byte
    BY <1>1, ProductTermBytes
<1>3. /\ MultAt(q, S, n + 1) = XorSum(f, n + 1)
      /\ \A i \in 0 .. n + 1 : f[i] = gmult(q[i], S[(n + 1) - i]) /\ i \in Degrees
  <2> HIDE DEF q
  <2> QED
      BY <1>1, ProductTermBytes
<1> HIDE DEF q, f, g
<1>4. f[0] = 0
  <2>1. 0 \in 0 .. n + 1
      OBVIOUS
  <2> QED
      BY <1>1, <1>3, <2>1, MultFacts
<1>5. ASSUME NEW i \in 0 .. n PROVE f[i + 1] = g[i]
  <2>1. i + 1 \in 0 .. n + 1 /\ i + 1 # 0 /\ (i + 1) - 1 = i /\ (n + 1) - (i + 1) = n - i
      OBVIOUS
  <2>2. f[i + 1] = gmult(q[i + 1], S[(n + 1) - (i + 1)]) /\ i + 1 \in Degrees
      BY <1>3, <2>1
  <2>3. q[i + 1] = p[i]
      BY <1>1, <2>1, <2>2
  <2> QED
      BY <1>2, <2>1, <2>2, <2>3
<1>6. \A i \in 0 .. n : g[i] \in Byte
    BY <1>2
<1>7. XorSum(f, n + 1) = XorSum(g, n)
    BY <1>4, <1>5, <1>6, SumShift
<1> QED
    BY <1>2, <1>3, <1>7 DEF q

-----------------------------------------------------------------------------
(* Berlekamp-Massey.                                                       *)

\* After n passes: psi makes zeros of the syndrome from its degree on, and D is
\* what can be added to it to make another zero.
MasseyInv(S, n, psi, D, L) ==
    /\ psi \in Polys /\ D \in Polys /\ L \in 0 .. n
    /\ psi[0] = 1 /\ \A i \in Degrees : i > L => psi[i] = 0
    /\ \A m \in L .. n - 1 : MultAt(psi, S, m) = 0
    /\ D[0] = 0 /\ \A i \in Degrees : i > (n + 1) - L => D[i] = 0
    /\ L > 0 => /\ \A m \in (n + 1) - L .. n - 1 : MultAt(D, S, m) = 0
                /\ MultAt(D, S, n) = 1

\* So it is before the first pass.
LEMMA MasseyStart ==
    ASSUME NEW S \in Polys
    PROVE  MasseyInv(S, 0, One, mul_z_poly(One), 0)
<1>1. One \in Polys /\ One[0] = 1 /\ \A d \in Degrees : d > 0 => One[d] = 0
    BY OneIsProduct DEF IsProduct, Polys
<1>2. mul_z_poly(One) \in Polys /\ mul_z_poly(One)[0] = 0
      /\ \A d \in Degrees : d # 0 => mul_z_poly(One)[d] = One[d - 1]
    BY <1>1, ShiftedFacts
<1>3. ASSUME NEW i \in Degrees, i > (0 + 1) - 0 PROVE mul_z_poly(One)[i] = 0
  <2>1. i # 0 /\ i - 1 > 0 /\ i - 1 \in Degrees
      BY <1>3, DegreeFacts
  <2> QED
      BY <1>1, <1>2, <2>1
<1> QED
    BY <1>1, <1>2, <1>3 DEF MasseyInv

\* What compute_discrepancy finds is the next coefficient.
LEMMA DiscrepancyIs ==
    ASSUME NEW S \in Polys, NEW psi \in Polys, NEW n \in Degrees, NEW L \in 0 .. n,
           \A i \in Degrees : i > L => psi[i] = 0
    PROVE  Discrepancy(psi, S, L, n) = MultAt(psi, S, n)
<1> DEFINE f == ProductTerms(psi, S, n)
           g == [i \in 0 .. L |-> gmult(psi[i], S[n - i])]
<1>1. n \in Nat /\ L \in Nat /\ MultAt(psi, S, n) = XorSum(f, n)
      /\ \A i \in 0 .. n : f[i] = gmult(psi[i], S[n - i]) /\ f[i] \in Byte /\ i \in Degrees
    BY ProductTermBytes
<1>2. Discrepancy(psi, S, L, n) = XorSum(g, L)
    BY DEF Discrepancy
<1>3. \A i \in 0 .. L : g[i] = gmult(psi[i], S[n - i])
    OBVIOUS
<1> HIDE DEF f, g
<1>4. \A i \in 0 .. L : i \in 0 .. n
    BY <1>1
<1>5. \A i \in 0 .. L : f[i] \in Byte /\ g[i] = f[i]
    BY <1>1, <1>3, <1>4
<1>6. XorSum(g, L) = XorSum(f, L)
    BY <1>1, <1>5, SumSame
<1>7. \A i \in L + 1 .. n : f[i] = 0
  <2> SUFFICES ASSUME NEW i \in L + 1 .. n PROVE f[i] = 0
      OBVIOUS
  <2>1. i \in 0 .. n /\ i > L
      BY <1>1
  <2>2. psi[i] = 0 /\ f[i] = gmult(psi[i], S[n - i])
      BY <1>1, <2>1
  <2> QED
      BY <2>2, MultFacts
<1>8. \A i \in 0 .. n : f[i] \in Byte
    BY <1>1
<1>9. XorSum(f, n) = XorSum(f, L)
    BY <1>1, <1>7, <1>8, SumExtended
<1> QED
    BY <1>1, <1>2, <1>6, <1>9

-----------------------------------------------------------------------------
\* The polynomials after a pass.
LEMMA MasseyPolys ==
    ASSUME NEW S \in Polys, NEW n \in 0 .. NPAR - 1, NEW psi, NEW D, NEW L,
           MasseyInv(S, n, psi, D, L), NEW d, d = Discrepancy(psi, S, L, n)
    PROVE  /\ d \in Byte /\ d = MultAt(psi, S, n)
           /\ AddScaled(psi, d, D) \in Polys
           /\ AddScaled(psi, d, D)[0] = 1
           /\ \A i \in Degrees : i > L /\ i > (n + 1) - L => AddScaled(psi, d, D)[i] = 0
           /\ \A m \in 0 .. n : MultAt(AddScaled(psi, d, D), S, m)
                                  = Xor(MultAt(psi, S, m), gmult(d, MultAt(D, S, m)))
<1>1. /\ psi \in Polys /\ D \in Polys /\ L \in 0 .. n
      /\ psi[0] = 1 /\ \A i \in Degrees : i > L => psi[i] = 0
      /\ D[0] = 0 /\ \A i \in Degrees : i > (n + 1) - L => D[i] = 0
    BY DEF MasseyInv
<1>2. n \in Nat /\ n \in Degrees /\ 0 \in Degrees /\ \A m \in 0 .. n : m \in Degrees
    BY DegreeFacts
<1>3. d = MultAt(psi, S, n)
    BY <1>1, <1>2, DiscrepancyIs
<1>4. d \in Byte
    BY <1>1, <1>2, <1>3, ProductTermBytes
<1>5. /\ AddScaled(psi, d, D) \in Polys
      /\ \A i \in Degrees : AddScaled(psi, d, D)[i] = Xor(psi[i], gmult(d, D[i]))
    BY <1>1, <1>4, AddScaledFacts
<1>6. gmult(d, 0) = 0 /\ Xor(1, 0) = 1 /\ Xor(0, 0) = 0
    BY MultFacts, XorFacts, SmallBytes
<1>7. AddScaled(psi, d, D)[0] = 1
    BY <1>1, <1>2, <1>5, <1>6
<1>8. \A i \in Degrees : i > L /\ i > (n + 1) - L => AddScaled(psi, d, D)[i] = 0
    BY <1>1, <1>5, <1>6
<1>9. \A m \in 0 .. n : MultAt(AddScaled(psi, d, D), S, m)
                          = Xor(MultAt(psi, S, m), gmult(d, MultAt(D, S, m)))
    BY <1>1, <1>2, <1>4, ProductOfSum
<1> QED
    BY <1>3, <1>4, <1>5, <1>7, <1>8, <1>9

\* A pass that does not lengthen the register.
LEMMA MasseyKept ==
    ASSUME NEW S \in Polys, NEW n \in 0 .. NPAR - 1, NEW psi, NEW D, NEW L,
           MasseyInv(S, n, psi, D, L), NEW d, d = Discrepancy(psi, S, L, n),
           ~ (d # 0 /\ 2 * L <= n)
    PROVE  MasseyInv(S, n + 1, AddScaled(psi, d, D), mul_z_poly(D), L)
<1> DEFINE psi1 == AddScaled(psi, d, D)
           D1 == mul_z_poly(D)
<1>1. /\ psi \in Polys /\ D \in Polys /\ L \in 0 .. n
      /\ \A i \in Degrees : i > L => psi[i] = 0
      /\ \A m \in L .. n - 1 : MultAt(psi, S, m) = 0
      /\ \A i \in Degrees : i > (n + 1) - L => D[i] = 0
      /\ L > 0 => /\ \A m \in (n + 1) - L .. n - 1 : MultAt(D, S, m) = 0
                  /\ MultAt(D, S, n) = 1
    BY DEF MasseyInv
<1>2. n \in Nat /\ n + 1 \in Degrees /\ L \in Nat /\ \A m \in 0 .. n : m + 1 \in Degrees /\ m \in Nat
    BY <1>1, DegreeFacts
<1>3. /\ d \in Byte /\ d = MultAt(psi, S, n)
      /\ psi1 \in Polys /\ psi1[0] = 1
      /\ \A i \in Degrees : i > L /\ i > (n + 1) - L => psi1[i] = 0
      /\ \A m \in 0 .. n : MultAt(psi1, S, m) = Xor(MultAt(psi, S, m), gmult(d, MultAt(D, S, m)))
    BY MasseyPolys
<1>4. \A i \in Degrees : psi1[i] = Xor(psi[i], gmult(d, D[i]))
    BY <1>1, <1>3, AddScaledFacts
<1>5. /\ D1 \in Polys /\ D1[0] = 0
      /\ \A i \in Degrees : i # 0 => D1[i] = D[i - 1]
    BY <1>1, ShiftedFacts
<1>6. \A m \in 0 .. n : MultAt(D1, S, m + 1) = MultAt(D, S, m)
    BY <1>1, <1>2, ProductOfShifted
<1>7. \A m \in 0 .. n : MultAt(D, S, m) \in Byte
  <2>1. \A m \in 0 .. n : m \in Degrees
      BY DegreeFacts
  <2> QED
      BY <1>1, <2>1, ProductTermBytes
<1> HIDE DEF psi1, D1
<1>8. Xor(0, 0) = 0 /\ gmult(d, 0) = 0 /\ gmult(d, 1) = d /\ Xor(d, d) = 0
    BY <1>3, MultFacts, XorFacts, SmallBytes
<1>9. \A i \in Degrees : i > (n + 2) - L => D1[i] = 0
  <2> SUFFICES ASSUME NEW i \in Degrees, i > (n + 2) - L PROVE D1[i] = 0
      OBVIOUS
  <2>1. i # 0 /\ i - 1 \in Degrees /\ i - 1 > (n + 1) - L
      BY <1>1, <1>2, DegreeFacts
  <2> QED
      BY <1>1, <1>5, <2>1
<1>10. L > 0 => /\ \A m \in (n + 2) - L .. n : MultAt(D1, S, m) = 0
                /\ MultAt(D1, S, n + 1) = 1
  <2> SUFFICES ASSUME L > 0
               PROVE  /\ \A m \in (n + 2) - L .. n : MultAt(D1, S, m) = 0
                      /\ MultAt(D1, S, n + 1) = 1
      OBVIOUS
  <2>1. MultAt(D1, S, n + 1) = 1
      BY <1>1, <1>2, <1>6
  <2>2. ASSUME NEW m \in (n + 2) - L .. n PROVE MultAt(D1, S, m) = 0
    <3>1. m - 1 \in 0 .. n /\ m - 1 \in (n + 1) - L .. n - 1 /\ (m - 1) + 1 = m
        BY <1>1, <1>2
    <3>2. MultAt(D1, S, (m - 1) + 1) = MultAt(D, S, m - 1)
        BY <1>6, <3>1
    <3> QED
        BY <1>1, <3>1, <3>2
  <2> QED
      BY <2>1, <2>2
<1>11. \A i \in Degrees : i > L => psi1[i] = 0
  <2> SUFFICES ASSUME NEW i \in Degrees, i > L PROVE psi1[i] = 0
      OBVIOUS
  <2>1. CASE d = 0
    <3>1. psi[i] = 0 /\ psi1[i] = Xor(psi[i], gmult(0, D[i]))
        BY <1>1, <1>4, <2>1
    <3>2. gmult(0, D[i]) = 0
        BY MultFacts
    <3> QED
        BY <1>8, <3>1, <3>2
  <2>2. CASE d # 0
    <3>1. 2 * L > n
        BY <1>2, <2>2
    <3>2. i > (n + 1) - L
        BY <1>2, <3>1, DegreeFacts
    <3> QED
        BY <1>3, <3>2
  <2> QED
      BY <2>1, <2>2
<1>12. \A m \in L .. n : MultAt(psi1, S, m) = 0
  <2> SUFFICES ASSUME NEW m \in L .. n PROVE MultAt(psi1, S, m) = 0
      OBVIOUS
  <2>1. m \in 0 .. n /\ (m = n \/ m \in L .. n - 1)
      BY <1>2
  <2>2. MultAt(psi1, S, m) = Xor(MultAt(psi, S, m), gmult(d, MultAt(D, S, m)))
      BY <1>3, <2>1
  <2>3. CASE d = 0
    <3>1. MultAt(psi, S, m) = 0
        BY <1>1, <1>3, <2>1, <2>3
    <3>2. gmult(d, MultAt(D, S, m)) = 0
        BY <2>3, MultFacts
    <3> QED
        BY <1>8, <2>2, <3>1, <3>2
  <2>4. CASE d # 0
    <3>1. 2 * L > n
        BY <1>2, <2>4
    <3>2. L > 0 /\ (m # n => m \in (n + 1) - L .. n - 1)
        BY <1>2, <2>1, <3>1
    <3>3. CASE m = n
        BY <1>1, <1>3, <1>8, <2>2, <3>2, <3>3
    <3>4. CASE m # n
        BY <1>1, <1>8, <2>1, <2>2, <3>2, <3>4
    <3> QED
        BY <3>3, <3>4
  <2> QED
      BY <2>3, <2>4
<1>13. MasseyInv(S, n + 1, psi1, D1, L)
  <2>1. (n + 1) + 1 = n + 2 /\ (n + 1) - 1 = n /\ L \in 0 .. n + 1
      BY <1>1, <1>2
  <2> QED
      BY <1>3, <1>5, <1>9, <1>10, <1>11, <1>12, <2>1 DEF MasseyInv
<1> QED
    BY <1>13 DEF psi1, D1

\* A pass that does.
LEMMA MasseyLonger ==
    ASSUME NEW S \in Polys, NEW n \in 0 .. NPAR - 1, NEW psi, NEW D, NEW L,
           MasseyInv(S, n, psi, D, L), NEW d, d = Discrepancy(psi, S, L, n),
           d # 0, 2 * L <= n
    PROVE  MasseyInv(S, n + 1, AddScaled(psi, d, D), mul_z_poly(Scale(ginv(d), psi)), (n + 1) - L)
<1> DEFINE psi1 == AddScaled(psi, d, D)
           x == ginv(d)
           B == Scale(x, psi)
           D1 == mul_z_poly(B)
           L1 == (n + 1) - L
<1>1. /\ psi \in Polys /\ D \in Polys /\ L \in 0 .. n
      /\ \A i \in Degrees : i > L => psi[i] = 0
      /\ \A m \in L .. n - 1 : MultAt(psi, S, m) = 0
      /\ L > 0 => /\ \A m \in (n + 1) - L .. n - 1 : MultAt(D, S, m) = 0
                  /\ MultAt(D, S, n) = 1
    BY DEF MasseyInv
<1>2. n \in Nat /\ n + 1 \in Degrees /\ L \in Nat /\ \A m \in 0 .. n : m + 1 \in Degrees /\ m \in Nat
    BY <1>1, DegreeFacts
<1>3. /\ d \in Byte /\ d = MultAt(psi, S, n)
      /\ psi1 \in Polys /\ psi1[0] = 1
      /\ \A i \in Degrees : i > L /\ i > (n + 1) - L => psi1[i] = 0
      /\ \A m \in 0 .. n : MultAt(psi1, S, m) = Xor(MultAt(psi, S, m), gmult(d, MultAt(D, S, m)))
    BY MasseyPolys
<1>4. x \in Byte /\ gmult(d, x) = 1 /\ gmult(x, d) = 1
  <2>1. d \in Byte \ {0}
      BY <1>3
  <2>2. x \in Byte /\ gmult(d, x) = 1
      BY <2>1, InverseFacts
  <2>3. gmult(d, x) = gmult(x, d)
      BY <1>3, <2>2, MultFacts
  <2> QED
      BY <2>2, <2>3
<1> HIDE DEF x
<1>5. B \in Polys /\ \A i \in Degrees : B[i] = gmult(x, psi[i])
    BY <1>1, <1>4, ScaleFacts
<1>6. \A m \in 0 .. n : MultAt(B, S, m) = gmult(x, MultAt(psi, S, m))
  <2>1. \A m \in 0 .. n : m \in Degrees
      BY DegreeFacts
  <2> QED
      BY <1>1, <1>4, <2>1, ProductOfScaled
<1> HIDE DEF B
<1>7. /\ D1 \in Polys /\ D1[0] = 0
      /\ \A i \in Degrees : i # 0 => D1[i] = B[i - 1]
    BY <1>5, ShiftedFacts
<1>8. \A m \in 0 .. n : MultAt(D1, S, m + 1) = MultAt(B, S, m)
    BY <1>2, <1>5, ProductOfShifted
<1> HIDE DEF psi1, D1
<1>9. gmult(x, 0) = 0 /\ Xor(0, 0) = 0 /\ gmult(d, 0) = 0 /\ gmult(d, 1) = d /\ Xor(d, d) = 0
    BY <1>3, MultFacts, XorFacts, SmallBytes
<1>10. L1 \in 0 .. n + 1 /\ L1 > 0 /\ (n + 2) - L1 = L + 1 /\ L <= L1
    BY <1>1, <1>2
<1>11. \A i \in Degrees : i > L + 1 => D1[i] = 0
  <2> SUFFICES ASSUME NEW i \in Degrees, i > L + 1 PROVE D1[i] = 0
      OBVIOUS
  <2>1. i # 0 /\ i - 1 \in Degrees /\ i - 1 > L
      BY <1>2, DegreeFacts
  <2> QED
      BY <1>1, <1>5, <1>7, <1>9, <2>1
<1>12. MultAt(D1, S, n + 1) = 1
  <2>1. n \in 0 .. n
      BY <1>2
  <2> QED
      BY <1>3, <1>4, <1>6, <1>8, <2>1
<1>13. \A m \in L + 1 .. n : MultAt(D1, S, m) = 0
  <2> SUFFICES ASSUME NEW m \in L + 1 .. n PROVE MultAt(D1, S, m) = 0
      OBVIOUS
  <2>1. m - 1 \in 0 .. n /\ m - 1 \in L .. n - 1 /\ (m - 1) + 1 = m
      BY <1>1, <1>2
  <2>2. MultAt(D1, S, (m - 1) + 1) = MultAt(B, S, m - 1)
        /\ MultAt(B, S, m - 1) = gmult(x, MultAt(psi, S, m - 1))
      BY <1>6, <1>8, <2>1
  <2> QED
      BY <1>1, <1>9, <2>1, <2>2
<1>14. \A i \in Degrees : i > L1 => psi1[i] = 0
  <2>1. \A i \in Degrees : i > L1 => i > L
      BY <1>1, <1>10, DegreeFacts
  <2> QED
      BY <1>3, <2>1
<1>15. \A m \in L1 .. n : MultAt(psi1, S, m) = 0
  <2> SUFFICES ASSUME NEW m \in L1 .. n PROVE MultAt(psi1, S, m) = 0
      OBVIOUS
  <2>1. /\ m \in 0 .. n /\ L > 0
        /\ m # n => m \in L .. n - 1 /\ m \in (n + 1) - L .. n - 1
      BY <1>1, <1>2, <1>10
  <2>2. MultAt(psi1, S, m) = Xor(MultAt(psi, S, m), gmult(d, MultAt(D, S, m)))
      BY <1>3, <2>1
  <2>3. CASE m = n
      BY <1>1, <1>3, <1>9, <2>1, <2>2, <2>3
  <2>4. CASE m # n
      BY <1>1, <1>9, <2>1, <2>2, <2>4
  <2> QED
      BY <2>3, <2>4
<1> HIDE DEF L1
<1>16. MasseyInv(S, n + 1, psi1, D1, L1)
  <2>1. (n + 1) + 1 = n + 2 /\ (n + 1) - 1 = n /\ (n + 1) - L1 = (n + 2) - L1 - 1
      BY <1>2, <1>10
  <2> QED
      BY <1>3, <1>7, <1>10, <1>11, <1>12, <1>13, <1>14, <1>15, <2>1 DEF MasseyInv
<1> QED
    BY <1>16 DEF psi1, D1, B, x, L1

-----------------------------------------------------------------------------
(* How long the register can be.                                           *)

\* Weights at the places of the errors.
LEMMA ResidueSupport ==
    ASSUME NEW p \in Polys, NEW E \in Weights, NEW d \in Degrees
    PROVE  Cardinality(Support(Residue(p, E, d))) <= Cardinality(Support(E))
<1>1. Support(Residue(p, E, d)) \subseteq Support(E)
  <2> SUFFICES ASSUME NEW i \in Places, E[i] = 0 PROVE Residue(p, E, d)[i] = 0
      BY DEF Support
  <2>1. Residue(p, E, d)[i] = gmult(gmult(0, gexp(i)), Quotient(p, gexp(i))[d])
      BY ResidueFacts
  <2>2. gmult(0, gexp(i)) = 0
      BY MultFacts
  <2>3. gmult(0, Quotient(p, gexp(i))[d]) = 0
      BY MultFacts
  <2> QED
      BY <2>1, <2>2, <2>3
<1> QED
    BY <1>1, SupportFinite, FS_Subset

\* If the product with the syndrome is 0 at as many degrees as there are errors, from
\* the degree of p on, nothing is left of the division at any place.
LEMMA NothingLeft ==
    ASSUME NEW p \in Polys, NEW E \in Weights, NEW S, IsSyndrome(S, E), NEW L \in Degrees,
           \A d \in Degrees : d > L => p[d] = 0,
           NEW v \in Nat, Cardinality(Support(E)) <= v, L + v <= NPAR,
           \A m \in L .. L + v - 1 : MultAt(p, S, m) = 0
    PROVE  \A i \in Places : Residue(p, E, L)[i] = 0
<1> DEFINE w == Residue(p, E, L)
<1>1. w \in Weights
    BY ResidueFacts
<1>2. L \in Nat
    BY DegreeFacts
<1>3. \A s \in 0 .. v - 1 : Moment(w, s) = 0
  <2> SUFFICES ASSUME NEW s \in 0 .. v - 1 PROVE Moment(w, s) = 0
      OBVIOUS
  <2>1. s \in Nat /\ L + s < NPAR /\ L + s \in L .. L + v - 1
      BY <1>2, DegreeFacts
  <2>2. MultAt(p, S, L + s) = Moment(w, s)
      BY <2>1, ProductTail
  <2> QED
      BY <2>1, <2>2
<1>4. Cardinality(Support(w)) <= v
  <2>1. Cardinality(Support(w)) <= Cardinality(Support(E))
      BY ResidueSupport
  <2> HIDE DEF w
  <2> QED
      BY <2>1, SupportFinite
<1> HIDE DEF w
<1>5. \A i \in Places : w[i] = 0
    BY <1>1, <1>3, <1>4, Vandermonde
<1> QED
    BY <1>5 DEF w

\* A register of a length that cannot be told apart from the errors is not made.
LEMMA NotTooLong ==
    ASSUME NEW S \in Polys, NEW n \in 0 .. NPAR - 1, NEW psi, NEW D, NEW L,
           MasseyInv(S, n, psi, D, L), MultAt(psi, S, n) # 0,
           NEW E \in Weights, IsSyndrome(S, E)
    PROVE  (n + 1) - L <= Cardinality(Support(E))
<1> DEFINE v == Cardinality(Support(E))
           w == Residue(psi, E, L)
<1>1. /\ psi \in Polys /\ L \in 0 .. n
      /\ \A i \in Degrees : i > L => psi[i] = 0
      /\ \A m \in L .. n - 1 : MultAt(psi, S, m) = 0
    BY DEF MasseyInv
<1>2. v \in Nat
    BY SupportFinite
<1> HIDE DEF v
<1>3. n \in Nat /\ L \in Nat /\ L \in Degrees /\ n - L \in Nat /\ L + (n - L) = n /\ n < NPAR
    BY <1>1, DegreeFacts
<1>4. ASSUME n - L >= v PROVE FALSE
  <2>1. L + v <= NPAR /\ \A m \in L .. L + v - 1 : m \in L .. n - 1
      BY <1>2, <1>3, <1>4, DegreeFacts
  <2>2. \A m \in L .. L + v - 1 : MultAt(psi, S, m) = 0
      BY <1>1, <2>1
  <2>3. Cardinality(Support(E)) <= v
      BY <1>2 DEF v
  <2>4. \A i \in Places : w[i] = 0
      BY <1>1, <1>2, <1>3, <2>1, <2>2, <2>3, NothingLeft
  <2>5. MultAt(psi, S, L + (n - L)) = Moment(w, n - L)
      BY <1>1, <1>3, ProductTail
  <2>6. w \in Weights
      BY <1>1, <1>3, ResidueFacts
  <2> HIDE DEF w
  <2>7. \A i \in 0 .. LastPlace : MomentTerms(w, n - L)[i] = 0
    <3>1. \A i \in Places : MomentTerms(w, n - L)[i] = gmult(0, gexp(i * (n - L)))
        BY <1>3, <2>4, <2>6, MomentTermBytes
    <3>2. \A i \in Places : gmult(0, gexp(i * (n - L))) = 0
        BY MultFacts
    <3> QED
        BY <3>1, <3>2, PlacesAre
  <2>8. XorSum(MomentTerms(w, n - L), LastPlace) = 0
      BY <2>7, PlacesAre, SumZero
  <2>9. Moment(w, n - L) = 0
      BY <2>8 DEF Moment
  <2> QED
      BY <1>3, <2>5, <2>9
<1>5. n - L < v
    BY <1>2, <1>3, <1>4
<1> QED
    BY <1>2, <1>3, <1>5 DEF v

-----------------------------------------------------------------------------
(* The places and what is wrong there.                                     *)

\* At the end, the errors are no more than the syndrome can tell apart, and the
\* register is no longer than they are many.
IsLocator(S, E, psi, L) ==
    /\ E \in Weights /\ IsSyndrome(S, E)
    /\ 2 * Cardinality(Support(E)) <= NPAR
    /\ psi \in Polys /\ L \in Nat /\ L <= Cardinality(Support(E))
    /\ psi[0] = 1 /\ \A i \in Degrees : i > L => psi[i] = 0
    /\ \A m \in L .. NPAR - 1 : MultAt(psi, S, m) = 0

\* Nothing is left of the division at the place of an error, from degree L on.
LEMMA LocatorQuotients ==
    ASSUME NEW S, NEW E, NEW psi, NEW L, IsLocator(S, E, psi, L), NEW i \in Support(E)
    PROVE  /\ i \in Places /\ E[i] \in Byte \ {0}
           /\ L \in Degrees
           /\ \A d \in Degrees : d >= L => Quotient(psi, gexp(i))[d] = 0
<1> DEFINE v == Cardinality(Support(E))
           x == gexp(i)
           h == Quotient(psi, x)
<1>1. /\ E \in Weights /\ IsSyndrome(S, E) /\ 2 * v <= NPAR
      /\ psi \in Polys /\ L \in Nat /\ L <= v
      /\ \A d \in Degrees : d > L => psi[d] = 0
      /\ \A m \in L .. NPAR - 1 : MultAt(psi, S, m) = 0
    BY DEF IsLocator
<1>2. v \in Nat
    BY SupportFinite
<1>3. i \in Places /\ E[i] \in Byte \ {0}
    BY <1>1 DEF Support, Weights
<1>4. x \in Byte \ {0} /\ x \in Byte
    BY <1>3, PlaceFacts
<1>5. h \in Polys /\ \A d \in Degrees : d # 0 => h[d] = Xor(psi[d], gmult(x, h[d - 1]))
    BY <1>1, <1>4, QuotientFacts DEF IsQuotient
<1> HIDE DEF v
<1>6. L \in Degrees /\ L + v <= NPAR
    BY <1>1, <1>2, DegreeFacts
<1>7. Residue(psi, E, L)[i] = 0
  <2>1. Cardinality(Support(E)) <= v
      BY <1>2 DEF v
  <2>2. \A m \in L .. L + v - 1 : MultAt(psi, S, m) = 0
      BY <1>1, <1>2, <1>6, DegreeFacts
  <2>3. \A j \in Places : Residue(psi, E, L)[j] = 0
      BY <1>1, <1>2, <1>6, <2>1, <2>2, NothingLeft
  <2> QED
      BY <1>3, <2>3
<1>8. h[L] = 0
  <2>1. Residue(psi, E, L)[i] = gmult(gmult(E[i], x), h[L])
      BY <1>1, <1>3, <1>6, ResidueFacts
  <2>2. h[L] \in Byte
      BY <1>5, <1>6 DEF Polys
  <2> HIDE DEF x, h
  <2>3. gmult(E[i], x) \in Byte \ {0}
      BY <1>3, <1>4, MultNonzero
  <2>4. ASSUME h[L] # 0 PROVE FALSE
    <3>1. h[L] \in Byte \ {0}
        BY <2>2, <2>4
    <3>2. gmult(gmult(E[i], x), h[L]) \in Byte \ {0}
        BY <2>3, <3>1, MultNonzero
    <3> QED
        BY <1>7, <2>1, <3>2
  <2> QED
      BY <2>4
<1> DEFINE M == MAXDEG - 1
           T == {k \in 0 .. M - L : h[L + k] = 0}
<1>9. M \in Nat /\ Degrees = 0 .. M /\ L \in 0 .. M /\ M - L \in Nat
    BY <1>6, DegreeFacts
<1> HIDE DEF M, h, x
<1>10. 0 \in T
    BY <1>1, <1>8, <1>9
<1>11. ASSUME NEW k \in 0 .. M - L - 1, k \in T PROVE k + 1 \in T
  <2>1. /\ L + (k + 1) \in Degrees /\ L + (k + 1) > L /\ L + (k + 1) # 0
        /\ (L + (k + 1)) - 1 = L + k /\ k + 1 \in 0 .. M - L
      BY <1>9
  <2>2. h[L + (k + 1)] = Xor(psi[L + (k + 1)], gmult(x, h[L + k])) /\ psi[L + (k + 1)] = 0
      BY <1>1, <1>5, <2>1
  <2>3. h[L + k] = 0
      BY <1>11
  <2>4. gmult(x, 0) = 0 /\ Xor(0, 0) = 0
      BY MultFacts, XorFacts, SmallBytes
  <2> QED
      BY <2>1, <2>2, <2>3, <2>4
<1> HIDE DEF T
<1>12. \A k \in 0 .. M - L : k \in T
    BY <1>9, <1>10, <1>11, SegmentInduction
<1>13. ASSUME NEW d \in Degrees, d >= L PROVE h[d] = 0
  <2>1. d - L \in 0 .. M - L /\ L + (d - L) = d
      BY <1>9, <1>13
  <2>2. d - L \in T
      BY <1>12, <2>1
  <2> QED
      BY <2>1, <2>2 DEF T
<1> QED
    BY <1>3, <1>6, <1>13 DEF h, x

\* The zeros of the locator are the places of the errors.
LEMMA LocatorZeros ==
    ASSUME NEW S, NEW E, NEW psi, NEW L, IsLocator(S, E, psi, L), Support(E) # {}
    PROVE  /\ L = Cardinality(Support(E))
           /\ \A i \in Places : Value(psi, 255 - i) = 0 <=> i \in Support(E)
<1> DEFINE v == Cardinality(Support(E))
           R == {i \in Places : Value(psi, 255 - i) = 0}
           M == MAXDEG - 1
<1>1. psi \in Polys /\ L \in Nat /\ L <= v /\ psi[0] = 1 /\ 2 * v <= NPAR
      /\ \A d \in Degrees : d > L => psi[d] = 0
    BY DEF IsLocator
<1>2. v \in Nat
    BY SupportFinite
<1>3. Support(E) \subseteq R
  <2> SUFFICES ASSUME NEW i \in Support(E) PROVE i \in Places /\ Value(psi, 255 - i) = 0
      OBVIOUS
  <2>1. i \in Places /\ L \in Degrees /\ \A d \in Degrees : d >= L => Quotient(psi, gexp(i))[d] = 0
      BY LocatorQuotients
  <2>2. M \in Degrees /\ M >= L
      BY <2>1, DegreeFacts
  <2>3. Quotient(psi, gexp(i))[M] = 0
      BY <2>1, <2>2
  <2>4. gexp(i) \in Byte /\ 255 - i \in Nat /\ gmult(gexp(i), gexp(255 - i)) = 1
      BY <2>1, PlaceFacts
  <2>5. Value(psi, 255 - i) = gmult(Quotient(psi, gexp(i))[M], gexp((255 - i) * M))
      BY <1>1, <2>4, ValueAtPole
  <2>6. Value(psi, 255 - i) = 0
      BY <2>3, <2>5, MultFacts
  <2> QED
      BY <2>1, <2>6
<1>4. L \in Degrees
    BY <1>1, <1>2, DegreeFacts
<1>5. HasDegree(psi, L) /\ HasZeros(psi, R) /\ R \in SUBSET Places
    BY <1>1 DEF HasDegree, HasZeros
<1> HIDE DEF R
<1>6. IsFiniteSet(R) /\ Cardinality(R) <= L
    BY <1>4, <1>5, RootCount
<1>7. Cardinality(R) \in Nat
    BY <1>6, FS_CardinalityType
<1>8. v <= Cardinality(R)
    BY <1>3, <1>6, FS_Subset
<1> HIDE DEF v
<1>9. v = Cardinality(R) /\ L = v
    BY <1>1, <1>2, <1>6, <1>7, <1>8
<1>10. Support(E) = R
    BY <1>3, <1>6, <1>9, FS_Subset DEF v
<1> QED
    BY <1>9, <1>10 DEF v, R

\* Find_Roots finds them.
LEMMA ErrorLocsAre ==
    ASSUME NEW S, NEW E, NEW psi, NEW L, IsLocator(S, E, psi, L), Support(E) # {}
    PROVE  ErrorLocs(psi) = Support(E)
<1> DEFINE locs(r) == [d \in 0 .. NPAR |-> gmult(gexp(d * r), psi[d])]
<1>1. psi \in Polys /\ L \in Nat /\ L <= NPAR /\ \A d \in Degrees : d > L => psi[d] = 0
  <2>1. Cardinality(Support(E)) \in Nat
      BY SupportFinite
  <2> QED
      BY <2>1, DegreeFacts DEF IsLocator
<1>2. ASSUME NEW r \in 1 .. 255 PROVE XorSum(locs(r), NPAR) = Value(psi, r)
  <2> DEFINE f == Terms(psi, r)
             g == locs(r)
             M == MAXDEG - 1
  <2>1. r \in Nat /\ M \in Nat /\ NPAR \in 0 .. M /\ Degrees = 0 .. M /\ NPAR \in Nat
      BY DegreeFacts
  <2>2. \A d \in 0 .. M : f[d] \in Byte /\ f[d] = gmult(psi[d], gexp(r * d))
      BY <1>1, <2>1, TermBytes
  <2>3. \A d \in 0 .. NPAR : g[d] = gmult(gexp(d * r), psi[d])
      OBVIOUS
  <2>4. Value(psi, r) = XorSum(f, M)
      BY DEF Value
  <2> HIDE DEF f, g, M
  <2>5. \A d \in 0 .. NPAR : f[d] \in Byte /\ g[d] = f[d]
    <3> SUFFICES ASSUME NEW d \in 0 .. NPAR PROVE f[d] \in Byte /\ g[d] = f[d]
        OBVIOUS
    <3>1. d \in 0 .. M /\ d \in Nat /\ d * r = r * d
        BY <2>1
    <3>2. gexp(r * d) \in Byte /\ psi[d] \in Byte
        BY <1>1, <2>1, <3>1, PowerTypes DEF Polys
    <3>3. gmult(gexp(r * d), psi[d]) = gmult(psi[d], gexp(r * d))
        BY <3>2, MultFacts
    <3> QED
        BY <2>2, <2>3, <3>1, <3>3
  <2>6. XorSum(g, NPAR) = XorSum(f, NPAR)
      BY <2>1, <2>5, SumSame
  <2>7. \A d \in NPAR + 1 .. M : f[d] = 0
    <3> SUFFICES ASSUME NEW d \in NPAR + 1 .. M PROVE f[d] = 0
        OBVIOUS
    <3>1. d \in 0 .. M /\ d > L
        BY <1>1, <2>1
    <3>2. psi[d] = 0
        BY <1>1, <2>1, <3>1
    <3> QED
        BY <2>2, <3>1, <3>2, MultFacts, ZenonT(40)
  <2>8. \A d \in 0 .. M : f[d] \in Byte
      BY <2>2
  <2>9. XorSum(f, M) = XorSum(f, NPAR)
      BY <2>1, <2>7, <2>8, SumExtended
  <2> QED
      BY <2>4, <2>6, <2>9 DEF g
<1>3. ErrorLocs(psi) = {255 - r : r \in {x \in 1 .. 255 : XorSum(locs(x), NPAR) = 0}}
    BY DEF ErrorLocs
<1> HIDE DEF locs
<1>4. \A i \in Places : Value(psi, 255 - i) = 0 <=> i \in Support(E)
    BY LocatorZeros
<1>5. \A i : i \in ErrorLocs(psi) <=> \E r \in 1 .. 255 : Value(psi, r) = 0 /\ i = 255 - r
    BY <1>2, <1>3
<1>6. \A r \in 1 .. 255 : 255 - r \in Places /\ 255 - (255 - r) = r
    BY DEF Places
<1>7. \A i \in Places : 255 - i \in 1 .. 255 /\ 255 - (255 - i) = i
    BY DEF Places
<1>8. Support(E) \subseteq Places
    BY DEF Support
<1>9. ASSUME NEW i, i \in ErrorLocs(psi) PROVE i \in Support(E)
  <2>1. PICK r \in 1 .. 255 : Value(psi, r) = 0 /\ i = 255 - r
      BY <1>5, <1>9
  <2> QED
      BY <1>4, <1>6, <2>1
<1>10. ASSUME NEW i \in Support(E) PROVE i \in ErrorLocs(psi)
  <2>1. i \in Places /\ Value(psi, 255 - i) = 0
      BY <1>4, <1>8
  <2> QED
      BY <1>5, <1>7, <2>1
<1> QED
    BY <1>9, <1>10

-----------------------------------------------------------------------------
\* The power of one place is not the inverse of another's.
LEMMA PlacesApart ==
    ASSUME NEW i \in Places, NEW j \in Places, i # j
    PROVE  gmult(gexp(i), gexp(255 - j)) # 1
<1> DEFINE a == gexp(i)
           b == gexp(255 - j)
           c == gexp(j)
<1>1. a \in Byte /\ b \in Byte \ {0} /\ c \in Byte /\ gmult(c, b) = 1
    BY PlaceFacts
<1>2. a # c
    BY PlaceFacts
<1> HIDE DEF a, b, c
<1>3. gmult(gmult(a, b), ginv(b)) = a /\ gmult(gmult(c, b), ginv(b)) = c
    BY <1>1, MultCancel
<1>4. gmult(a, b) # 1
    BY <1>1, <1>2, <1>3
<1> QED
    BY <1>4 DEF a, b

\* The quotient of the locator at an error has the other errors as zeros, and not
\* this one.
LEMMA QuotientZeros ==
    ASSUME NEW S, NEW E, NEW psi, NEW L, IsLocator(S, E, psi, L), NEW i \in Support(E)
    PROVE  /\ \A j \in Support(E) : j # i => Value(Quotient(psi, gexp(i)), 255 - j) = 0
           /\ Value(Quotient(psi, gexp(i)), 255 - i) # 0
<1> DEFINE x == gexp(i)
           h == Quotient(psi, x)
           M == MAXDEG - 1
<1>1. psi \in Polys /\ L \in Nat /\ psi[0] = 1
    BY DEF IsLocator
<1>2. i \in Places /\ L \in Degrees /\ \A d \in Degrees : d >= L => h[d] = 0
    BY LocatorQuotients
<1>3. x \in Byte
    BY <1>2, PlaceFacts
<1>4. h \in Polys /\ h[0] = 1
    BY <1>1, <1>3, QuotientFacts DEF IsQuotient
<1>5. M \in Degrees /\ M >= L
    BY <1>2, DegreeFacts
<1>6. L = Cardinality(Support(E)) /\ \A j \in Places : Value(psi, 255 - j) = 0 <=> j \in Support(E)
    BY LocatorZeros
<1>7. ASSUME NEW j \in Support(E), j # i PROVE Value(h, 255 - j) = 0
  <2>1. j \in Places
      BY DEF Support
  <2>2. 255 - j \in Nat
      BY <2>1, PlaceFacts
  <2>3. gmult(x, gexp(255 - j)) # 1
      BY <1>2, <1>7, <2>1, PlacesApart
  <2>4. h[M] = 0 /\ Value(psi, 255 - j) = 0
      BY <1>2, <1>5, <1>6, <2>1
  <2> QED
      BY <1>1, <1>3, <2>2, <2>3, <2>4, ZeroOfQuotient
<1> HIDE DEF h, x, M
<1>8. ASSUME Value(h, 255 - i) = 0 PROVE FALSE
  <2>1. HasZeros(h, Support(E))
      BY <1>7, <1>8 DEF HasZeros
  <2>2. L # 0
    <3>1. IsFiniteSet(Support(E)) /\ Support(E) # {}
        BY SupportFinite
    <3> QED
        BY <1>6, <3>1, FS_EmptySet
  <2>3. L - 1 \in Degrees /\ \A d \in Degrees : d > L - 1 => d >= L
      BY <1>1, <1>2, <2>2, DegreeFacts
  <2>4. HasDegree(h, L - 1)
      BY <1>2, <1>4, <2>3 DEF HasDegree
  <2>5. Support(E) \in SUBSET Places
      BY DEF Support
  <2>6. Cardinality(Support(E)) <= L - 1
      BY <2>1, <2>3, <2>4, <2>5, RootCount
  <2> QED
      BY <1>1, <1>6, <2>6
<1> QED
    BY <1>7, <1>8 DEF h, x

\* compute_modified_omega: what is left of the division, at each degree.
LEMMA OmegaIs ==
    ASSUME NEW S, NEW E, NEW psi, NEW L, IsLocator(S, E, psi, L), NEW d \in Degrees
    PROVE  Omega(psi, S)[d] = XorSum(Residue(psi, E, d), LastPlace)
<1>1. psi \in Polys /\ E \in Weights /\ IsSyndrome(S, E) /\ L \in Nat
      /\ L <= Cardinality(Support(E)) /\ 2 * Cardinality(Support(E)) <= NPAR
    BY DEF IsLocator
<1>2. Omega(psi, S)[d] = IF d < NPAR THEN MultAt(psi, S, d) ELSE 0
    BY DEF Omega
<1>3. CASE d < NPAR
  <2>1. d \in 0 .. NPAR - 1
      BY <1>3, DegreeFacts
  <2> QED
      BY <1>1, <1>2, <1>3, <2>1, ProductWithSyndrome
<1>4. CASE ~ (d < NPAR)
  <2> DEFINE w == Residue(psi, E, d)
  <2>1. \A i \in 0 .. LastPlace : w[i] = 0
    <3> SUFFICES ASSUME NEW i \in Places PROVE w[i] = 0
        BY PlacesAre
    <3>1. w[i] = gmult(gmult(E[i], gexp(i)), Quotient(psi, gexp(i))[d])
        BY <1>1, ResidueFacts
    <3>2. CASE E[i] = 0
        BY <3>1, <3>2, MultFacts
    <3>3. CASE E[i] # 0
      <4>1. i \in Support(E)
          BY <3>3 DEF Support
      <4>2. Cardinality(Support(E)) \in Nat
          BY SupportFinite
      <4>3. d >= L
          BY <1>1, <1>4, <4>2, DegreeFacts
      <4>4. Quotient(psi, gexp(i))[d] = 0
          BY <4>1, <4>3, LocatorQuotients
      <4> QED
          BY <3>1, <4>4, MultFacts
    <3> QED
        BY <3>2, <3>3
  <2> HIDE DEF w
  <2>2. XorSum(w, LastPlace) = 0
      BY <2>1, PlacesAre, SumZero
  <2> QED
      BY <1>2, <1>4, <2>2 DEF w
<1> QED
    BY <1>3, <1>4

\* The value of omega at an error: its size, times the power of its place, times
\* the value of the quotient.
LEMMA NumeratorIs ==
    ASSUME NEW S, NEW E, NEW psi, NEW L, IsLocator(S, E, psi, L), NEW l \in Support(E)
    PROVE  Value(Omega(psi, S), 255 - l)
             = gmult(gmult(E[l], gexp(l)), Value(Quotient(psi, gexp(l)), 255 - l))
<1> DEFINE e == 255 - l
           M == MAXDEG - 1
           om == Omega(psi, S)
           h(i) == Quotient(psi, gexp(i))
           c(i) == gmult(E[i], gexp(i))
           F == [d \in Degrees |-> [i \in Places |-> gmult(gexp(e * d), Residue(psi, E, d)[i])]]
           C == [i \in Places |-> [d \in Degrees |-> F[d][i]]]
           rows == Terms(om, e)
           cols == [i \in Places |-> gmult(c(i), Value(h(i), e))]
<1>1. /\ l \in Places /\ e \in Nat
      /\ psi \in Polys /\ E \in Weights
      /\ M \in Nat /\ Degrees = 0 .. M
  <2>1. l \in Places
      BY DEF Support
  <2> QED
      BY <2>1, PlaceFacts, DegreeFacts DEF IsLocator
<1>2. \A d \in Degrees : om[d] = XorSum(Residue(psi, E, d), LastPlace)
    BY OmegaIs
<1>3. ASSUME NEW d \in Degrees
      PROVE  /\ Residue(psi, E, d) \in Weights
             /\ \A i \in Places : /\ Residue(psi, E, d)[i] = gmult(c(i), h(i)[d])
                                  /\ c(i) \in Byte /\ h(i)[d] \in Byte
                                  /\ Residue(psi, E, d)[i] \in Byte
             /\ gexp(e * d) \in Byte
             /\ om[d] \in Byte
  <2>1. /\ Residue(psi, E, d) \in Weights
        /\ \A i \in Places : /\ Residue(psi, E, d)[i] = gmult(c(i), h(i)[d])
                             /\ c(i) \in Byte /\ h(i)[d] \in Byte
                             /\ Residue(psi, E, d)[i] \in Byte
      BY <1>1, ResidueFacts
  <2>2. gexp(e * d) \in Byte
    <3>1. d \in Nat
        BY DegreeFacts
    <3> QED
        BY <1>1, <3>1, PowerTypes
  <2>3. om[d] \in Byte
    <3> DEFINE w == Residue(psi, E, d)
    <3>1. \A i \in 0 .. LastPlace : w[i] \in Byte
        BY <2>1, PlacesAre
    <3> HIDE DEF w
    <3>2. XorSum(w, LastPlace) \in Byte
        BY <3>1, PlacesAre, SumFacts
    <3> QED
        BY <1>2, <3>2 DEF w
  <2> QED
      BY <2>1, <2>2, <2>3
<1>4. om \in Polys
  <2>1. om = [d \in Degrees |-> om[d]]
      BY DEF Omega
  <2> HIDE DEF om
  <2> QED
      BY <1>3, <2>1 DEF Polys
<1>5. \A i \in Places : h(i) \in Polys
  <2>1. \A i \in Places : gexp(i) \in Byte
      BY PlaceFacts
  <2> QED
      BY <1>1, <2>1, QuotientFacts
<1>6. \A d \in Degrees : \A i \in Places : F[d][i] = gmult(gexp(e * d), Residue(psi, E, d)[i])
    OBVIOUS
<1>7. \A i \in Places : \A d \in Degrees : C[i][d] = F[d][i]
    OBVIOUS
<1>8. \A i \in Places : cols[i] = gmult(c(i), Value(h(i), e))
    OBVIOUS
<1> HIDE DEF F, C, om, h, c, cols
<1>9. \A d \in Degrees : rows[d] = gmult(om[d], gexp(e * d))
    BY DEF Terms
<1>10. Value(om, e) = XorSum(rows, M)
    BY DEF Value
<1> HIDE DEF rows, e, M
<1>11. \A d \in Degrees : \A i \in Places : F[d][i] \in Byte
    BY <1>3, <1>6, MultFacts
<1>12. \A d \in Degrees : rows[d] = XorSum(F[d], LastPlace)
  <2> SUFFICES ASSUME NEW d \in Degrees PROVE rows[d] = XorSum(F[d], LastPlace)
      OBVIOUS
  <2> DEFINE w == Residue(psi, E, d)
             b == gexp(e * d)
  <2>1. b \in Byte /\ om[d] \in Byte /\ \A i \in 0 .. LastPlace : w[i] \in Byte
      BY <1>3, PlacesAre
  <2>2. \A i \in 0 .. LastPlace : F[d][i] = gmult(b, w[i])
      BY <1>6, PlacesAre
  <2>3. om[d] = XorSum(w, LastPlace) /\ rows[d] = gmult(om[d], b)
      BY <1>2, <1>9
  <2> HIDE DEF w, b
  <2>4. XorSum(F[d], LastPlace) = gmult(b, XorSum(w, LastPlace))
      BY <2>1, <2>2, PlacesAre, SumScaled
  <2>5. gmult(om[d], b) = gmult(b, om[d])
      BY <2>1, MultFacts
  <2> QED
      BY <2>3, <2>4, <2>5
<1>13. \A i \in Places : cols[i] = XorSum(C[i], M)
  <2> SUFFICES ASSUME NEW i \in Places PROVE cols[i] = XorSum(C[i], M)
      OBVIOUS
  <2> DEFINE t == Terms(h(i), e)
             g == C[i]
  <2>1. \A d \in 0 .. M : t[d] \in Byte /\ t[d] = gmult(h(i)[d], gexp(e * d))
      BY <1>1, <1>5, TermBytes
  <2>2. \A d \in 0 .. M : g[d] = gmult(gexp(e * d), gmult(c(i), h(i)[d]))
      BY <1>1, <1>3, <1>6, <1>7
  <2>3. Value(h(i), e) = XorSum(t, M)
      BY DEF Value, M
  <2>4. c(i) \in Byte
      BY <1>1, <1>3
  <2> HIDE DEF t, g
  <2>5. \A d \in 0 .. M : g[d] = gmult(c(i), t[d])
    <3> SUFFICES ASSUME NEW d \in 0 .. M PROVE g[d] = gmult(c(i), t[d])
        OBVIOUS
    <3> DEFINE a == h(i)[d]
               b == gexp(e * d)
               k == c(i)
    <3>1. a \in Byte /\ b \in Byte /\ k \in Byte
        BY <1>1, <1>3, <2>4
    <3>2. g[d] = gmult(b, gmult(k, a)) /\ t[d] = gmult(a, b)
        BY <2>1, <2>2
    <3> HIDE DEF a, b, k
    <3>3. gmult(k, a) \in Byte
        BY <3>1, MultFacts
    <3>4. gmult(b, gmult(k, a)) = gmult(gmult(k, a), b)
        BY <3>1, <3>3, MultFacts
    <3>5. gmult(gmult(k, a), b) = gmult(k, gmult(a, b))
        BY <3>1, MultAssociative
    <3> QED
        BY <3>2, <3>4, <3>5 DEF k
  <2>6. \A d \in 0 .. M : t[d] \in Byte
      BY <2>1
  <2>7. XorSum(g, M) = gmult(c(i), XorSum(t, M))
      BY <1>1, <2>4, <2>5, <2>6, SumScaled
  <2> QED
      BY <1>8, <2>3, <2>7 DEF g
<1>14. IsGrid(F, C, rows, cols, M, LastPlace)
    BY <1>1, <1>7, <1>11, <1>12, <1>13, PlacesAre DEF IsGrid
<1>15. XorSum(rows, M) = XorSum(cols, LastPlace)
    BY <1>1, <1>14, PlacesAre, SumSwap
<1>16. \A i \in Places : i # l => cols[i] = 0
  <2> SUFFICES ASSUME NEW i \in Places, i # l PROVE cols[i] = 0
      OBVIOUS
  <2>1. CASE E[i] = 0
    <3>1. c(i) = gmult(0, gexp(i))
        BY <2>1 DEF c
    <3>2. c(i) = 0
        BY <3>1, MultFacts
    <3> QED
        BY <1>8, <3>2, MultFacts
  <2>2. CASE E[i] # 0
    <3>1. i \in Support(E)
        BY <2>2 DEF Support
    <3>2. Value(h(i), e) = 0
        BY <3>1, QuotientZeros DEF h, e
    <3> QED
        BY <1>8, <3>2, MultFacts
  <2> QED
      BY <2>1, <2>2
<1>17. cols[l] \in Byte
  <2>1. Value(h(l), e) \in Byte /\ c(l) \in Byte
    <3>1. 0 \in Degrees
        BY <1>1
    <3> QED
        BY <1>1, <1>3, <1>5, <3>1, ValueFacts
  <2> QED
      BY <1>1, <1>8, <2>1, MultFacts
<1>18. XorSum(cols, LastPlace) = cols[l]
    BY <1>1, <1>16, <1>17, PlacesAre, SumSingle
<1>19. Value(om, e) = gmult(c(l), Value(h(l), e))
    BY <1>1, <1>8, <1>10, <1>15, <1>18
<1> QED
    BY <1>19 DEF om, c, h, e

-----------------------------------------------------------------------------
\* A term of the derivative, by two terms of the quotient.
LEMMA DerivativeTerm ==
    ASSUME NEW psi \in Polys, NEW l \in Places, NEW n \in 0 .. MAXDEG - 2
    PROVE  LET t == Terms(Quotient(psi, gexp(l)), 255 - l)
           IN  gmult(psi[n + 1], gexp((255 - l) * n)) = gmult(gexp(l), Xor(t[n + 1], t[n]))
<1> DEFINE e == 255 - l
           x == gexp(l)
           r == gexp(e)
           b == gexp(e * n)
           h == Quotient(psi, x)
           t == Terms(h, e)
           u == psi[n + 1]
           a == h[n + 1]
           c == h[n]
<1>1. n \in Degrees /\ n + 1 \in Degrees /\ n \in Nat /\ n + 1 # 0 /\ (n + 1) - 1 = n
    BY DegreeFacts
<1>2. e \in Nat /\ x \in Byte /\ r \in Byte /\ gmult(x, r) = 1
    BY PlaceFacts
<1>3. b \in Byte /\ gexp(e * (n + 1)) = gmult(b, r)
    BY <1>1, <1>2, PowerNext, PowerTypes
<1>4. h \in Polys /\ a = Xor(u, gmult(x, c))
    BY <1>1, <1>2, QuotientFacts DEF IsQuotient
<1>5. u \in Byte /\ a \in Byte /\ c \in Byte
    BY <1>1, <1>4 DEF Polys
<1>6. t[n] = gmult(c, b) /\ t[n + 1] = gmult(a, gexp(e * (n + 1)))
    BY <1>1 DEF Terms
<1> HIDE DEF e, x, r, b, h, t, u, a, c
<1>7. gmult(x, c) \in Byte /\ gmult(b, r) \in Byte /\ gmult(c, b) \in Byte
      /\ gmult(a, b) \in Byte
    BY <1>2, <1>3, <1>5, MultFacts
<1>8. gmult(a, gmult(b, r)) \in Byte
    BY <1>5, <1>7, MultFacts
<1>9. u = Xor(a, gmult(x, c))
    BY <1>4, <1>5, <1>7, XorCancel
<1>10. gmult(u, b) = Xor(gmult(b, a), gmult(b, gmult(x, c)))
  <2>1. gmult(u, b) = gmult(b, u)
      BY <1>3, <1>5, MultFacts
  <2>2. gmult(b, Xor(a, gmult(x, c))) = Xor(gmult(b, a), gmult(b, gmult(x, c)))
      BY <1>3, <1>5, <1>7, MultDistributes
  <2> QED
      BY <1>9, <2>1, <2>2
<1>11. gmult(x, Xor(gmult(a, gmult(b, r)), gmult(c, b)))
         = Xor(gmult(x, gmult(a, gmult(b, r))), gmult(x, gmult(c, b)))
    BY <1>2, <1>7, <1>8, MultDistributes
<1>12. gmult(x, gmult(a, gmult(b, r))) = gmult(b, a)
  <2>1. gmult(a, gmult(b, r)) = gmult(gmult(a, b), r)
      BY <1>2, <1>3, <1>5, MultAssociative
  <2>2. gmult(gmult(a, b), r) = gmult(r, gmult(a, b))
      BY <1>2, <1>7, MultFacts
  <2>3. gmult(x, gmult(r, gmult(a, b))) = gmult(gmult(x, r), gmult(a, b))
      BY <1>2, <1>7, MultAssociative
  <2>4. gmult(1, gmult(a, b)) = gmult(gmult(a, b), 1)
      BY <1>7, SmallBytes, MultFacts
  <2>5. gmult(gmult(a, b), 1) = gmult(a, b)
      BY <1>7, MultFacts
  <2>6. gmult(a, b) = gmult(b, a)
      BY <1>3, <1>5, MultFacts
  <2> QED
      BY <1>2, <2>1, <2>2, <2>3, <2>4, <2>5, <2>6
<1>13. gmult(x, gmult(c, b)) = gmult(b, gmult(x, c))
  <2>1. gmult(x, gmult(c, b)) = gmult(gmult(x, c), b)
      BY <1>2, <1>3, <1>5, MultAssociative
  <2>2. gmult(gmult(x, c), b) = gmult(b, gmult(x, c))
      BY <1>3, <1>7, MultFacts
  <2> QED
      BY <2>1, <2>2
<1>14. gmult(u, b) = gmult(x, Xor(t[n + 1], t[n]))
    BY <1>3, <1>6, <1>10, <1>11, <1>12, <1>13
<1> QED
    BY <1>14 DEF u, b, x, t, h, e

\* The derivative of the locator at an error: the power of the place, times the value
\* of the quotient.
LEMMA DenominatorIs ==
    ASSUME NEW psi \in Polys, NEW l \in Places
    PROVE  XorSum([d \in Degrees |-> IF d % 2 = 0 THEN 0
                                     ELSE gmult(psi[d], gexp((255 - l) * (d - 1)))], MAXDEG - 1)
             = gmult(gexp(l), Value(Quotient(psi, gexp(l)), 255 - l))
<1> DEFINE e == 255 - l
           x == gexp(l)
           h == Quotient(psi, x)
           t == Terms(h, e)
           M == MAXDEG - 1
           den == [d \in Degrees |-> IF d % 2 = 0 THEN 0 ELSE gmult(psi[d], gexp(e * (d - 1)))]
           s == [n \in 0 .. M |-> gmult(x, IF n % 2 = 0 THEN Xor(XorSum(t, n), t[n])
                                           ELSE XorSum(t, n))]
<1>1. M \in Nat /\ Degrees = 0 .. M /\ MAXDEG - 2 = M - 1 /\ M % 2 # 0 /\ M \in 0 .. M
  <2>1. NPAR \in Nat /\ MAXDEG = 2 * NPAR /\ M \in Nat /\ Degrees = 0 .. M
      BY DegreeFacts
  <2>2. \A k \in Nat : (2 * k - 1) % 2 # 0
      OBVIOUS
  <2> QED
      BY <2>1, <2>2
<1>2. e \in Nat /\ x \in Byte
    BY PlaceFacts
<1>3. h \in Polys
    BY <1>2, QuotientFacts
<1>4. /\ \A n \in 0 .. M : XorSum(t, n) \in Byte
      /\ XorSum(t, 0) = h[0]
      /\ \A n \in 0 .. M - 1 : XorSum(t, n + 1) = Xor(XorSum(t, n), t[n + 1])
      /\ Value(h, e) = XorSum(t, M)
  <2> HIDE DEF h, e
  <2>1. /\ \A n \in 0 .. M : XorSum(t, n) \in Byte
        /\ XorSum(t, 0) = h[0]
        /\ \A n \in 0 .. M - 1 : XorSum(t, n + 1) = Xor(XorSum(t, n), t[n + 1])
      BY <1>1, <1>2, <1>3, ValueFacts
  <2> QED
      BY <2>1 DEF Value
<1>5. \A n \in 0 .. M : t[n] \in Byte
  <2> HIDE DEF h, e, M
  <2> QED
      BY <1>1, <1>2, <1>3, TermBytes
<1>6. \A n \in 0 .. M - 1 : gmult(psi[n + 1], gexp(e * n)) = gmult(x, Xor(t[n + 1], t[n]))
  <2> HIDE DEF M
  <2> QED
      BY <1>1, DerivativeTerm
<1>7. \A n \in 0 .. M : den[n] = IF n % 2 = 0 THEN 0 ELSE gmult(psi[n], gexp(e * (n - 1)))
  <2> HIDE DEF e, M
  <2> QED
      BY <1>1
<1>8. \A n \in 0 .. M : s[n] = gmult(x, IF n % 2 = 0 THEN Xor(XorSum(t, n), t[n]) ELSE XorSum(t, n))
    OBVIOUS
<1> HIDE DEF e, x, h, t, M, den, s
<1>9. ASSUME NEW n \in 0 .. M - 1
      PROVE  den[n + 1] = IF n % 2 = 0 THEN gmult(x, Xor(t[n + 1], t[n])) ELSE 0
  <2>1. n + 1 \in 0 .. M /\ n \in Nat /\ (n + 1) - 1 = n
      BY <1>1
  <2>2. (n + 1) % 2 = 0 <=> n % 2 # 0
      BY <2>1
  <2>3. den[n + 1] = IF (n + 1) % 2 = 0 THEN 0 ELSE gmult(psi[n + 1], gexp(e * n))
      BY <1>7, <2>1
  <2> QED
      BY <1>6, <2>2, <2>3
<1>10. den[0] = 0 /\ s[0] = 0
  <2>1. 0 \in 0 .. M /\ 0 % 2 = 0
      BY <1>1
  <2>2. s[0] = gmult(x, Xor(h[0], t[0]))
      BY <1>4, <1>8, <2>1
  <2>3. t[0] = h[0] /\ h[0] \in Byte
    <3>1. h[0] \in Byte /\ e * 0 = 0 /\ 0 \in Degrees
        BY <1>1, <1>2, <1>3 DEF Polys
    <3>2. t[0] = gmult(h[0], gexp(e * 0))
        BY <3>1 DEF t, Terms
    <3> QED
        BY <3>1, <3>2, PowerFirst, MultFacts
  <2>4. Xor(h[0], h[0]) = 0 /\ gmult(x, 0) = 0
      BY <2>3, XorFacts, MultFacts
  <2> QED
      BY <1>7, <2>1, <2>2, <2>3, <2>4
<1>11. \A n \in 0 .. M : den[n] \in Byte
  <2> SUFFICES ASSUME NEW n \in 0 .. M PROVE den[n] \in Byte
      OBVIOUS
  <2>1. CASE n = 0
      BY <1>10, <2>1, SmallBytes
  <2>2. CASE n # 0
    <3>1. n - 1 \in 0 .. M - 1 /\ (n - 1) + 1 = n /\ n - 1 \in 0 .. M
        BY <1>1, <2>2
    <3>2. t[n] \in Byte /\ t[n - 1] \in Byte
        BY <1>5, <3>1
    <3>3. Xor(t[n], t[n - 1]) \in Byte
        BY <3>2, XorFacts
    <3>4. gmult(x, Xor(t[n], t[n - 1])) \in Byte
        BY <1>2, <3>3, MultFacts
    <3>5. den[(n - 1) + 1] = IF (n - 1) % 2 = 0 THEN gmult(x, Xor(t[(n - 1) + 1], t[n - 1])) ELSE 0
        BY <1>9, <3>1
    <3> QED
        BY <3>1, <3>4, <3>5, SmallBytes
  <2> QED
      BY <2>1, <2>2
<1>12. ASSUME NEW n \in 0 .. M - 1 PROVE s[n + 1] = Xor(s[n], den[n + 1])
  <2> DEFINE W == XorSum(t, n)
             a == t[n]
             b == t[n + 1]
  <2>1. n \in 0 .. M /\ n + 1 \in 0 .. M /\ n \in Nat
      BY <1>1
  <2>2. W \in Byte /\ a \in Byte /\ b \in Byte
      BY <1>4, <1>5, <2>1
  <2>3. XorSum(t, n + 1) = Xor(W, b)
      BY <1>4
  <2>4. Xor(W, a) \in Byte /\ Xor(W, b) \in Byte /\ Xor(b, a) \in Byte
      BY <2>2, XorFacts
  <2>5. (n + 1) % 2 = 0 <=> n % 2 # 0
      BY <2>1
  <2>6. s[n] = gmult(x, IF n % 2 = 0 THEN Xor(W, a) ELSE W)
        /\ s[n + 1] = gmult(x, IF n % 2 = 0 THEN Xor(W, b) ELSE Xor(Xor(W, b), b))
      BY <1>8, <2>1, <2>3, <2>5
  <2>7. den[n + 1] = IF n % 2 = 0 THEN gmult(x, Xor(b, a)) ELSE 0
      BY <1>9
  <2> HIDE DEF W, a, b
  <2>8. CASE n % 2 = 0
    <3>1. Xor(s[n], den[n + 1]) = gmult(x, Xor(Xor(W, a), Xor(b, a)))
      <4>1. gmult(x, Xor(Xor(W, a), Xor(b, a))) = Xor(gmult(x, Xor(W, a)), gmult(x, Xor(b, a)))
          BY <1>2, <2>4, MultDistributes
      <4> QED
          BY <2>6, <2>7, <2>8, <4>1
    <3>2. Xor(Xor(W, a), Xor(b, a)) = Xor(Xor(W, b), Xor(a, a))
        BY <2>2, XorSwap
    <3>3. Xor(a, a) = 0 /\ Xor(Xor(W, b), 0) = Xor(W, b)
        BY <2>2, <2>4, XorFacts
    <3> QED
        BY <2>6, <2>8, <3>1, <3>2, <3>3
  <2>9. CASE n % 2 # 0
    <3>1. Xor(Xor(W, b), b) = W
        BY <2>2, XorCancel
    <3>2. gmult(x, W) \in Byte
        BY <1>2, <2>2, MultFacts
    <3>3. Xor(gmult(x, W), 0) = gmult(x, W)
        BY <3>2, XorFacts
    <3> QED
        BY <2>6, <2>7, <2>9, <3>1, <3>3
  <2> QED
      BY <2>8, <2>9
<1>13. \A n \in 0 .. M : XorSum(den, n) = s[n]
    BY <1>1, <1>10, <1>11, <1>12, SumInduction
<1>14. XorSum(den, M) = gmult(x, Value(h, e))
    BY <1>1, <1>4, <1>8, <1>13
<1> QED
    BY <1>14 DEF den, M, x, h, e

\* What the decoder finds wrong at a place is what is wrong there.
LEMMA MagnitudeIs ==
    ASSUME NEW S, NEW E, NEW psi, NEW L, IsLocator(S, E, psi, L), NEW l \in Support(E)
    PROVE  Magnitude(psi, Omega(psi, S), l) = E[l]
<1> DEFINE e == 255 - l
           x == gexp(l)
           om == Omega(psi, S)
           V == Value(Quotient(psi, x), e)
           num == [d \in Degrees |-> gmult(om[d], gexp(e * d))]
           den == [d \in Degrees |-> IF d % 2 = 0 THEN 0 ELSE gmult(psi[d], gexp(e * (d - 1)))]
<1>1. psi \in Polys /\ E \in Weights /\ l \in Places /\ E[l] \in Byte
    BY DEF IsLocator, Support, Weights
<1>2. x \in Byte \ {0} /\ x \in Byte /\ e \in Nat
    BY <1>1, PlaceFacts
<1>3. V \in Byte \ {0}
  <2>1. V # 0
      BY QuotientZeros
  <2>2. V \in Byte
      BY <1>1, <1>2, QuotientFacts, ValueFacts
  <2> QED
      BY <2>1, <2>2
<1>4. Magnitude(psi, om, l) = gmult(XorSum(num, MAXDEG - 1), ginv(XorSum(den, MAXDEG - 1)))
    BY DEF Magnitude
<1>5. XorSum(num, MAXDEG - 1) = gmult(gmult(E[l], x), V)
  <2>1. Value(om, e) = XorSum(num, MAXDEG - 1)
      BY DEF Value, Terms
  <2>2. Value(om, e) = gmult(gmult(E[l], x), V)
      BY NumeratorIs
  <2> QED
      BY <2>1, <2>2
<1>6. XorSum(den, MAXDEG - 1) = gmult(x, V)
    BY <1>1, DenominatorIs
<1> HIDE DEF e, x, om, V, num, den
<1>7. gmult(x, V) \in Byte \ {0}
    BY <1>2, <1>3, MultNonzero
<1>8. gmult(gmult(E[l], x), V) = gmult(E[l], gmult(x, V))
  <2>1. V \in Byte
      BY <1>3
  <2> QED
      BY <1>1, <1>2, <2>1, MultAssociative
<1>9. gmult(gmult(E[l], gmult(x, V)), ginv(gmult(x, V))) = E[l]
    BY <1>1, <1>7, MultCancel
<1> QED
    BY <1>4, <1>5, <1>6, <1>8, <1>9 DEF om

-----------------------------------------------------------------------------
(* A word, and what is wrong with it.                                      *)

\* A word of n bytes, its value at the power e, and its bytes by their places.
IsValued(p, n, e, h, w) ==
    /\ n \in 1 .. 255 /\ e \in Nat
    /\ \A i \in 1 .. n : p[i] \in Byte
    /\ IsHorner(h, gexp(e), p, n) /\ h[0] = 0
    /\ w \in Weights /\ \A i \in Places : w[i] = IF i < n THEN p[n - i] ELSE 0

\* The value is a power sum of the bytes.
LEMMA HornerIsMoment ==
    ASSUME NEW n, NEW p, NEW e, NEW h, NEW w, IsValued(p, n, e, h, w)
    PROVE  Moment(w, e) = h[n]
<1> USE DEF IsValued
<1> DEFINE t == MomentTerms(w, e)
           r(m) == gexp(e * m)
<1>1. n \in Nat /\ n - 1 \in Nat /\ n - 1 \in 0 .. LastPlace
    BY DEF LastPlace
<1>3. \A i \in 0 .. LastPlace : t[i] \in Byte /\ t[i] = gmult(w[i], gexp(i * e))
    BY MomentTermBytes, PlacesAre
<1>4. \A m \in 0 .. n : h[m] \in Byte
    BY DEF IsHorner
<1>5. ASSUME NEW m \in Nat PROVE r(m) \in Byte /\ r(0) = 1 /\ r(m + 1) = gmult(r(m), gexp(e))
    BY PowerTypes, PowerNext
<1>6. ASSUME NEW m \in 0 .. n - 1
      PROVE  /\ t[m] = gmult(r(m), p[n - m])
             /\ p[n - m] \in Byte
             /\ h[n - m] = Xor(p[n - m], gmult(gexp(e), h[n - (m + 1)]))
             /\ h[n - (m + 1)] \in Byte
  <2>1. m \in Nat /\ m \in 0 .. LastPlace /\ n - m \in 1 .. n /\ (n - m) - 1 = n - (m + 1)
        /\ n - (m + 1) \in 0 .. n /\ m < n
      BY <1>1 DEF LastPlace
  <2>2. w[m] = p[n - m] /\ p[n - m] \in Byte
      BY <2>1, PlacesAre
  <2>3. m * e = e * m
      BY <2>1
  <2>4. t[m] = gmult(p[n - m], r(m))
      BY <1>3, <2>1, <2>2, <2>3
  <2>5. t[m] = gmult(r(m), p[n - m])
      BY <1>5, <2>1, <2>2, <2>4, MultFacts
  <2>6. h[n - m] = Xor(p[n - m], gmult(gexp(e), h[(n - m) - 1]))
      BY <2>1 DEF IsHorner
  <2> QED
      BY <1>4, <2>1, <2>2, <2>5, <2>6
<1> DEFINE T == {m \in 0 .. n - 1 : h[n] = Xor(XorSum(t, m), gmult(r(m + 1), h[n - (m + 1)]))}
<1>7. \A i \in 0 .. n - 1 : t[i] \in Byte
  <2>1. \A i \in 0 .. n - 1 : i \in 0 .. LastPlace
      BY <1>1 DEF LastPlace
  <2> HIDE DEF t
  <2> QED
      BY <1>3, <2>1
<1> HIDE DEF t, r
<1>8. 0 \in T
  <2>1. 0 \in 0 .. n - 1 /\ n - 0 = n /\ 0 \in Nat
      BY <1>1
  <2>2. XorSum(t, 0) = t[0]
      BY <1>1, <1>7, SumFacts
  <2>3. t[0] = gmult(r(0), p[n])
      BY <1>6, <2>1
  <2>4. r(0) = 1 /\ r(0 + 1) = gmult(r(0), gexp(e))
      BY <1>5, <2>1
  <2>5. gexp(e) \in Byte /\ p[n] \in Byte
      BY <1>6, <2>1, PowerFacts
  <2>6. t[0] = p[n]
    <3>1. gmult(1, p[n]) = gmult(p[n], 1) /\ gmult(p[n], 1) = p[n]
        BY <2>5, SmallBytes, MultFacts
    <3> QED
        BY <2>3, <2>4, <3>1
  <2>7. r(0 + 1) = gexp(e)
    <3>1. gmult(1, gexp(e)) = gmult(gexp(e), 1) /\ gmult(gexp(e), 1) = gexp(e)
        BY <2>5, SmallBytes, MultFacts
    <3> QED
        BY <2>4, <3>1
  <2>8. h[n - 0] = Xor(p[n - 0], gmult(gexp(e), h[n - (0 + 1)]))
      BY <1>6, <2>1
  <2> QED
      BY <2>1, <2>2, <2>6, <2>7, <2>8
<1>9. ASSUME NEW m \in 0 .. (n - 1) - 1, m \in T PROVE m + 1 \in T
  <2>1. m \in Nat /\ m + 1 \in Nat /\ m \in 0 .. n - 1 /\ m + 1 \in 0 .. n - 1
        /\ m \in 0 .. (n - 1) - 1
      BY <1>1
  <2> DEFINE s == XorSum(t, m)
             b == p[n - (m + 1)]
             g == h[n - ((m + 1) + 1)]
             x == r(m + 1)
  <2>2. s \in Byte /\ XorSum(t, m + 1) = Xor(s, t[m + 1])
      BY <1>1, <1>7, <2>1, SumFacts
  <2>3. t[m + 1] = gmult(x, b) /\ b \in Byte /\ g \in Byte
        /\ h[n - (m + 1)] = Xor(b, gmult(gexp(e), g))
      BY <1>6, <2>1
  <2>4. x \in Byte /\ r((m + 1) + 1) = gmult(x, gexp(e))
      BY <1>5, <2>1
  <2>5. h[n] = Xor(s, gmult(x, h[n - (m + 1)]))
      BY <1>9
  <2> HIDE DEF s, b, g, x
  <2>6. gexp(e) \in Byte /\ gmult(gexp(e), g) \in Byte /\ gmult(x, b) \in Byte
    <3>1. gexp(e) \in Byte
        BY PowerFacts
    <3> QED
        BY <2>3, <2>4, <3>1, MultFacts
  <2>7. gmult(x, h[n - (m + 1)]) = Xor(gmult(x, b), gmult(x, gmult(gexp(e), g)))
      BY <2>3, <2>4, <2>6, MultDistributes
  <2>8. gmult(x, gmult(gexp(e), g)) = gmult(gmult(x, gexp(e)), g)
      BY <2>3, <2>4, <2>6, MultAssociative
  <2>9. gmult(gmult(x, gexp(e)), g) \in Byte
      BY <2>3, <2>4, <2>6, MultFacts
  <2>10. h[n] = Xor(s, Xor(gmult(x, b), gmult(gmult(x, gexp(e)), g)))
      BY <2>5, <2>7, <2>8
  <2>11. h[n] = Xor(Xor(s, gmult(x, b)), gmult(gmult(x, gexp(e)), g))
      BY <2>2, <2>6, <2>9, <2>10, XorFacts
  <2>12. h[n] = Xor(XorSum(t, m + 1), gmult(r((m + 1) + 1), g))
      BY <2>2, <2>3, <2>4, <2>11
  <2> QED
      BY <2>1, <2>12 DEF g
<1> HIDE DEF T
<1>10. \A m \in 0 .. n - 1 : m \in T
    BY <1>1, <1>8, <1>9, SegmentInduction
<1>11. h[n] = XorSum(t, n - 1)
  <2>1. n - 1 \in T /\ n - ((n - 1) + 1) = 0
      BY <1>1, <1>10
  <2>2. h[n] = Xor(XorSum(t, n - 1), gmult(r((n - 1) + 1), 0))
      BY <2>1 DEF T
  <2>3. gmult(r((n - 1) + 1), 0) = 0
      BY MultFacts
  <2>4. XorSum(t, n - 1) \in Byte
      BY <1>1, <1>7, SumFacts
  <2> QED
      BY <2>2, <2>3, <2>4, XorFacts
<1>12. XorSum(t, LastPlace) = XorSum(t, n - 1)
  <2>1. \A i \in (n - 1) + 1 .. LastPlace : t[i] = 0
    <3>1. SUFFICES ASSUME NEW i \in (n - 1) + 1 .. LastPlace PROVE t[i] = 0
        OBVIOUS
    <3>2. i \in 0 .. LastPlace /\ ~ (i < n)
        BY <1>1, PlacesAre
    <3>3. w[i] = 0
        BY <3>2, PlacesAre
    <3> QED
        BY <1>3, <3>2, <3>3, MultFacts
  <2>2. \A i \in 0 .. LastPlace : t[i] \in Byte
      BY <1>3
  <2> QED
      BY <1>1, <2>1, <2>2, SumExtended, PlacesAre
<1> QED
    BY <1>11, <1>12 DEF t, Moment

\* A codeword of the encoder, and what is wrong with a word, by the place, which
\* is counted from the end.
IsWord(w) == \A i \in 1 .. BlockLen : w[i] \in Byte
IsCodeword(c) == IsWord(c) /\ \A e \in 1 .. NPAR : IsZeroAt(gexp(e), c, BlockLen)
ErrorsOf(word, c) ==
    [i \in Places |-> IF i < BlockLen THEN Xor(word[BlockLen - i], c[BlockLen - i]) ELSE 0]

\* They are weights at the places.
LEMMA ErrorsAre ==
    ASSUME NEW word, IsWord(word), NEW c, IsWord(c)
    PROVE  /\ BlockLen \in 1 .. 255
           /\ ErrorsOf(word, c) \in Weights
           /\ \A i \in 1 .. BlockLen : /\ BlockLen - i \in Places
                                        /\ ErrorsOf(word, c)[BlockLen - i] = Xor(word[i], c[i])
<1>1. BlockLen \in 1 .. 255
    BY EccAssumption, ReedSolomonAssumption
<1>2. ErrorsOf(word, c) \in Weights
  <2>1. ASSUME NEW i \in Places PROVE ErrorsOf(word, c)[i] \in Byte
    <3>1. i \in Nat /\ (i < BlockLen => BlockLen - i \in 1 .. BlockLen)
        BY <1>1, PlacesAre
    <3>2. ErrorsOf(word, c)[i] = IF i < BlockLen THEN Xor(word[BlockLen - i], c[BlockLen - i]) ELSE 0
        BY DEF ErrorsOf
    <3>3. CASE i < BlockLen
      <4>1. word[BlockLen - i] \in Byte /\ c[BlockLen - i] \in Byte
          BY <3>1, <3>3 DEF IsWord
      <4> QED
          BY <3>2, <3>3, <4>1, XorFacts
    <3> QED
        BY <3>2, <3>3, SmallBytes
  <2> QED
      BY <2>1 DEF Weights, ErrorsOf
<1>3. ASSUME NEW i \in 1 .. BlockLen
      PROVE  BlockLen - i \in Places /\ ErrorsOf(word, c)[BlockLen - i] = Xor(word[i], c[i])
  <2>1. BlockLen - i \in Places /\ BlockLen - i < BlockLen /\ BlockLen - (BlockLen - i) = i
      BY <1>1 DEF Places
  <2> QED
      BY <2>1 DEF ErrorsOf
<1> QED
    BY <1>1, <1>2, <1>3

\* The syndrome of a word is that of its errors, whatever the codeword.
LEMMA SyndromeOfErrors ==
    ASSUME NEW word, Len(word) = BlockLen, IsWord(word), NEW c, IsCodeword(c)
    PROVE  IsSyndrome(Syndrome(word), ErrorsOf(word, c))
<1> DEFINE n == BlockLen
           E == ErrorsOf(word, c)
<1>1. IsWord(c) /\ E \in Weights /\ n \in 1 .. 255 /\ n \in Nat
    BY ErrorsAre DEF IsCodeword
<1>2. ASSUME NEW j \in Degrees, j < NPAR
      PROVE  Syndrome(word)[j] = Moment(E, j + 1)
  <2>1. j + 1 \in 1 .. NPAR /\ j + 1 \in Nat
      BY <1>2, DegreeFacts
  <2>2. gexp(j + 1) \in Byte
      BY <2>1, PowerFacts
  <2>3. PICK h : IsHorner(h, gexp(j + 1), word, n) /\ h[0] = 0
      BY <1>1, <2>2, SmallBytes, HornerExists DEF IsWord
  <2>4. PICK g : IsHorner(g, gexp(j + 1), c, n) /\ g[0] = 0 /\ g[n] = 0
      BY <2>1 DEF IsCodeword, IsZeroAt
  <2> DEFINE p == [i \in 1 .. n |-> Xor(word[i], c[i])]
             f == [i \in 0 .. n |-> Xor(h[i], g[i])]
  <2>5. IsHorner(f, gexp(j + 1), p, n)
      BY <1>1, <2>2, <2>3, <2>4, HornerSum DEF IsWord
  <2>6. f[0] = 0
    <3>1. 0 \in 0 .. n /\ Xor(0, 0) = 0
        BY <1>1, SmallBytes, XorFacts
    <3> QED
        BY <2>3, <2>4, <3>1
  <2>7. f[n] = h[n]
    <3>1. n \in 0 .. n
        BY <1>1
    <3>2. h[n] \in Byte
        BY <2>3, <3>1 DEF IsHorner
    <3>3. Xor(h[n], 0) = h[n]
        BY <3>2, XorFacts
    <3> QED
        BY <2>4, <3>1, <3>3
  <2>8. \A i \in 1 .. n : p[i] \in Byte
      BY <1>1, XorFacts DEF IsWord
  <2>9. \A i \in Places : E[i] = IF i < n THEN p[n - i] ELSE 0
    <3>1. ASSUME NEW i \in Places PROVE i < n => n - i \in 1 .. n
        BY <1>1, PlacesAre
    <3> QED
        BY <3>1 DEF ErrorsOf
  <2>10. Syndrome(word)[j] = h[n]
    <3>1. IsHorner(h, gexp(j + 1), word, Len(word)) /\ Len(word) \in Nat /\ j < NPAR
        BY <1>1, <1>2, <2>3
    <3>2. Syndrome(word)[j] = h[Len(word)]
        BY <2>3, <3>1, SyndromeIs
    <3> QED
        BY <3>2
  <2> HIDE DEF p, f, E, n
  <2>11. IsValued(p, n, j + 1, f, E)
      BY <1>1, <2>1, <2>5, <2>6, <2>8, <2>9 DEF IsValued
  <2>12. Moment(E, j + 1) = f[n]
      BY <2>11, HornerIsMoment
  <2> QED
      BY <2>7, <2>10, <2>12
<1>3. ASSUME NEW j \in Degrees, ~ (j < NPAR) PROVE Syndrome(word)[j] = 0
    BY <1>3 DEF Syndrome
<1>4. Syndrome(word) \in Polys
  <2>1. ASSUME NEW j \in Degrees PROVE Syndrome(word)[j] \in Byte
    <3>1. CASE j < NPAR
      <4>1. j + 1 \in Nat
          BY DegreeFacts
      <4>2. Moment(E, j + 1) \in Byte
          BY <1>1, <4>1, MomentBytes
      <4> QED
          BY <1>2, <3>1, <4>2
    <3> QED
        BY <1>3, <3>1, SmallBytes
  <2>2. Syndrome(word) = [j \in Degrees |-> Syndrome(word)[j]]
      BY DEF Syndrome
  <2> QED
      BY <2>1, <2>2 DEF Polys
<1> QED
    BY <1>2, <1>3, <1>4 DEF IsSyndrome

\* A word with few errors and a syndrome of zeros is a codeword: decode_data finds
\* every error that the code is for.
LEMMA ErrorsFound ==
    ASSUME NEW word, Len(word) = BlockLen, IsWord(word), NEW c, IsCodeword(c),
           Syndrome(word) = Zero, Cardinality(Support(ErrorsOf(word, c))) <= NPAR
    PROVE  \A i \in 1 .. BlockLen : word[i] = c[i]
<1> DEFINE E == ErrorsOf(word, c)
           w == [i \in Places |-> gmult(E[i], gexp(i))]
<1>1. IsWord(c) /\ E \in Weights /\ IsSyndrome(Syndrome(word), E)
    BY ErrorsAre, SyndromeOfErrors DEF IsCodeword
<1>2. ASSUME NEW i \in Places
      PROVE  i \in Nat /\ E[i] \in Byte /\ gexp(i) \in Byte \ {0} /\ w[i] = gmult(E[i], gexp(i))
             /\ w[i] \in Byte
  <2>1. E[i] \in Byte /\ gexp(i) \in Byte \ {0} /\ i \in Nat
      BY <1>1, PlaceFacts DEF Weights
  <2> QED
      BY <2>1, MultFacts
<1>3. w \in Weights
    BY <1>2 DEF Weights
<1>4. \A i \in Places : E[i] # 0 <=> w[i] # 0
  <2>1. SUFFICES ASSUME NEW i \in Places PROVE E[i] # 0 <=> w[i] # 0
      OBVIOUS
  <2>2. E[i] = 0 => w[i] = 0
      BY <1>2, MultFacts
  <2>3. E[i] # 0 => w[i] # 0
      BY <1>2, MultNonzero
  <2> QED
      BY <2>2, <2>3
<1>5. Support(w) = Support(E)
    BY <1>4 DEF Support
<1> HIDE DEF w, E
<1>6. ASSUME NEW s \in 0 .. NPAR - 1 PROVE Moment(w, s) = 0
  <2>1. s \in Nat /\ s + 1 \in Nat /\ s \in Degrees /\ s < NPAR
      BY DegreeFacts
  <2>2. Moment(E, s + 1) = 0
    <3>1. Syndrome(word)[s] = Moment(E, s + 1)
        BY <1>1, <2>1 DEF IsSyndrome
    <3> QED
        BY <2>1, <3>1 DEF Zero
  <2>3. \A i \in Places : MomentTerms(E, s + 1)[i] \in Byte
                          /\ MomentTerms(w, s)[i] = MomentTerms(E, s + 1)[i]
    <3>1. SUFFICES ASSUME NEW i \in Places
                   PROVE  MomentTerms(E, s + 1)[i] \in Byte
                          /\ MomentTerms(w, s)[i] = MomentTerms(E, s + 1)[i]
        OBVIOUS
    <3>2. MomentTerms(E, s + 1)[i] \in Byte
          /\ MomentTerms(E, s + 1)[i] = gmult(E[i], gexp(i * (s + 1)))
        BY <1>1, <2>1, MomentTermBytes
    <3>3. MomentTerms(w, s)[i] = gmult(gmult(E[i], gexp(i)), gexp(i * s)) /\ gexp(i * s) \in Byte
        BY <1>2, <1>3, <2>1, MomentTermBytes, ZenonT(40)
    <3>4. gexp(i * (s + 1)) = gmult(gexp(i * s), gexp(i))
        BY <1>2, <2>1, PowerNext
    <3>5. gexp(i) \in Byte /\ E[i] \in Byte
        BY <1>2
    <3>6. gmult(gexp(i * s), gexp(i)) = gmult(gexp(i), gexp(i * s))
        BY <3>3, <3>5, MultFacts
    <3>7. gmult(gmult(E[i], gexp(i)), gexp(i * s)) = gmult(E[i], gmult(gexp(i), gexp(i * s)))
        BY <3>3, <3>5, MultAssociative
    <3> QED
        BY <3>2, <3>3, <3>4, <3>6, <3>7
  <2>4. Moment(w, s) = Moment(E, s + 1)
    <3> DEFINE f == MomentTerms(E, s + 1)
               g == MomentTerms(w, s)
    <3>1. \A i \in 0 .. LastPlace : f[i] \in Byte /\ g[i] = f[i]
        BY <2>3, PlacesAre
    <3> HIDE DEF f, g
    <3>2. XorSum(g, LastPlace) = XorSum(f, LastPlace)
        BY <3>1, PlacesAre, SumSame
    <3> QED
        BY <3>2 DEF f, g, Moment
  <2> QED
      BY <2>2, <2>4
<1>7. \A i \in Places : w[i] = 0
  <2>1. Cardinality(Support(w)) <= NPAR
      BY <1>5 DEF E
  <2>2. NPAR \in Nat
      BY DegreeFacts
  <2> QED
      BY <1>3, <1>6, <2>1, <2>2, Vandermonde
<1>8. ASSUME NEW i \in 1 .. BlockLen PROVE word[i] = c[i]
  <2>1. BlockLen - i \in Places /\ E[BlockLen - i] = Xor(word[i], c[i])
      BY <1>1, ErrorsAre DEF E
  <2>2. E[BlockLen - i] = 0
      BY <1>4, <1>7, <2>1
  <2>3. word[i] \in Byte /\ c[i] \in Byte
      BY <1>1 DEF IsWord
  <2> QED
      BY <2>1, <2>2, <2>3, XorEqual
<1> QED
    BY <1>8

\* No error, and the syndrome is zero.
LEMMA NoErrors ==
    ASSUME NEW S, NEW E \in Weights, IsSyndrome(S, E), Support(E) = {}
    PROVE  S = Zero
<1>1. \A i \in Places : E[i] = 0
    BY DEF Support
<1>2. ASSUME NEW j \in Degrees PROVE S[j] = 0
  <2>1. j \in Nat /\ j + 1 \in Nat
      BY DegreeFacts
  <2>2. \A i \in 0 .. LastPlace : MomentTerms(E, j + 1)[i] = 0
    <3>1. SUFFICES ASSUME NEW i \in 0 .. LastPlace PROVE MomentTerms(E, j + 1)[i] = 0
        OBVIOUS
    <3>2. i \in Places
        BY PlacesAre
    <3>3. MomentTerms(E, j + 1)[i] = gmult(E[i], gexp(i * (j + 1)))
        BY <2>1, <3>2, MomentTermBytes
    <3>4. E[i] = 0
        BY <1>1, <3>2
    <3> QED
        BY <3>3, <3>4, MultFacts
  <2>3. Moment(E, j + 1) = 0
      BY <2>2, SumZero, PlacesAre DEF Moment
  <2> QED
      BY <2>3 DEF IsSyndrome
<1> QED
    BY <1>2 DEF Zero, IsSyndrome, Polys

\* A word with as many errors as the code can correct is corrected.
LEMMA ErrorsCorrected ==
    ASSUME NEW word, Len(word) = BlockLen, IsWord(word), NEW c, IsCodeword(c),
           Syndrome(word) # Zero, NEW psi, NEW L,
           IsLocator(Syndrome(word), ErrorsOf(word, c), psi, L)
    PROVE  \A p \in 1 .. BlockLen :
              Correct(word, psi, Omega(psi, Syndrome(word)))[p] = c[p]
<1> DEFINE E == ErrorsOf(word, c)
           S == Syndrome(word)
           om == Omega(psi, S)
<1>1. IsWord(c) /\ E \in Weights /\ IsSyndrome(S, E) /\ BlockLen \in 1 .. 255
    BY ErrorsAre, SyndromeOfErrors DEF IsCodeword
<1>2. Support(E) # {}
    BY <1>1, NoErrors
<1>3. ErrorLocs(psi) = Support(E)
    BY <1>2, ErrorLocsAre
<1>4. \A l \in Support(E) : Magnitude(psi, om, l) = E[l]
    BY MagnitudeIs
<1>5. Cardinality(Support(E)) \in 1 .. NPAR
  <2>1. IsFiniteSet(Support(E)) /\ Cardinality(Support(E)) \in Nat
      BY SupportFinite
  <2>2. Cardinality(Support(E)) # 0
      BY <1>2, <2>1, FS_EmptySet
  <2>3. 2 * Cardinality(Support(E)) <= NPAR /\ NPAR \in Nat
      BY DegreeFacts DEF IsLocator
  <2> QED
      BY <2>1, <2>2, <2>3
<1>6. \A l \in Support(E) : l < Len(word)
  <2>1. SUFFICES ASSUME NEW l \in Support(E) PROVE l < Len(word)
      OBVIOUS
  <2>2. l \in Places /\ E[l] # 0
      BY DEF Support
  <2> QED
      BY <2>2 DEF ErrorsOf
<1>7. Correct(word, psi, om)
        = [p \in 1 .. Len(word) |->
             IF Len(word) - p \in Support(E)
               THEN Xor(word[p], Magnitude(psi, om, Len(word) - p))
               ELSE word[p]]
  <2> HIDE DEF E, om
  <2> QED
      BY <1>3, <1>5, <1>6 DEF Correct
<1>8. ASSUME NEW p \in 1 .. BlockLen PROVE Correct(word, psi, om)[p] = c[p]
  <2> DEFINE l == BlockLen - p
  <2>1. l \in Places /\ E[l] = Xor(word[p], c[p])
      BY <1>1, ErrorsAre
  <2>2. word[p] \in Byte /\ c[p] \in Byte
      BY <1>1 DEF IsWord
  <2> HIDE DEF E, om, S
  <2>3. CASE l \in Support(E)
    <3>1. Correct(word, psi, om)[p] = Xor(word[p], E[l])
        BY <1>4, <1>7, <2>3
    <3>2. Xor(word[p], Xor(word[p], c[p])) = Xor(Xor(word[p], word[p]), c[p])
        BY <2>2, XorFacts
    <3>3. Xor(word[p], word[p]) = 0 /\ Xor(0, c[p]) = c[p]
        BY <2>2, XorFacts
    <3> QED
        BY <2>1, <3>1, <3>2, <3>3
  <2>4. CASE l \notin Support(E)
    <3>1. Correct(word, psi, om)[p] = word[p]
        BY <1>7, <2>4
    <3>2. E[l] = 0
        BY <2>1, <2>4 DEF Support
    <3> QED
        BY <2>1, <2>2, <3>1, <3>2, XorEqual
  <2> QED
      BY <2>3, <2>4
<1> QED
    BY <1>8

-----------------------------------------------------------------------------
(* The blocks of the coded message.                                        *)

\* What the encoder is given of a block.
Data(b) == [i \in 1 .. max_mlen |-> InBlock(b, i - 1)]

\* Block b of the coded message.
Block(b) == [i \in 1 .. BlockLen |-> coded[b * BlockLen + i]]

\* It has its bytes in it, and is a codeword.
GoodBlock(b) ==
    /\ \A p \in 0 .. max_mlen - 1 : coded[b * BlockLen + p + 1] = InBlock(b, p)
    /\ IsCodeword(Block(b))

\* The block that is coded has its first bytes in it, and the register makes a
\* codeword of them.
GoodFront ==
    /\ lfsr \in Registers
    /\ \A p \in 0 .. at - 1 : coded[block * BlockLen + p + 1] = InBlock(block, p)
    /\ \A e \in 1 .. NPAR :
          IsZeroAt(gexp(e), WithParity(Data(block), at, lfsr), at + NPAR)

\* What the encoder has made.
CodeInv ==
    /\ pc \in {"encode", "stuff"} => \A b \in 0 .. block - 1 : GoodBlock(b)
    /\ pc = "encode" => GoodFront
    /\ pc = "stuff" => block = NBlocks(job.len)

\* The bytes the encoder is given are bytes.
LEMMA InBlockBytes ==
    ASSUME job \in Jobs, NEW b \in Nat, b < NBlocks(job.len), NEW p \in 0 .. max_mlen - 1
    PROVE  InBlock(b, p) \in Byte
<1> DEFINE rest == job.len - b * msgchunk
<1>1. job.len \in Nat /\ b * msgchunk \in Nat /\ b * msgchunk <= job.len
    BY JobType, Sizes, ProductOrder, BlocksOf
<1>2. rest \in Nat
    BY <1>1
<1>3. msgchunk \in Nat /\ msgchunk <= 255
    BY Sizes, EccAssumption
<1>4. \A i \in Nat : Text(i) \in Byte
  <2>1. \A i \in Nat : (37 * i) % 255 \in 0 .. 254
      OBVIOUS
  <2> QED
      BY <2>1 DEF Text, Byte
<1>5. Min({rest, msgchunk}) \in Byte
  <2> HIDE DEF rest
  <2>1. Min({rest, msgchunk}) = IF rest <= msgchunk THEN rest ELSE msgchunk
      BY <1>2, <1>3, LesserIs
  <2> QED
      BY <1>2, <1>3, <2>1 DEF Byte
<1>6. InBlock(b, p) = CASE p = 0 -> Min({rest, msgchunk})
                        [] p > 0 /\ p <= rest -> Text(b * msgchunk + p - 1)
                        [] p > 0 /\ p > rest -> 0
    BY DEF InBlock
<1> HIDE DEF rest
<1>7. p \in Nat
    BY Sizes
<1>8. CASE p = 0
    BY <1>5, <1>6, <1>8
<1>9. CASE p > 0 /\ p <= rest
  <2>1. b * msgchunk + p - 1 \in Nat /\ p # 0
      BY <1>1, <1>7, <1>9
  <2>2. InBlock(b, p) = Text(b * msgchunk + p - 1)
      BY <1>2, <1>6, <1>7, <1>9, <2>1
  <2> QED
      BY <1>4, <2>1, <2>2
<1>10. CASE p > 0 /\ p > rest
  <2>1. InBlock(b, p) = 0
      BY <1>2, <1>6, <1>7, <1>10
  <2> QED
      BY <2>1, SmallBytes
<1> QED
    BY <1>2, <1>7, <1>8, <1>9, <1>10

\* A block stays good as long as its bytes stay.
LEMMA GoodBlockKept ==
    ASSUME job' = job, NEW b \in Nat, GoodBlock(b),
           \A i \in 1 .. BlockLen : coded'[b * BlockLen + i] = coded[b * BlockLen + i]
    PROVE  GoodBlock(b)'
<1>1. \A p : InBlock(b, p)' = InBlock(b, p)
    BY DEF InBlock, msgchunk, max_mlen
<1>2. max_mlen' = max_mlen
    BY DEF max_mlen
<1>3. b * BlockLen \in Nat
    BY Sizes, ProductOrder
<1>4. ASSUME NEW p \in 0 .. max_mlen - 1
      PROVE  coded'[b * BlockLen + p + 1] = InBlock(b, p)'
  <2>1. p + 1 \in 1 .. BlockLen /\ b * BlockLen + p + 1 = b * BlockLen + (p + 1)
      BY <1>3, Sizes
  <2>2. coded'[b * BlockLen + (p + 1)] = coded[b * BlockLen + (p + 1)]
      BY <2>1
  <2>3. coded[b * BlockLen + p + 1] = InBlock(b, p)
      BY DEF GoodBlock
  <2> QED
      BY <1>1, <2>1, <2>2, <2>3
<1>5. Block(b)' = Block(b)
    BY DEF Block
<1>6. IsCodeword(Block(b))'
    BY <1>5 DEF GoodBlock, IsCodeword, IsWord
<1>7. \A p \in 0 .. max_mlen' - 1 : coded'[b * BlockLen + p + 1] = InBlock(b, p)'
    BY <1>2, <1>4
<1> QED
    BY <1>6, <1>7 DEF GoodBlock

\* A block, cut out of the coded message.
LEMMA BlockIs ==
    ASSUME IsSeq(coded), NEW b \in Nat, (b + 1) * BlockLen <= Len(coded)
    PROVE  /\ SubSeq(coded, b * BlockLen + 1, (b + 1) * BlockLen) = Block(b)
           /\ Len(Block(b)) = BlockLen
<1> DEFINE base == b * BlockLen
           word == SubSeq(coded, base + 1, (b + 1) * BlockLen)
<1>1. base \in Nat /\ (b + 1) * BlockLen = base + BlockLen
    BY Sizes, ProductOrder
<1>2. PICK S : coded \in Seq(S)
    BY DEF IsSeq
<1>3. Len(coded) \in Nat
    BY <1>2
<1> HIDE DEF base
<1>4. word = [i \in 1 .. BlockLen |-> coded[base + i]] /\ Len(word) = BlockLen
  <2>1. word = SubSeq(coded, base + 1, base + BlockLen)
      BY <1>1
  <2>2. base + BlockLen <= Len(coded)
      BY <1>1
  <2> DEFINE m == base + 1
             n == base + BlockLen
  <2>3. m \in 1 .. Len(coded) + 1 /\ n \in m - 1 .. Len(coded) /\ n - m + 1 = BlockLen
        /\ BlockLen \in Nat
      BY <1>1, <1>3, <2>2, Sizes
  <2> HIDE DEF m, n
  <2>4. /\ SubSeq(coded, m, n) \in Seq(S)
        /\ Len(SubSeq(coded, m, n)) = IF m <= n THEN n - m + 1 ELSE 0
        /\ \A i \in 1 .. n - m + 1 : SubSeq(coded, m, n)[i] = coded[m + i - 1]
      BY <1>2, <2>3, SubSeqProperties
  <2>5. m <= n /\ \A i \in 1 .. BlockLen : m + i - 1 = base + i
      BY <1>1, Sizes DEF m, n
  <2>6. word = SubSeq(coded, m, n)
      BY <2>1 DEF m, n
  <2> HIDE DEF word
  <2>7. word \in Seq(S) /\ Len(word) = BlockLen /\ \A i \in 1 .. BlockLen : word[i] = coded[base + i]
      BY <2>3, <2>4, <2>5, <2>6
  <2>8. word = [i \in 1 .. BlockLen |-> word[i]]
      BY <2>7
  <2> QED
      BY <2>7, <2>8
<1>5. word = Block(b) /\ Len(word) = BlockLen
    BY <1>4 DEF Block, base
<1> QED
    BY <1>5 DEF word, base

\* The decoder finds nothing wrong with a good block.
LEMMA GoodBlockAgrees ==
    ASSUME IsSeq(coded), NEW b \in Nat, GoodBlock(b), (b + 1) * BlockLen <= Len(coded)
    PROVE  Syndrome(SubSeq(coded, b * BlockLen + 1, (b + 1) * BlockLen)) = Zero
<1> DEFINE word == SubSeq(coded, b * BlockLen + 1, (b + 1) * BlockLen)
<1>1. word = Block(b) /\ Len(Block(b)) = BlockLen /\ BlockLen \in Nat
    BY BlockIs, Sizes
<1>2. IsCodeword(Block(b))
    BY DEF GoodBlock
<1> HIDE DEF word
<1>3. Len(word) \in Nat /\ \A e \in 1 .. NPAR : IsZeroAt(gexp(e), word, Len(word))
    BY <1>1, <1>2 DEF IsCodeword
<1>4. Syndrome(word) = Zero
    BY <1>3, ZeroSyndrome
<1> QED
    BY <1>4 DEF word

\* Where a byte is appended, and where the others are.
LEMMA AppendAt ==
    ASSUME NEW s, IsSeq(s), NEW x
    PROVE  /\ \A i \in 1 .. Len(s) : Append(s, x)[i] = s[i]
           /\ Append(s, x)[Len(s) + 1] = x
<1>1. PICK S : s \in Seq(S)
    BY DEF IsSeq
<1> DEFINE T == S \cup {x}
<1>2. s \in Seq(T) /\ x \in T /\ Len(s) \in Nat
    BY <1>1
<1> HIDE DEF T
<1> QED
    BY <1>2, AppendProperties

\* An empty register has no parity.
LEMMA NoShiftIsZero ==
    ASSUME NEW e \in 1 .. NPAR, NEW w
    PROVE  /\ NoShift \in Registers
           /\ IsZeroAt(gexp(e), WithParity(w, 0, NoShift), 0 + NPAR)
<1> DEFINE h == [i \in 0 .. NPAR |-> 0]
           p == WithParity(w, 0, NoShift)
<1>1. NPAR \in Nat \ {0} /\ 0 + NPAR = NPAR
    BY ReedSolomonAssumption
<1>2. NoShift \in Registers
    BY SmallBytes DEF NoShift, Registers
<1>3. \A i \in 1 .. NPAR : p[i] = 0
  <2> SUFFICES ASSUME NEW i \in 1 .. NPAR PROVE p[i] = 0
      OBVIOUS
  <2>1. ~ (i <= 0) /\ NPAR - (i - 0) \in 0 .. NPAR - 1 /\ i \in 1 .. 0 + NPAR
      BY <1>1
  <2>2. p[i] = NoShift[NPAR - (i - 0)]
      BY <2>1 DEF WithParity
  <2> QED
      BY <2>1, <2>2 DEF NoShift
<1>4. h \in [0 .. NPAR -> Byte]
    BY SmallBytes
<1>5. ASSUME NEW i \in 1 .. NPAR PROVE h[i] = Xor(p[i], gmult(gexp(e), h[i - 1]))
  <2>1. i \in 0 .. NPAR /\ i - 1 \in 0 .. NPAR
      BY <1>1
  <2>2. h[i] = 0 /\ h[i - 1] = 0
      BY <2>1
  <2>3. gmult(gexp(e), 0) = 0 /\ Xor(0, 0) = 0
      BY MultFacts, XorFacts, SmallBytes
  <2> QED
      BY <1>3, <2>2, <2>3
<1>6. h[0] = 0 /\ h[NPAR] = 0
    BY <1>1
<1> HIDE DEF h, p
<1>7. IsHorner(h, gexp(e), p, NPAR)
    BY <1>4, <1>5 DEF IsHorner
<1>8. IsZeroAt(gexp(e), p, 0 + NPAR)
    BY <1>1, <1>6, <1>7 DEF IsZeroAt
<1> QED
    BY <1>2, <1>8 DEF p

\* Data stays with the job.
LEMMA DataKept ==
    ASSUME job' = job, NEW b
    PROVE  Data(b)' = Data(b) /\ \A p : InBlock(b, p)' = InBlock(b, p)
BY DEF Data, InBlock, msgchunk, max_mlen

\* The number of blocks too.
LEMMA NBlocksKept ==
    ASSUME job' = job
    PROVE  NBlocks(job.len)' = NBlocks(job.len)
BY DEF NBlocks, msgchunk, max_mlen

\* Nothing is coded at first.
LEMMA CodeStart == Init => CodeInv
<1> SUFFICES ASSUME Init PROVE CodeInv
    OBVIOUS
<1>1. /\ block = 0 /\ at = 0 /\ pc = "encode" /\ lfsr = NoShift
    BY DEF Init
<1>2. lfsr \in Registers
    BY <1>1, ReedSolomonAssumption, NoShiftIsZero
<1>3. \A e \in 1 .. NPAR : IsZeroAt(gexp(e), WithParity(Data(block), at, lfsr), at + NPAR)
    BY <1>1, NoShiftIsZero
<1>4. GoodFront
    BY <1>1, <1>2, <1>3 DEF GoodFront
<1> QED
    BY <1>1, <1>4 DEF CodeInv

\* The blocks before this one stay when bytes are added.
LEMMA EarlierKept ==
    ASSUME job' = job, block \in Nat, Len(coded) \in Nat, block * BlockLen <= Len(coded),
           \A i \in 1 .. Len(coded) : coded'[i] = coded[i],
           \A b \in 0 .. block - 1 : GoodBlock(b)
    PROVE  \A b \in 0 .. block - 1 : GoodBlock(b)'
<1> SUFFICES ASSUME NEW b \in 0 .. block - 1 PROVE GoodBlock(b)'
    OBVIOUS
<1>1. b \in Nat /\ b < block /\ BlockLen \in Nat
    BY Sizes
<1>2. b * BlockLen + BlockLen <= block * BlockLen /\ b * BlockLen \in Nat
      /\ block * BlockLen \in Nat
    BY <1>1, ProductOrder
<1>3. \A i \in 1 .. BlockLen : b * BlockLen + i \in 1 .. Len(coded)
    BY <1>1, <1>2
<1>4. \A i \in 1 .. BlockLen : coded'[b * BlockLen + i] = coded[b * BlockLen + i]
    BY <1>3
<1>5. GoodBlock(b)
    OBVIOUS
<1> QED
    BY <1>1, <1>4, <1>5, GoodBlockKept

\* A byte enters the block and the register.
LEMMA EncodeByteCode ==
    ASSUME SizeInv, CodeInv, EncodeByte
    PROVE  CodeInv'
<1> DEFINE x == InBlock(block, at)
           base == block * BlockLen
<1>1. /\ job' = job /\ block' = block /\ pc = "encode" /\ pc' = "encode" /\ at < max_mlen
      /\ at' = at + 1 /\ coded' = Append(coded, x) /\ lfsr' = Shift(lfsr, x)
    BY DEF EncodeByte
<1>2. Coding /\ IsSeq(coded) /\ job \in Jobs /\ block \in Nat
    BY <1>1 DEF SizeInv
<1>3. GoodFront /\ \A b \in 0 .. block - 1 : GoodBlock(b)
    BY <1>1 DEF CodeInv
<1>4. at \in Nat /\ at \in 0 .. max_mlen - 1 /\ Len(coded) = base + at /\ block < NBlocks(job.len)
    BY <1>1, <1>2, Sizes DEF Coding
<1>5. base \in Nat
    BY <1>2, Sizes, ProductOrder
<1>6. Len(coded) \in Nat /\ base <= Len(coded)
    BY <1>4, <1>5
<1>7. x \in Byte
    BY <1>2, <1>4, InBlockBytes
<1> HIDE DEF x, base
<1>8. /\ \A i \in 1 .. Len(coded) : coded'[i] = coded[i]
      /\ coded'[Len(coded) + 1] = x
    BY <1>1, <1>2, AppendAt
<1>9. \A b \in 0 .. block - 1 : GoodBlock(b)'
    BY <1>1, <1>2, <1>3, <1>6, <1>8, EarlierKept DEF base
<1>10. lfsr \in Registers
    BY <1>3 DEF GoodFront
<1>11. lfsr' \in Registers
    BY <1>1, <1>7, <1>10, ShiftFacts
<1>12. ASSUME NEW p \in 0 .. at PROVE coded'[base + p + 1] = InBlock(block, p)
  <2>1. CASE p = at
    <3>1. base + p + 1 = Len(coded) + 1
        BY <1>4, <1>5, <2>1
    <3> QED
        BY <1>8, <2>1, <3>1 DEF x
  <2>2. CASE p # at
    <3>1. p \in 0 .. at - 1 /\ base + p + 1 \in 1 .. Len(coded)
        BY <1>4, <1>5, <2>2
    <3>2. coded[base + p + 1] = InBlock(block, p)
        BY <1>3, <3>1 DEF GoodFront, base
    <3> QED
        BY <1>8, <3>1, <3>2
  <2> QED
      BY <2>1, <2>2
<1>13. ASSUME NEW e \in 1 .. NPAR
       PROVE  IsZeroAt(gexp(e), WithParity(Data(block), at + 1, Shift(lfsr, x)), at + 1 + NPAR)
  <2> DEFINE w == Data(block)
  <2>1. \A i \in 1 .. at : w[i] \in Byte /\ w[i] = w[i]
    <3> SUFFICES ASSUME NEW i \in 1 .. at PROVE w[i] \in Byte
        OBVIOUS
    <3>1. i - 1 \in 0 .. max_mlen - 1 /\ i \in 1 .. max_mlen
        BY <1>4, Sizes
    <3>2. w[i] = InBlock(block, i - 1)
        BY <3>1 DEF Data
    <3>3. InBlock(block, i - 1) \in Byte
        BY <1>2, <1>4, <3>1, InBlockBytes
    <3> QED
        BY <3>2, <3>3
  <2>2. w[at + 1] = x
    <3>1. at + 1 \in 1 .. max_mlen /\ (at + 1) - 1 = at
        BY <1>4, Sizes
    <3> QED
        BY <3>1 DEF Data, x
  <2>3. IsZeroAt(gexp(e), WithParity(w, at, lfsr), at + NPAR)
      BY <1>3 DEF GoodFront
  <2> HIDE DEF w
  <2>4. IsZeroAt(gexp(e), WithParity(w, at + 1, Shift(lfsr, x)), at + 1 + NPAR)
      BY <1>4, <1>7, <1>10, <2>1, <2>2, <2>3, ShiftKeepsZero
  <2> QED
      BY <2>4 DEF w
<1>14. GoodFront'
  <2>1. (at + 1) - 1 = at
      BY <1>4
  <2>2. \A p \in 0 .. at' - 1 : coded'[block * BlockLen + p + 1] = InBlock(block, p)
      BY <1>1, <1>12, <2>1 DEF base
  <2>3. \A e \in 1 .. NPAR :
           IsZeroAt(gexp(e), WithParity(Data(block), at', lfsr'), at' + NPAR)
      BY <1>1, <1>13
  <2>4. Data(block)' = Data(block) /\ \A p : InBlock(block, p)' = InBlock(block, p)
      BY <1>1, DataKept
  <2> QED
      BY <1>1, <1>11, <2>2, <2>3, <2>4 DEF GoodFront
<1> QED
    BY <1>1, <1>3, <1>9, <1>14 DEF CodeInv

\* The block gets its parity.
LEMMA EncodeParityCode ==
    ASSUME SizeInv, CodeInv, EncodeParity
    PROVE  CodeInv'
<1> DEFINE base == block * BlockLen
           parity == Parity(lfsr)
<1>1. /\ job' = job /\ block' = block + 1 /\ pc = "encode" /\ at = max_mlen /\ at' = 0
      /\ coded' = coded \o parity /\ lfsr' = NoShift
      /\ pc' = IF block + 1 = NBlocks(job.len) THEN "stuff" ELSE pc
    BY DEF EncodeParity
<1>2. Coding /\ IsSeq(coded) /\ job \in Jobs /\ block \in Nat
    BY <1>1 DEF SizeInv
<1>3. GoodFront /\ \A b \in 0 .. block - 1 : GoodBlock(b)
    BY <1>1 DEF CodeInv
<1>4. max_mlen \in Nat /\ Len(coded) = base + max_mlen /\ NPAR \in Nat
    BY <1>1, <1>2, Sizes DEF Coding
<1>5. base \in Nat
    BY <1>2, Sizes, ProductOrder
<1>6. Len(coded) \in Nat /\ base <= Len(coded)
    BY <1>4, <1>5
<1>7. parity = [i \in 1 .. NPAR |-> lfsr[NPAR - i]]
    BY DEF Parity
<1>8. parity = [i \in 1 .. NPAR |-> parity[i]]
    BY <1>7
<1> HIDE DEF base, parity
<1>9. coded' = [i \in 1 .. Len(coded) + NPAR |->
                  IF i <= Len(coded) THEN coded[i] ELSE parity[i - Len(coded)]]
  <2>1. coded \o parity = [i \in 1 .. Len(coded) + NPAR |->
                  IF i <= Len(coded) THEN coded[i] ELSE parity[i - Len(coded)]]
      BY <1>2, <1>4, <1>8, ConcatIs, SMTT(30)
  <2> QED
      BY <1>1, <2>1
<1>10. /\ \A i \in 1 .. Len(coded) : coded'[i] = coded[i]
       /\ \A i \in 1 .. NPAR : coded'[Len(coded) + i] = lfsr[NPAR - i]
  <2>1. \A i \in 1 .. Len(coded) : i \in 1 .. Len(coded) + NPAR /\ i <= Len(coded)
      BY <1>4, <1>6
  <2>2. \A i \in 1 .. NPAR : /\ Len(coded) + i \in 1 .. Len(coded) + NPAR
                             /\ ~ (Len(coded) + i <= Len(coded))
                             /\ (Len(coded) + i) - Len(coded) = i
      BY <1>4, <1>6
  <2>3. \A i \in 1 .. Len(coded) : coded'[i] = coded[i]
      BY <1>9, <2>1
  <2>4. ASSUME NEW i \in 1 .. NPAR PROVE coded'[Len(coded) + i] = lfsr[NPAR - i]
    <3>1. coded'[Len(coded) + i] = parity[i]
        BY <1>9, <2>2
    <3> QED
        BY <1>7, <3>1
  <2> QED
      BY <2>3, <2>4
<1>11. \A b \in 0 .. block - 1 : GoodBlock(b)'
    BY <1>1, <1>2, <1>3, <1>6, <1>10, EarlierKept DEF base
<1>12. \A p \in 0 .. max_mlen - 1 : coded'[base + p + 1] = InBlock(block, p)
  <2> SUFFICES ASSUME NEW p \in 0 .. max_mlen - 1
               PROVE  coded'[base + p + 1] = InBlock(block, p)
      OBVIOUS
  <2>1. p \in 0 .. at - 1 /\ base + p + 1 \in 1 .. Len(coded)
      BY <1>1, <1>4, <1>5
  <2>2. coded[base + p + 1] = InBlock(block, p)
      BY <1>3, <2>1 DEF GoodFront, base
  <2> QED
      BY <1>10, <2>1, <2>2
<1>13. [i \in 1 .. BlockLen |-> coded'[base + i]] = WithParity(Data(block), max_mlen, lfsr)
  <2> DEFINE w == WithParity(Data(block), max_mlen, lfsr)
  <2>1. BlockLen = max_mlen + NPAR
      BY Sizes
  <2>2. w = [i \in 1 .. BlockLen |-> w[i]]
      BY <2>1 DEF WithParity
  <2>3. ASSUME NEW i \in 1 .. BlockLen PROVE coded'[base + i] = w[i]
    <3>1. w[i] = IF i <= max_mlen THEN Data(block)[i] ELSE lfsr[NPAR - (i - max_mlen)]
        BY <2>1 DEF WithParity
    <3> HIDE DEF w
    <3>2. CASE i <= max_mlen
      <4>1. i \in 1 .. max_mlen /\ i - 1 \in 0 .. max_mlen - 1 /\ base + (i - 1) + 1 = base + i
          BY <1>4, <1>5, <3>2
      <4>2. Data(block)[i] = InBlock(block, i - 1)
          BY <4>1 DEF Data
      <4> QED
          BY <1>12, <3>1, <3>2, <4>1, <4>2
    <3>3. CASE ~ (i <= max_mlen)
      <4>1. i - max_mlen \in 1 .. NPAR /\ base + i = Len(coded) + (i - max_mlen)
          BY <1>4, <1>5, <2>1, <3>3
      <4> QED
          BY <1>10, <3>1, <3>3, <4>1
    <3> QED
        BY <3>2, <3>3
  <2> HIDE DEF w
  <2>4. [i \in 1 .. BlockLen |-> coded'[base + i]] = w
      BY <2>2, <2>3
  <2> QED
      BY <2>4 DEF w
<1>14. PICK k \in Nat : k = block
    BY <1>2
<1>15. GoodBlock(k)'
  <2>1. IsCodeword(Block(k))'
    <3> DEFINE w == WithParity(Data(block), max_mlen, lfsr)
    <3>1. Block(k)' = w
        BY <1>13, <1>14 DEF Block, base
    <3>2. \A e \in 1 .. NPAR : IsZeroAt(gexp(e), w, BlockLen)
      <4>1. \A e \in 1 .. NPAR : IsZeroAt(gexp(e), w, max_mlen + NPAR)
          BY <1>1, <1>3 DEF GoodFront
      <4>2. max_mlen + NPAR = BlockLen
          BY Sizes
      <4> QED
          BY <4>1, <4>2
    <3>3. ASSUME NEW i \in 1 .. BlockLen PROVE w[i] \in Byte
      <4>1. BlockLen = max_mlen + NPAR
          BY Sizes
      <4>2. w[i] = IF i <= max_mlen THEN Data(block)[i] ELSE lfsr[NPAR - (i - max_mlen)]
          BY <4>1 DEF WithParity
      <4>3. CASE i <= max_mlen
        <5>1. i \in 1 .. max_mlen /\ i - 1 \in 0 .. max_mlen - 1
            BY <1>4, <4>3
        <5>2. InBlock(block, i - 1) \in Byte
            BY <1>2, <5>1, InBlockBytes DEF Coding
        <5> QED
            BY <4>2, <4>3, <5>1, <5>2 DEF Data
      <4>4. CASE ~ (i <= max_mlen)
        <5>1. NPAR - (i - max_mlen) \in 0 .. NPAR - 1
            BY <1>4, <4>1, <4>4
        <5>2. lfsr[NPAR - (i - max_mlen)] \in Byte
            BY <1>3, <5>1 DEF GoodFront, Registers
        <5> QED
            BY <4>2, <4>4, <5>2
      <4> QED
          BY <4>3, <4>4
    <3>4. IsCodeword(w)
        BY <3>2, <3>3 DEF IsCodeword, IsWord
    <3>5. IsCodeword(Block(k)')
        BY <3>1, <3>4
    <3> QED
        BY <3>5 DEF IsCodeword, IsWord
  <2>2. \A p : InBlock(k, p)' = InBlock(k, p)
      BY <1>1, DataKept
  <2>3. \A p \in 0 .. max_mlen - 1 : coded'[k * BlockLen + p + 1] = InBlock(k, p)'
      BY <1>12, <1>14, <2>2 DEF base
  <2>4. max_mlen' = max_mlen
      BY DEF max_mlen
  <2> QED
      BY <2>1, <2>3, <2>4 DEF GoodBlock
<1>16. \A b \in 0 .. block' - 1 : GoodBlock(b)'
  <2> SUFFICES ASSUME NEW b \in 0 .. block' - 1 PROVE GoodBlock(b)'
      OBVIOUS
  <2>1. b \in 0 .. block - 1 \/ b = k
      BY <1>1, <1>14
  <2> QED
      BY <1>11, <1>15, <2>1
<1>17. pc' = "encode" => GoodFront'
  <2>1. lfsr' \in Registers
      BY <1>1, ReedSolomonAssumption, NoShiftIsZero
  <2>2. \A e \in 1 .. NPAR :
           IsZeroAt(gexp(e), WithParity(Data(block)', at', lfsr'), at' + NPAR)
      BY <1>1, NoShiftIsZero
  <2>3. \A p \in 0 .. at' - 1 : coded'[block' * BlockLen + p + 1] = InBlock(block, p)'
      BY <1>1
  <2> QED
      BY <2>1, <2>2, <2>3 DEF GoodFront
<1>18. pc' = "stuff" => block' = NBlocks(job.len)'
    BY <1>1, NBlocksKept
<1> QED
    BY <1>16, <1>17, <1>18 DEF CodeInv

\* No step breaks the invariant.
LEMMA CodeNext ==
    ASSUME SizeInv, CodeInv, [Next]_vars
    PROVE  CodeInv'
<1>1. CASE Overflow \/ Transmit \/ Beyond \/ DecodeData \/ Massey \/ CorrectErrors \/ TakeBlock
  <2>1. pc' \notin {"encode", "stuff"}
      BY <1>1 DEF Overflow, Transmit, Beyond, DecodeData, Massey, CorrectErrors, TakeBlock
  <2> QED
      BY <2>1 DEF CodeInv
<1>2. CASE UNCHANGED vars
  <2>1. UNCHANGED <<job, pc, block, at, lfsr, coded>>
      BY <1>2 DEF vars
  <2>2. CodeInv' = CodeInv
      BY <2>1 DEF CodeInv, GoodFront, GoodBlock, Block, Data, InBlock, max_mlen, msgchunk, NBlocks
  <2> QED
      BY <2>2
<1> QED
    BY <1>1, <1>2, EncodeByteCode, EncodeParityCode DEF Next

-----------------------------------------------------------------------------
(* The decoder repairs the blocks.                                         *)

\* Block b can be repaired: c is what was sent of it, and what is wrong with it is
\* within the power of the code.
Repairable(b, c) ==
    /\ \A p \in 0 .. max_mlen - 1 : c[p + 1] = InBlock(b, p)
    /\ IsCodeword(c)
    /\ IsWord(Block(b))
    /\ 2 * Cardinality(Support(ErrorsOf(Block(b), c))) <= NPAR

\* How far the Berlekamp-Massey algorithm is with the block at hand.
MasseyState(c) ==
    /\ at \in 0 .. NPAR
    /\ syn = Syndrome(Block(block))
    /\ syn # Zero
    /\ MasseyInv(syn, at, bm.psi, bm.D, bm.L)
    /\ bm.k = bm.L - 1
    /\ bm.L <= Cardinality(Support(ErrorsOf(Block(block), c)))

\* If the damage is within the power of the code, every block can be repaired until
\* it is, and then has its bytes in it.
RepairInv ==
    Decoding /\ AllRead /\ Correctable =>
        /\ \A b \in block .. NBlocks(job.len) - 1 :
              (pc = "take" => b # block) => \E c : Repairable(b, c)
        /\ pc = "massey" => \E c : Repairable(block, c) /\ MasseyState(c)
        /\ Corrected

\* A block can be repaired as long as its bytes stay.
LEMMA RepairableKept ==
    ASSUME job' = job, NEW b, NEW c, Repairable(b, c), Block(b)' = Block(b)
    PROVE  Repairable(b, c)'
<1>1. max_mlen' = max_mlen /\ \A p : InBlock(b, p)' = InBlock(b, p)
    BY DataKept DEF max_mlen
<1>2. \A p \in 0 .. max_mlen' - 1 : c[p + 1] = InBlock(b, p)'
    BY <1>1 DEF Repairable
<1> QED
    BY <1>2 DEF Repairable

\* What the receiver has room for, and what is damaged, stays.
LEMMA PowerKept ==
    ASSUME job' = job, damage' = damage, Len(coded') = Len(coded)
    PROVE  AllRead' = AllRead /\ Correctable' = Correctable
           /\ NBlocks(job.len)' = NBlocks(job.len)
BY DEF AllRead, Correctable, StreamSize, RawCapacity, Capacity, CapacityEcc, NBlocks, msgchunk,
   max_mlen

\* What the receiver's stream holds is a number.
LEMMA StreamSizeIs ==
    ASSUME job \in Jobs
    PROVE  StreamSize \in Int
<1>1. job.room \in Nat
    BY JobType
<1>2. job.room \div BlockLen \in Nat
    BY <1>1, Sizes, DivFacts
<1>3. (job.room \div BlockLen) * msgchunk \in Nat
    BY <1>2, Sizes, ProductOrder
<1> QED
    BY <1>1, <1>3 DEF StreamSize, RawCapacity, Capacity, CapacityEcc, msgchunk, JELBS_HDR_SIZE

\* Where a byte of a block is in the coded message, and which block it is in.
LEMMA BytePlace ==
    ASSUME NEW n \in Nat, NEW b \in 0 .. n - 1, NEW i \in 1 .. BlockLen
    PROVE  /\ b * BlockLen \in Nat
           /\ b * BlockLen + i \in 1 .. n * BlockLen
           /\ \A d \in Nat : (b * BlockLen + i) - d * BlockLen \in 1 .. BlockLen
                                => d = b /\ (b * BlockLen + i) - d * BlockLen = i
<1>1. b \in Nat /\ b < n /\ BlockLen \in Nat
    BY Sizes
<1>2. b * BlockLen \in Nat /\ n * BlockLen \in Nat /\ b * BlockLen + BlockLen <= n * BlockLen
    BY <1>1, ProductOrder
<1>3. ASSUME NEW d \in Nat, (b * BlockLen + i) - d * BlockLen \in 1 .. BlockLen
      PROVE  d = b
  <2>1. d * BlockLen \in Nat
      BY <1>1, ProductOrder
  <2>2. d < b => d * BlockLen + BlockLen <= b * BlockLen
      BY <1>1, ProductOrder
  <2>3. b < d => b * BlockLen + BlockLen <= d * BlockLen
      BY <1>1, ProductOrder
  <2> DEFINE x == b * BlockLen
             y == d * BlockLen
  <2>4. x \in Nat /\ y \in Nat /\ (x + i) - y \in 1 .. BlockLen
      BY <1>2, <1>3, <2>1
  <2>5. (d < b => y + BlockLen <= x) /\ (b < d => x + BlockLen <= y)
      BY <2>2, <2>3
  <2> HIDE DEF x, y
  <2> QED
      BY <1>1, <2>4, <2>5
<1>4. \A d \in Nat : d = b => (b * BlockLen + i) - d * BlockLen = i
    BY <1>1, <1>2
<1> QED
    BY <1>1, <1>2, <1>3, <1>4

\* What is damaged of a block, counted by the places.
LEMMA DamagedPlaces ==
    ASSUME NEW word, NEW c, IsWord(c), NEW places \in SUBSET (1 .. BlockLen),
           \A i \in 1 .. BlockLen : i \notin places => word[i] = c[i]
    PROVE  /\ Cardinality(Support(ErrorsOf(word, c))) \in Nat
           /\ Cardinality(places) \in Nat
           /\ Cardinality(Support(ErrorsOf(word, c))) <= Cardinality(places)
<1> DEFINE S == Support(ErrorsOf(word, c))
           T == {BlockLen - i : i \in places}
           f == [i \in places |-> BlockLen - i]
<1>1. BlockLen \in Nat
    BY Sizes
<1>2. IsFiniteSet(places) /\ Cardinality(places) \in Nat
  <2>1. 1 \in Int /\ BlockLen \in Int
      BY <1>1
  <2>2. IsFiniteSet(1 .. BlockLen)
      BY <2>1, FS_Interval, Zenon
  <2>3. IsFiniteSet(places)
      BY <2>2, FS_Subset
  <2> QED
      BY <2>3, FS_CardinalityType
<1>3. f \in Surjection(places, T)
    BY DEF Surjection
<1>4. IsFiniteSet(T) /\ Cardinality(T) <= Cardinality(places)
    BY <1>2, <1>3, FS_Surjection
<1>5. S \subseteq T
  <2>1. SUFFICES ASSUME NEW l \in S PROVE l \in T
      OBVIOUS
  <2>2. l \in Places /\ ErrorsOf(word, c)[l] # 0
      BY DEF Support
  <2>3. l \in Nat /\ l < BlockLen /\ Xor(word[BlockLen - l], c[BlockLen - l]) # 0
      BY <2>2 DEF ErrorsOf, Places
  <2>4. BlockLen - l \in 1 .. BlockLen /\ BlockLen - (BlockLen - l) = l
      BY <1>1, <2>3
  <2>5. BlockLen - l \in places
    <3>1. c[BlockLen - l] \in Byte
        BY <2>4 DEF IsWord
    <3>2. Xor(c[BlockLen - l], c[BlockLen - l]) = 0
        BY <3>1, XorFacts
    <3> QED
        BY <2>3, <2>4, <3>2
  <2> QED
      BY <2>4, <2>5
<1>6. Cardinality(S) <= Cardinality(T) /\ Cardinality(S) \in Nat /\ Cardinality(T) \in Nat
    BY <1>4, <1>5, FS_Subset, FS_CardinalityType
<1> HIDE DEF S, T
<1>7. Cardinality(S) <= Cardinality(places)
    BY <1>2, <1>4, <1>6
<1> QED
    BY <1>2, <1>6, <1>7 DEF S

\* What reaches the receiver can be repaired.
LEMMA TransmitRepair ==
    ASSUME SizeInv, CodeInv, SizeInv', Transmit
    PROVE  RepairInv'
<1>1. job' = job /\ pc = "stuff" /\ pc' = "decode" /\ block' = 0
    BY DEF Transmit
<1>2. AllCoded /\ IsSeq(coded) /\ job \in Jobs /\ block \in Nat /\ Len(coded) \in Nat
  <2>1. AllCoded /\ IsSeq(coded) /\ job \in Jobs /\ block \in Nat
      BY <1>1 DEF SizeInv
  <2> QED
      BY <2>1 DEF IsSeq
<1>3. block = NBlocks(job.len) /\ \A b \in 0 .. block - 1 : GoodBlock(b)
    BY <1>1 DEF CodeInv
<1>4. PICK d \in 0 .. block - 1, places \in Damages, x \in Flips :
        /\ damage' = places
        /\ coded' = [p \in 1 .. Len(coded) |->
                       CASE p > StreamSize -> 0
                         [] p <= StreamSize /\ p - d * BlockLen \in places ->
                               Xor(coded[p], x)
                         [] p <= StreamSize /\ p - d * BlockLen \notin places ->
                               coded[p]]
    BY DEF Transmit
<1>5. places \in SUBSET (1 .. BlockLen) /\ x \in Byte /\ d \in Nat
    BY <1>2, EccAssumption DEF Byte
<1>6. Len(coded') = Len(coded)
  <2> DEFINE byte(p) == CASE p > StreamSize -> 0
                          [] p <= StreamSize /\ p - d * BlockLen \in places ->
                                Xor(coded[p], x)
                          [] p <= StreamSize /\ p - d * BlockLen \notin places ->
                                coded[p]
  <2>1. coded' = [p \in 1 .. Len(coded) |-> byte(p)]
      BY <1>4
  <2> HIDE DEF byte
  <2>2. coded' = [p \in 1 .. Len(coded) |-> coded'[p]]
      BY <2>1
  <2> QED
      BY <1>2, <2>2, MadeIsSeq
<1>7. StreamSize \in Int /\ (AllRead' => Len(coded) <= StreamSize)
  <2>1. StreamSize' = StreamSize
      BY <1>1 DEF StreamSize, RawCapacity, Capacity, CapacityEcc, max_mlen
  <2> QED
      BY <1>2, <1>6, <2>1, StreamSizeIs DEF AllRead
<1>8. NBlocks(job.len)' = NBlocks(job.len)
    BY <1>1, NBlocksKept
<1>9. ASSUME AllRead', Correctable', NEW b \in 0 .. block - 1
      PROVE  \E c : Repairable(b, c)'
  <2>1. PICK c : c = Block(b)
      OBVIOUS
  <2>2. b \in Nat /\ GoodBlock(b)
      BY <1>2, <1>3
  <2>3. IsCodeword(c) /\ IsWord(c)
      BY <2>1, <2>2 DEF GoodBlock, IsCodeword
  <2>4. ASSUME NEW i \in 1 .. BlockLen
        PROVE  /\ c[i] \in Byte
               /\ coded'[b * BlockLen + i] = IF b = d /\ i \in places THEN Xor(c[i], x) ELSE c[i]
    <3> DEFINE q == b * BlockLen + i
    <3>1. q \in 1 .. Len(coded) /\ b * BlockLen \in Nat
        BY <1>2, <1>3, BytePlace DEF AllCoded
    <3>2. q - d * BlockLen \in 1 .. BlockLen => d = b /\ q - d * BlockLen = i
      <4>1. \A k \in Nat : (b * BlockLen + i) - k * BlockLen \in 1 .. BlockLen
                              => k = b /\ (b * BlockLen + i) - k * BlockLen = i
          BY <1>2, BytePlace, ZenonT(40)
      <4> QED
          BY <1>5, <4>1
    <3>3. b = d => q - d * BlockLen = i
        BY <3>1
    <3>4. c[i] = coded[q] /\ c[i] \in Byte
        BY <2>1, <2>3 DEF Block, IsWord
    <3>5. q - d * BlockLen \in places <=> b = d /\ i \in places
        BY <1>5, <3>2, <3>3
    <3>6. q <= StreamSize /\ ~ (q > StreamSize)
        BY <1>2, <1>7, <1>9, <3>1
    <3> HIDE DEF q
    <3>7. coded'[q] = CASE q > StreamSize -> 0
                        [] q <= StreamSize /\ q - d * BlockLen \in places -> Xor(coded[q], x)
                        [] q <= StreamSize /\ q - d * BlockLen \notin places -> coded[q]
        BY <1>4, <3>1
    <3>8. coded'[q] = IF q - d * BlockLen \in places THEN Xor(coded[q], x) ELSE coded[q]
        BY <3>6, <3>7
    <3>9. coded'[q] = IF b = d /\ i \in places THEN Xor(c[i], x) ELSE c[i]
        BY <3>4, <3>5, <3>8
    <3> QED
        BY <3>4, <3>9 DEF q
  <2> DEFINE word == Block(b)'
  <2>5. \A i \in 1 .. BlockLen :
           word[i] = IF b = d /\ i \in places THEN Xor(c[i], x) ELSE c[i]
      BY <2>4 DEF Block
  <2> HIDE DEF word
  <2>6. IsWord(word)
      BY <1>5, <2>4, <2>5, XorFacts DEF IsWord
  <2>7. \A i \in 1 .. BlockLen : i \notin places => word[i] = c[i]
      BY <2>5
  <2>8. /\ Cardinality(Support(ErrorsOf(word, c))) \in Nat
        /\ Cardinality(places) \in Nat
        /\ Cardinality(Support(ErrorsOf(word, c))) <= Cardinality(places)
      BY <1>5, <2>3, <2>7, DamagedPlaces
  <2>9. Cardinality(places) <= NPAR \div 2
      BY <1>4, <1>9 DEF Correctable
  <2>10. 2 * Cardinality(Support(ErrorsOf(word, c))) <= NPAR
      BY <2>8, <2>9, ReedSolomonAssumption
  <2>11. \A p \in 0 .. max_mlen' - 1 : c[p + 1] = InBlock(b, p)'
    <3>1. max_mlen' = max_mlen /\ \A p : InBlock(b, p)' = InBlock(b, p)
        BY <1>1, DataKept DEF max_mlen
    <3>2. ASSUME NEW p \in 0 .. max_mlen - 1 PROVE c[p + 1] = InBlock(b, p)
      <4>1. p + 1 \in 1 .. BlockLen /\ b * BlockLen \in Nat
            /\ b * BlockLen + p + 1 = b * BlockLen + (p + 1)
          BY <2>2, Sizes, ProductOrder
      <4> QED
          BY <2>1, <2>2, <4>1 DEF Block, GoodBlock
    <3> QED
        BY <3>1, <3>2
  <2>12. Repairable(b, c)'
      BY <2>3, <2>6, <2>10, <2>11 DEF word, Repairable
  <2> QED
      BY <2>12
<1>10. AllRead' /\ Correctable' =>
          \A b \in block' .. NBlocks(job.len)' - 1 : \E c : Repairable(b, c)'
    BY <1>1, <1>3, <1>8, <1>9
<1>11. Corrected'
    BY <1>1 DEF Corrected
<1> QED
    BY <1>1, <1>10, <1>11 DEF RepairInv

\* The block at hand, and what it was.
LEMMA BlockAtHand ==
    ASSUME FrameInv, RepairInv, pc \in {"decode", "massey"}, AllRead, Correctable
    PROVE  /\ block \in Nat /\ block \in block .. NBlocks(job.len) - 1
           /\ Word = Block(block) /\ Len(Block(block)) = BlockLen
           /\ \E c : Repairable(block, c)
<1>1. Decoding /\ block \in Nat /\ IsSeq(coded) /\ job \in Jobs
    BY DEF Decoding, FrameInv, SizeInv
<1>2. block < NBlocks(job.len) /\ NBlocks(job.len) \in Nat
      /\ block * BlockLen \in Nat /\ block * BlockLen + BlockLen <= Len(coded)
    BY <1>1, BlockInside, JobType, BlocksOf
<1>3. (block + 1) * BlockLen = block * BlockLen + BlockLen
    BY <1>1, Sizes, ProductOrder
<1>4. (block + 1) * BlockLen <= Len(coded)
    BY <1>2, <1>3
<1>5. Word = Block(block) /\ Len(Block(block)) = BlockLen
    BY <1>1, <1>4, BlockIs DEF Word
<1>6. block \in block .. NBlocks(job.len) - 1
    BY <1>1, <1>2
<1>7. \E c : Repairable(block, c)
    BY <1>1, <1>6 DEF RepairInv
<1> QED
    BY <1>1, <1>5, <1>6, <1>7

\* What can be repaired, in terms of the errors.
LEMMA RepairableFacts ==
    ASSUME NEW b, NEW c, Repairable(b, c), Len(Block(b)) = BlockLen
    PROVE  /\ IsCodeword(c) /\ IsWord(Block(b))
           /\ ErrorsOf(Block(b), c) \in Weights
           /\ IsSyndrome(Syndrome(Block(b)), ErrorsOf(Block(b), c))
           /\ Cardinality(Support(ErrorsOf(Block(b), c))) \in Nat
           /\ Cardinality(Support(ErrorsOf(Block(b), c))) <= NPAR
<1>1. IsCodeword(c) /\ IsWord(Block(b)) /\ IsWord(c)
    BY DEF Repairable, IsCodeword
<1>2. ErrorsOf(Block(b), c) \in Weights
    BY <1>1, ErrorsAre
<1>3. IsSyndrome(Syndrome(Block(b)), ErrorsOf(Block(b), c))
    BY <1>1, SyndromeOfErrors
<1>4. Cardinality(Support(ErrorsOf(Block(b), c))) \in Nat
    BY SupportFinite
<1>5. 2 * Cardinality(Support(ErrorsOf(Block(b), c))) <= NPAR /\ NPAR \in Nat
    BY ReedSolomonAssumption DEF Repairable
<1>6. Cardinality(Support(ErrorsOf(Block(b), c))) <= NPAR
    BY <1>4, <1>5
<1> QED
    BY <1>1, <1>2, <1>3, <1>4, <1>6

\* A block without a syndrome is as it was; with one, its correction begins.
LEMMA DecodeDataRepair ==
    ASSUME FrameInv, RepairInv, DecodeData
    PROVE  RepairInv'
<1>1. /\ UNCHANGED <<job, coded, damage, block>> /\ pc = "decode" /\ bm' = NoMassey /\ at' = 0
      /\ syn' = Syndrome(Word)
      /\ pc' = IF \A j \in Degrees : syn'[j] = 0 THEN "take" ELSE "massey"
    BY DEF DecodeData
<1>2. SUFFICES ASSUME AllRead', Correctable'
               PROVE  /\ \A b \in block' .. NBlocks(job.len)' - 1 : \E c : Repairable(b, c)'
                      /\ pc' = "massey" => \E c : Repairable(block, c)' /\ MasseyState(c)'
                      /\ Corrected'
    BY <1>1 DEF RepairInv
<1>3. AllRead /\ Correctable /\ NBlocks(job.len)' = NBlocks(job.len)
    BY <1>1, <1>2, PowerKept
<1>4. PICK k : k = block
    OBVIOUS
<1>5. /\ k \in Nat /\ k \in block .. NBlocks(job.len) - 1
      /\ Word = Block(k) /\ Len(Block(k)) = BlockLen
      /\ \E c : Repairable(k, c)
    BY <1>1, <1>3, <1>4, BlockAtHand
<1>6. ASSUME NEW b, NEW c, Repairable(b, c) PROVE Repairable(b, c)'
  <2>1. Block(b)' = Block(b)
      BY <1>1 DEF Block
  <2> QED
      BY <1>1, <1>6, <2>1, RepairableKept
<1>7. \A b \in block' .. NBlocks(job.len)' - 1 : \E c : Repairable(b, c)'
  <2>1. \A b \in block .. NBlocks(job.len) - 1 : \E c : Repairable(b, c)
      BY <1>1, <1>3 DEF RepairInv, Decoding
  <2> QED
      BY <1>1, <1>3, <1>6, <2>1
<1>8. PICK c : Repairable(k, c)
    BY <1>5
<1> DEFINE word == Block(k)
           S == Syndrome(word)
           E == ErrorsOf(word, c)
<1>9. /\ IsCodeword(c) /\ IsWord(word) /\ E \in Weights /\ IsSyndrome(S, E) /\ Len(word) = BlockLen
      /\ Cardinality(Support(E)) \in Nat /\ Cardinality(Support(E)) <= NPAR
    BY <1>5, <1>8, RepairableFacts
<1>10. syn' = S /\ S \in Polys
    BY <1>1, <1>5, <1>9 DEF IsSyndrome
<1>11. (\A j \in Degrees : syn'[j] = 0) <=> S = Zero
  <2> HIDE DEF S
  <2>1. S = [j \in Degrees |-> S[j]]
      BY <1>10 DEF Polys
  <2> QED
      BY <1>10, <2>1 DEF Zero
<1>12. Corrected'
  <2> SUFFICES ASSUME pc' = "take", NEW p \in 0 .. max_mlen' - 1
               PROVE  coded'[block' * BlockLen + p + 1] = InBlock(block, p)'
      BY DEF Corrected
  <2>1. S = Zero
      BY <1>1, <1>11
  <2>2. p \in 0 .. max_mlen - 1 /\ p + 1 \in 1 .. BlockLen
      BY Sizes DEF max_mlen
  <2>3. word[p + 1] = c[p + 1]
      BY <1>9, <2>1, <2>2, ErrorsFound
  <2>4. c[p + 1] = InBlock(block, p)
      BY <1>4, <1>8, <2>2 DEF Repairable
  <2>5. word[p + 1] = coded[block * BlockLen + (p + 1)]
      BY <1>4, <2>2 DEF Block
  <2>6. block * BlockLen \in Nat
      BY <1>4, <1>5, Sizes, ProductOrder
  <2>7. block * BlockLen + p + 1 = block * BlockLen + (p + 1)
      BY <2>2, <2>6
  <2>8. InBlock(block, p)' = InBlock(block, p)
      BY <1>1 DEF InBlock, msgchunk, max_mlen
  <2> QED
      BY <1>1, <2>3, <2>4, <2>5, <2>7, <2>8
<1>13. ASSUME pc' = "massey" PROVE Repairable(block, c)' /\ MasseyState(c)'
  <2>1. S # Zero
      BY <1>1, <1>11, <1>13
  <2>2. Repairable(k, c)'
      BY <1>6, <1>8
  <2>3. Block(block)' = word
      BY <1>1, <1>4 DEF Block
  <2>4. /\ bm'.psi = One /\ bm'.D = mul_z_poly(One) /\ bm'.L = 0 /\ bm'.k = -1 /\ -1 = 0 - 1
      BY <1>1 DEF NoMassey
  <2>5. MasseyInv(S, 0, One, mul_z_poly(One), 0)
      BY <1>10, MasseyStart
  <2>6. 0 \in 0 .. NPAR
      BY ReedSolomonAssumption
  <2>7. 0 <= Cardinality(Support(E))
      BY <1>9
  <2> HIDE DEF word
  <2>8. MasseyState(c)'
      BY <1>1, <1>10, <2>1, <2>3, <2>4, <2>5, <2>6, <2>7 DEF MasseyState
  <2> QED
      BY <1>1, <1>4, <2>2, <2>8
<1> QED
    BY <1>7, <1>12, <1>13

\* A pass of the algorithm.
LEMMA MasseyStep ==
    ASSUME NEW c, Massey, MasseyState(c), IsSyndrome(syn, ErrorsOf(Block(block), c)),
           ErrorsOf(Block(block), c) \in Weights
    PROVE  /\ at' \in 0 .. NPAR
           /\ MasseyInv(syn, at', bm'.psi, bm'.D, bm'.L)
           /\ bm'.k = bm'.L - 1
           /\ bm'.L <= Cardinality(Support(ErrorsOf(Block(block), c)))
<1> DEFINE E == ErrorsOf(Block(block), c)
           v == Cardinality(Support(E))
<1>1. PICK n, S, psi, D, L, d :
        n = at /\ S = syn /\ psi = bm.psi /\ D = bm.D /\ L = bm.L
        /\ d = Discrepancy(bm.psi, syn, bm.L, at)
    OBVIOUS
<1>2. /\ MasseyInv(S, n, psi, D, L) /\ bm.k = L - 1 /\ L <= v /\ S \in Polys
      /\ n \in 0 .. NPAR - 1 /\ n + 1 \in 0 .. NPAR
  <2>1. at \in 0 .. NPAR /\ at < NPAR /\ NPAR \in Nat
      BY ReedSolomonAssumption DEF MasseyState, Massey
  <2> QED
      BY <1>1, <2>1 DEF MasseyState, IsSyndrome
<1>3. n \in Nat /\ L \in Nat /\ d = Discrepancy(psi, S, L, n)
    BY <1>1, <1>2 DEF MasseyInv
<1>4. /\ at' = n + 1
      /\ bm' = [psi |-> AddScaled(psi, d, D),
                D |-> mul_z_poly(IF d # 0 /\ L < n - bm.k THEN Scale(ginv(d), psi) ELSE D),
                L |-> IF d # 0 /\ L < n - bm.k THEN n - bm.k ELSE L,
                k |-> IF d # 0 /\ L < n - bm.k THEN n - L ELSE bm.k]
    BY <1>1 DEF Massey
<1>5. (L < n - bm.k <=> 2 * L <= n) /\ n - bm.k = (n + 1) - L /\ n - L = ((n + 1) - L) - 1
    BY <1>2, <1>3
<1> HIDE DEF E, v
<1>6. CASE d # 0 /\ 2 * L <= n
  <2>1. /\ bm'.psi = AddScaled(psi, d, D) /\ bm'.D = mul_z_poly(Scale(ginv(d), psi))
        /\ bm'.L = (n + 1) - L /\ bm'.k = ((n + 1) - L) - 1
      BY <1>4, <1>5, <1>6
  <2>2. MasseyInv(S, n + 1, AddScaled(psi, d, D), mul_z_poly(Scale(ginv(d), psi)), (n + 1) - L)
      BY <1>2, <1>3, <1>6, MasseyLonger
  <2>3. MultAt(psi, S, n) # 0
    <3>1. d = MultAt(psi, S, n)
        BY <1>2, <1>3, MasseyPolys
    <3> QED
        BY <1>6, <3>1
  <2>4. E \in Weights /\ IsSyndrome(S, E)
      BY <1>1 DEF E
  <2>5. (n + 1) - L <= v
      BY <1>2, <2>3, <2>4, NotTooLong DEF v
  <2> QED
      BY <1>1, <1>2, <1>4, <2>1, <2>2, <2>5 DEF v, E
<1>7. CASE ~ (d # 0 /\ 2 * L <= n)
  <2>1. /\ bm'.psi = AddScaled(psi, d, D) /\ bm'.D = mul_z_poly(D)
        /\ bm'.L = L /\ bm'.k = L - 1
      BY <1>2, <1>4, <1>5, <1>7
  <2>2. MasseyInv(S, n + 1, AddScaled(psi, d, D), mul_z_poly(D), L)
      BY <1>2, <1>3, <1>7, MasseyKept
  <2> QED
      BY <1>1, <1>2, <1>4, <2>1, <2>2 DEF v, E
<1> QED
    BY <1>6, <1>7

\* With it, every block can be repaired as before.
LEMMA MasseyRepair ==
    ASSUME FrameInv, RepairInv, Massey
    PROVE  RepairInv'
<1>1. UNCHANGED <<job, coded, damage, block, syn, pc>> /\ pc = "massey"
    BY DEF Massey
<1>2. SUFFICES ASSUME AllRead', Correctable'
               PROVE  /\ \A b \in block' .. NBlocks(job.len)' - 1 : \E c : Repairable(b, c)'
                      /\ \E c : Repairable(block, c)' /\ MasseyState(c)'
                      /\ Corrected'
    BY <1>1 DEF RepairInv
<1>3. AllRead /\ Correctable /\ NBlocks(job.len)' = NBlocks(job.len) /\ Decoding
    BY <1>1, <1>2, PowerKept DEF Decoding
<1>4. PICK k : k = block
    OBVIOUS
<1>5. Len(Block(k)) = BlockLen
    BY <1>1, <1>3, <1>4, BlockAtHand
<1>6. ASSUME NEW b, NEW c, Repairable(b, c) PROVE Repairable(b, c)'
  <2>1. Block(b)' = Block(b)
      BY <1>1 DEF Block
  <2> QED
      BY <1>1, <1>6, <2>1, RepairableKept
<1>7. \A b \in block' .. NBlocks(job.len)' - 1 : \E c : Repairable(b, c)'
  <2>1. \A b \in block .. NBlocks(job.len) - 1 : \E c : Repairable(b, c)
      BY <1>1, <1>3 DEF RepairInv
  <2> QED
      BY <1>1, <1>3, <1>6, <2>1
<1>8. PICK c : Repairable(k, c) /\ MasseyState(c)
    BY <1>1, <1>3, <1>4 DEF RepairInv
<1>9. Repairable(k, c)'
    BY <1>6, <1>8
<1>10. /\ syn = Syndrome(Block(block)) /\ syn # Zero
       /\ ErrorsOf(Block(block), c) \in Weights /\ IsSyndrome(syn, ErrorsOf(Block(block), c))
  <2>1. syn = Syndrome(Block(k)) /\ syn # Zero
      BY <1>4, <1>8 DEF MasseyState
  <2>2. ErrorsOf(Block(k), c) \in Weights /\ IsSyndrome(Syndrome(Block(k)), ErrorsOf(Block(k), c))
      BY <1>5, <1>8, RepairableFacts
  <2> QED
      BY <1>4, <2>1, <2>2
<1>11. MasseyState(c)'
  <2>1. /\ at' \in 0 .. NPAR
        /\ MasseyInv(syn, at', bm'.psi, bm'.D, bm'.L)
        /\ bm'.k = bm'.L - 1
        /\ bm'.L <= Cardinality(Support(ErrorsOf(Block(block), c)))
      BY <1>8, <1>10, MasseyStep
  <2>2. Block(block)' = Block(block)
      BY <1>1 DEF Block
  <2> QED
      BY <1>1, <1>10, <2>1, <2>2 DEF MasseyState
<1>12. Corrected'
    BY <1>1 DEF Corrected
<1> QED
    BY <1>1, <1>4, <1>7, <1>9, <1>11, <1>12

\* The errors of the block at hand are taken away, and the other blocks stay.
LEMMA CorrectRepair ==
    ASSUME FrameInv, RepairInv, SizeInv', CorrectErrors
    PROVE  RepairInv'
<1> DEFINE fixed == Correct(Word, bm.psi, Omega(bm.psi, syn))
<1>1. /\ UNCHANGED <<job, damage, block>> /\ pc = "massey" /\ pc' = "take" /\ at = NPAR
      /\ coded' = [p \in 1 .. Len(coded) |->
                     IF p - block * BlockLen \in 1 .. BlockLen
                       THEN fixed[p - block * BlockLen] ELSE coded[p]]
    BY DEF CorrectErrors
<1>2. AllCoded /\ IsSeq(coded) /\ job \in Jobs /\ block \in Nat /\ Len(coded') = Len(coded)
      /\ NBlocks(job.len) \in Nat
  <2>1. AllCoded /\ IsSeq(coded) /\ job \in Jobs /\ block \in Nat
      BY <1>1 DEF FrameInv, SizeInv
  <2>2. coded' = [p \in 1 .. Len(coded) |-> coded'[p]]
      BY <1>1
  <2>3. Len(coded') = Len(coded)
      BY <1>1, <2>1, <2>2, ChangeSizes DEF FrameInv
  <2> QED
      BY <2>1, <2>3, JobType, BlocksOf
<1>3. SUFFICES ASSUME AllRead', Correctable'
               PROVE  /\ \A b \in block' .. NBlocks(job.len)' - 1 :
                            b # block' => \E c : Repairable(b, c)'
                      /\ Corrected'
    BY <1>1 DEF RepairInv
<1>4. AllRead /\ Correctable /\ NBlocks(job.len)' = NBlocks(job.len) /\ Decoding
    BY <1>1, <1>2, <1>3, PowerKept DEF Decoding
<1>5. PICK k : k = block
    OBVIOUS
<1>6. /\ k \in Nat /\ k \in 0 .. NBlocks(job.len) - 1
      /\ Word = Block(k) /\ Len(Block(k)) = BlockLen
  <2>1. k \in block .. NBlocks(job.len) - 1 /\ Word = Block(k) /\ Len(Block(k)) = BlockLen
      BY <1>1, <1>4, <1>5, BlockAtHand
  <2> QED
      BY <1>2, <1>5, <2>1
<1>7. ASSUME NEW b \in 0 .. NBlocks(job.len) - 1, NEW i \in 1 .. BlockLen
      PROVE  coded'[b * BlockLen + i] = IF b = k THEN fixed[i] ELSE coded[b * BlockLen + i]
  <2> DEFINE q == b * BlockLen + i
  <2>1. /\ b * BlockLen \in Nat /\ q \in 1 .. Len(coded)
        /\ \A d \in Nat : q - d * BlockLen \in 1 .. BlockLen => d = b /\ q - d * BlockLen = i
      BY <1>2, BytePlace DEF AllCoded
  <2>2. k = b => q - k * BlockLen = i
      BY <2>1
  <2> HIDE DEF q, fixed
  <2>3. coded'[q] = IF q - k * BlockLen \in 1 .. BlockLen THEN fixed[q - k * BlockLen] ELSE coded[q]
      BY <1>1, <1>5, <2>1
  <2>4. ASSUME b = k PROVE coded'[q] = fixed[i]
      BY <2>2, <2>3, <2>4
  <2>5. ASSUME b # k PROVE coded'[q] = coded[q]
    <3>1. ~ (q - k * BlockLen \in 1 .. BlockLen)
        BY <1>6, <2>1, <2>5
    <3> QED
        BY <2>3, <3>1
  <2>6. coded'[q] = IF b = k THEN fixed[i] ELSE coded[q]
      BY <2>4, <2>5
  <2> QED
      BY <2>6 DEF q
<1>8. \A b \in block' .. NBlocks(job.len)' - 1 : b # block' => \E c : Repairable(b, c)'
  <2> SUFFICES ASSUME NEW b \in block' .. NBlocks(job.len)' - 1, b # block'
               PROVE  \E c : Repairable(b, c)'
      OBVIOUS
  <2>1. b \in block .. NBlocks(job.len) - 1 /\ b \in 0 .. NBlocks(job.len) - 1 /\ b # k
      BY <1>1, <1>2, <1>4, <1>5
  <2>2. PICK c : Repairable(b, c)
      BY <1>1, <1>4, <2>1 DEF RepairInv
  <2>3. Block(b)' = Block(b)
    <3>1. \A i \in 1 .. BlockLen : coded'[b * BlockLen + i] = coded[b * BlockLen + i]
        BY <1>7, <2>1
    <3> QED
        BY <3>1 DEF Block
  <2> QED
      BY <1>1, <2>2, <2>3, RepairableKept
<1>9. PICK c : Repairable(k, c) /\ MasseyState(c)
    BY <1>1, <1>4, <1>5 DEF RepairInv
<1>10. \A i \in 1 .. BlockLen : fixed[i] = c[i]
  <2> DEFINE word == Block(k)
             S == Syndrome(word)
             E == ErrorsOf(word, c)
  <2>1. /\ IsCodeword(c) /\ IsWord(word) /\ E \in Weights /\ IsSyndrome(S, E)
        /\ Len(word) = BlockLen
      BY <1>6, <1>9, RepairableFacts
  <2>2. 2 * Cardinality(Support(E)) <= NPAR
      BY <1>9 DEF Repairable
  <2>3. /\ syn = S /\ S # Zero /\ MasseyInv(S, NPAR, bm.psi, bm.D, bm.L)
        /\ bm.L <= Cardinality(Support(E))
      BY <1>1, <1>5, <1>9 DEF MasseyState
  <2>4. PICK psi, L : psi = bm.psi /\ L = bm.L
      OBVIOUS
  <2> HIDE DEF E, S
  <2>5. L \in Nat
      BY <2>3, <2>4 DEF MasseyInv
  <2>6. IsLocator(S, E, psi, L)
      BY <2>1, <2>2, <2>3, <2>4, <2>5 DEF IsLocator, MasseyInv
  <2>7. \A p \in 1 .. BlockLen : Correct(word, psi, Omega(psi, S))[p] = c[p]
      BY <2>1, <2>3, <2>6, ErrorsCorrected DEF S, E
  <2>8. fixed = Correct(word, psi, Omega(psi, S))
      BY <1>6, <2>3, <2>4
  <2> QED
      BY <2>7, <2>8
<1>11. Corrected'
  <2> SUFFICES ASSUME NEW p \in 0 .. max_mlen' - 1
               PROVE  coded'[block' * BlockLen + p + 1] = InBlock(block, p)'
      BY DEF Corrected
  <2>1. p \in 0 .. max_mlen - 1 /\ p + 1 \in 1 .. BlockLen
      BY Sizes DEF max_mlen
  <2> HIDE DEF fixed
  <2>2. coded'[k * BlockLen + (p + 1)] = fixed[p + 1]
      BY <1>6, <1>7, <2>1
  <2>3. fixed[p + 1] = c[p + 1]
      BY <1>10, <2>1
  <2>4. c[p + 1] = InBlock(k, p)
      BY <1>9, <2>1 DEF Repairable
  <2>5. k * BlockLen \in Nat
      BY <1>6, Sizes, ProductOrder
  <2>6. k * BlockLen + p + 1 = k * BlockLen + (p + 1)
      BY <2>1, <2>5
  <2>7. InBlock(block, p)' = InBlock(block, p)
      BY <1>1 DEF InBlock, msgchunk, max_mlen
  <2> QED
      BY <1>1, <1>5, <2>2, <2>3, <2>4, <2>6, <2>7
<1> QED
    BY <1>8, <1>11

\* The block is taken, and the next one is at hand.
LEMMA TakeRepair ==
    ASSUME FrameInv, RepairInv, TakeBlock
    PROVE  RepairInv'
<1>1. /\ UNCHANGED <<job, coded, damage>> /\ block' = block + 1
      /\ pc = "take" /\ pc' \in {"trash", "done", "decode"}
    BY DEF TakeBlock
<1>2. SUFFICES ASSUME AllRead', Correctable'
               PROVE  \A b \in block' .. NBlocks(job.len)' - 1 : \E c : Repairable(b, c)'
  <2>1. Corrected'
      BY <1>1 DEF Corrected
  <2> QED
      BY <1>1, <2>1 DEF RepairInv
<1>3. AllRead /\ Correctable /\ NBlocks(job.len)' = NBlocks(job.len) /\ Decoding
      /\ block \in Nat /\ NBlocks(job.len) \in Nat
  <2>1. block \in Nat /\ job \in Jobs
      BY DEF FrameInv, SizeInv
  <2> QED
      BY <1>1, <1>2, <2>1, PowerKept, JobType, BlocksOf DEF Decoding
<1> SUFFICES ASSUME NEW b \in block' .. NBlocks(job.len)' - 1 PROVE \E c : Repairable(b, c)'
    OBVIOUS
<1>4. b \in block .. NBlocks(job.len) - 1 /\ b # block
    BY <1>1, <1>3
<1>5. PICK c : Repairable(b, c)
    BY <1>3, <1>4 DEF RepairInv
<1>6. Block(b)' = Block(b)
    BY <1>1 DEF Block
<1> QED
    BY <1>1, <1>5, <1>6, RepairableKept

\* No step breaks the invariant.
LEMMA RepairNext ==
    ASSUME FrameInv, CodeInv, RepairInv, SizeInv', [Next]_vars
    PROVE  RepairInv'
<1>1. CASE EncodeByte \/ EncodeParity \/ Overflow \/ Beyond
    BY <1>1 DEF EncodeByte, EncodeParity, Overflow, Beyond, RepairInv, Decoding
<1>2. CASE Transmit
    BY <1>2, TransmitRepair DEF FrameInv
<1>3. CASE UNCHANGED vars
  <2>1. UNCHANGED <<job, pc, block, at, coded, syn, bm, damage>>
      BY <1>3 DEF vars
  <2>2. RepairInv' = RepairInv
      BY <2>1 DEF RepairInv, Repairable, MasseyState, Corrected, Block, Decoding, AllRead,
         Correctable, StreamSize, RawCapacity, Capacity, CapacityEcc, InBlock, max_mlen, msgchunk,
         NBlocks
  <2> QED
      BY <2>2
<1> QED
    BY <1>1, <1>2, <1>3, DecodeDataRepair, MasseyRepair, CorrectRepair, TakeRepair DEF Next

-----------------------------------------------------------------------------
(* What the code gives.                                                    *)

\* Encoder and decoder have the same code: every block the encoder makes has the
\* syndrome 0, for every number of parity bytes.
THEOREM EccCodewordsAgree == Spec => []CodewordsAgree
<1>1. Init => SizeInv /\ CodeInv
    BY FrameStart, CodeStart DEF FrameInv
<1>2. SizeInv /\ CodeInv /\ [Next]_vars => SizeInv' /\ CodeInv'
    BY SizeNext, CodeNext
<1>3. SizeInv /\ CodeInv => CodewordsAgree
  <2> SUFFICES ASSUME SizeInv, CodeInv, pc = "stuff", NEW b \in 0 .. block - 1
               PROVE  Syndrome(SubSeq(coded, b * BlockLen + 1, (b + 1) * BlockLen)) = Zero
      BY DEF CodewordsAgree
  <2>1. AllCoded /\ IsSeq(coded) /\ block \in Nat /\ block = NBlocks(job.len) /\ GoodBlock(b)
      BY DEF SizeInv, CodeInv
  <2>2. b \in Nat /\ b < block /\ BlockLen \in Nat
      BY <2>1, Sizes
  <2>3. (b + 1) * BlockLen <= Len(coded)
      BY <2>1, <2>2, ProductOrder DEF AllCoded
  <2> QED
      BY <2>1, <2>2, <2>3, GoodBlockAgrees
<1> QED
    BY <1>1, <1>2, <1>3, PTL DEF Spec

\* The Reed-Solomon code does what it is for, and the message comes back: if at most
\* half as many bytes of a block are damaged as it has parity, whatever the damage,
\* the decoder finds them and what is wrong with them, takes every block as it was
\* before it was coded, and puts the message together.
THEOREM EccCodeHolds == Spec => []CodeHolds
<1> DEFINE Inv == FrameInv /\ CodeInv /\ RepairInv
<1>1. Init => Inv
  <2>1. Init => RepairInv
      BY DEF Init, RepairInv, Decoding
  <2> QED
      BY <2>1, FrameStart, CodeStart
<1>2. Inv /\ [Next]_vars => Inv'
  <2> SUFFICES ASSUME Inv, [Next]_vars PROVE Inv'
      OBVIOUS
  <2>1. SizeInv' /\ CodeInv'
      BY SizeNext, CodeNext DEF FrameInv
  <2>2. Corrected
      BY DEF RepairInv, Decoding, Corrected
  <2>3. FrameInv'
      BY <2>2, FrameNext
  <2>4. RepairInv'
      BY <2>1, RepairNext
  <2> QED
      BY <2>1, <2>3, <2>4
<1>3. Inv => Corrected /\ Recovered
    BY DEF FrameInv, RepairInv, Decoding, Corrected
<1>4. CodewordsAgree /\ Corrected /\ Recovered => CodeHolds
    BY DEF CodeHolds
<1> QED
    BY <1>1, <1>2, <1>3, <1>4, EccCodewordsAgree, PTL DEF Spec
=============================================================================
