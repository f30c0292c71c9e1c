---------------------------- MODULE Steg_proofs -----------------------------
(***************************************************************************)
(* Proofs about Selection, Steg and StegLink, for every image size,        *)
(* packing, ring and message.                                              *)
(*                                                                         *)
(* First that the walks of sender and receiver stay in step.  Then that a  *)
(* message arrives, if a byte is a whole number of frequencies.  (If it is *)
(* not, the last frequency of the stream is zeroed and the message         *)
(* damaged.)  Last that the two walks do what Channel computes and what    *)
(* jel.h promises: how many bits of a stream go into a channel, what the   *)
(* receiver returns, where the ring is left, that a message within the     *)
(* capacity goes in, and that the walks implement Link.                    *)
(***************************************************************************)
EXTENDS StegLink, FiniteSetTheorems, FunctionTheorems, WellFoundedInduction, TLAPS

-----------------------------------------------------------------------------
(* Induction over an initial segment of the naturals, as a fact about      *)
(* sets: the theorems of the library take an operator as parameter.        *)

\* A set that contains 0, and with each number the next, contains them all.
LEMMA SegmentInduction ==
    ASSUME NEW n \in Nat, NEW T,
           0 \in T,
           \A i \in 0 .. n - 1 : i \in T => i + 1 \in T
    PROVE  \A i \in 0 .. n : i \in T
<1> DEFINE Rest == {i \in 0 .. n : i \notin T}
           Less == {s \in Nat \X Nat : s[1] < s[2]}
<1> SUFFICES ASSUME Rest # {} PROVE FALSE
    OBVIOUS
<1>1. IsWellFoundedOn(Less, Nat)
    BY NatLessThanWellFounded, Zenon DEF OpToRel
<1>2. Rest \subseteq Nat
    OBVIOUS
<1> HIDE DEF Rest, Less
<1>3. PICK x \in Rest : \A y \in Rest : ~ (<<y, x>> \in Less)
    BY <1>1, <1>2, WFMin
<1>4. x \in 0 .. n /\ x \notin T /\ x # 0
    BY DEF Rest
<1>5. x - 1 \in 0 .. n - 1 /\ x - 1 \in Nat /\ x \in Nat
    BY <1>4
<1>6. x - 1 \notin T
    BY <1>4, <1>5
<1>7. x - 1 \in Rest
    BY <1>5, <1>6 DEF Rest
<1>8. <<x - 1, x>> \in Less
    BY <1>5 DEF Less
<1> QED
    BY <1>3, <1>7, <1>8

-----------------------------------------------------------------------------
(* What the operators of Selection return, for every size of image, list   *)
(* of frequencies and ring.                                                *)

\* The recursion in Shuffle, and that it has a solution: the passes, one after
\* another.
Passes(g, f, n, draw) ==
    g = [i \in 0 .. n |-> IF i = 0 THEN f ELSE Swap(g[i - 1], i, draw[i])]

\* The recursive function of Shuffle has a solution: one value for each pass, a
\* swap of the value before.
LEMMA ShufflePasses ==
    ASSUME NEW n \in Nat, NEW f, NEW draw
    PROVE  \E g : Passes(g, f, n, draw)
<1> DEFINE Step(g, i) == IF i = 0 THEN f ELSE Swap(g[i - 1], i, draw[i])
           Solved == {l \in Nat : \E g : g = [i \in 0 .. l |-> Step(g, i)]}
<1>1. 0 \in Solved
  <2> DEFINE g == [i \in 0 .. 0 |-> f]
  <2>1. g = [i \in 0 .. 0 |-> Step(g, i)]
      OBVIOUS
  <2> QED
      BY <2>1
<1>2. ASSUME NEW l \in 0 .. n - 1, l \in Solved PROVE l + 1 \in Solved
  <2>1. PICK g : g = [i \in 0 .. l |-> Step(g, i)]
      BY <1>2
  <2> DEFINE h == [i \in 0 .. l + 1 |->
                      IF i <= l THEN g[i] ELSE Swap(g[l], i, draw[i])]
  <2>2. ASSUME NEW i \in 0 .. l + 1 PROVE h[i] = Step(h, i)
    <3>1. CASE i = 0
        BY <2>1, <3>1
    <3>2. CASE i \in 1 .. l
      <4>1. i - 1 \in 0 .. l /\ h[i - 1] = g[i - 1] /\ h[i] = g[i]
          BY <3>2
      <4>2. g[i] = Swap(g[i - 1], i, draw[i])
          BY <2>1, <3>2
      <4> QED
          BY <3>2, <4>1, <4>2
    <3>3. CASE i = l + 1
      <4>1. i - 1 = l /\ h[i - 1] = g[l] /\ h[i] = Swap(g[l], i, draw[i])
          BY <3>3
      <4> QED
          BY <3>3, <4>1
    <3> QED
        BY <3>1, <3>2, <3>3
  <2>3. h = [i \in 0 .. l + 1 |-> Step(h, i)]
      BY <2>2
  <2> HIDE DEF h
  <2>4. \E e : e = [i \in 0 .. l + 1 |-> Step(e, i)]
      BY <2>3
  <2>5. l + 1 \in Nat
      OBVIOUS
  <2> HIDE DEF Step
  <2> QED
      BY <2>4, <2>5
<1> HIDE DEF Solved
<1>3. n \in Solved
    BY <1>1, <1>2, SegmentInduction
<1> QED
    BY <1>3 DEF Solved, Passes

\* A swap of two entries keeps the entries in their set and distinct.
LEMMA SwapFacts ==
    ASSUME NEW D, NEW S, NEW f \in [D -> S], NEW i \in D, NEW j \in D
    PROVE  /\ Swap(f, i, j) \in [D -> S]
           /\ Distinct(f) => Distinct(Swap(f, i, j))
BY DEF Swap, Distinct

First(f) == f[0]

NeverZero(draw, n) == \A i \in 1 .. n : draw[i] # 0

\* A shuffle rearranges: it makes no two entries equal that were not, and
\* leaves entry 0 alone if 0 is never drawn.
LEMMA ShuffleFacts ==
    ASSUME NEW n \in Nat, NEW S, NEW f \in [0 .. n -> S],
           NEW draw \in [1 .. n -> 0 .. n]
    PROVE  /\ Shuffle(f, n, draw) \in [0 .. n -> S]
           /\ Distinct(f) => Distinct(Shuffle(f, n, draw))
           /\ NeverZero(draw, n) => First(Shuffle(f, n, draw)) = First(f)
<1> DEFINE pass == CHOOSE g : Passes(g, f, n, draw)
           Good(h) == /\ h \in [0 .. n -> S]
                      /\ Distinct(f) => Distinct(h)
                      /\ NeverZero(draw, n) => h[0] = f[0]
           T == {i \in 0 .. n : Good(pass[i])}
<1>1. Passes(pass, f, n, draw)
    BY ShufflePasses, Zenon
<1>2. Shuffle(f, n, draw) = pass[n]
    BY DEF Shuffle, Passes
<1> HIDE DEF pass
<1>3. pass[0] = f
    BY <1>1 DEF Passes
<1>4. \A i \in 1 .. n : pass[i] = Swap(pass[i - 1], i, draw[i])
    BY <1>1 DEF Passes
<1>5. 0 \in T
    BY <1>3
<1>6. ASSUME NEW i \in 0 .. n - 1, i \in T PROVE i + 1 \in T
  <2> DEFINE h == pass[i]
  <2>1. /\ i + 1 \in 1 .. n /\ i + 1 \in 0 .. n
        /\ pass[i + 1] = Swap(h, i + 1, draw[i + 1])
        /\ draw[i + 1] \in 0 .. n
    <3>1. i + 1 \in 1 .. n /\ (i + 1) - 1 = i
        OBVIOUS
    <3> QED
        BY <1>4, <3>1
  <2>2. Good(h)
      BY <1>6
  <2> HIDE DEF h
  <2>3. /\ Swap(h, i + 1, draw[i + 1]) \in [0 .. n -> S]
        /\ Distinct(f) => Distinct(Swap(h, i + 1, draw[i + 1]))
      BY <2>1, <2>2, SwapFacts
  <2>4. ASSUME NeverZero(draw, n)
        PROVE  Swap(h, i + 1, draw[i + 1])[0] = f[0]
      BY <2>1, <2>2, <2>4 DEF Swap, NeverZero
  <2> QED
      BY <2>1, <2>3, <2>4
<1> HIDE DEF T
<1>7. \A i \in 0 .. n : i \in T
  <2> HIDE DEF Good
  <2>1. \A i \in 0 .. n - 1 : i \in T => i + 1 \in T
      BY <1>6
  <2> QED
      BY <1>5, <2>1, SegmentInduction, Zenon
<1>8. n \in T
    BY <1>7
<1> QED
    BY <1>2, <1>8 DEF T, First

Ring0 == [0 .. NList - 1 -> Nat]

\* Reading the ring never leaves it.
LEMMA RingFacts ==
    ASSUME NEW ring \in Ring0, NEW r \in 0 .. NList, NEW c \in Nat
    PROVE  /\ Advance(r, c) \in 0 .. NList
           /\ c > 0 => PrnAt(ring, r, c) \in Nat
<1>1. ASSUME c > 0 PROVE (r + c - 1) % NList \in 0 .. NList - 1
    BY <1>1, SelectionAssumption
<1> QED
    BY <1>1, SelectionAssumption DEF Advance, PrnAt, Ring0

\* ijel_permute_freqs turns an order of the frequencies into an order of the
\* frequencies: the ones an MCU uses are different coefficients.
THEOREM PermuteFreqsFacts ==
    ASSUME NEW ring \in Ring0, NEW r \in 0 .. NList, NEW order \in Orders
    PROVE  /\ PermuteFreqs(ring, r, order) \in Orders
           /\ Distinct(order) => Distinct(PermuteFreqs(ring, r, order))
<1> DEFINE draw == FreqDraw(ring, r)
           n == MaxFreqs - 1
<1>1. n \in Nat /\ Freqs = 0 .. n
    BY SelectionAssumption DEF Freqs
<1>2. ASSUME NEW i \in 1 .. n
      PROVE  PrnAt(ring, r, i) % (i + 1) \in 0 .. n
  <2>1. PrnAt(ring, r, i) \in Nat
      BY <1>1, RingFacts
  <2> HIDE DEF n
  <2>2. \A p \in Nat : p % (i + 1) \in 0 .. i
      BY <1>1
  <2> QED
      BY <1>1, <2>1, <2>2
<1>3. draw \in [1 .. n -> 0 .. n]
    BY <1>2 DEF FreqDraw
<1>4. order \in [0 .. n -> Freqs]
    BY <1>1 DEF Orders
<1> HIDE DEF draw, n
<1>5. /\ Shuffle(order, n, draw) \in [0 .. n -> Freqs]
      /\ Distinct(order) => Distinct(Shuffle(order, n, draw))
    BY <1>1, <1>3, <1>4, ShuffleFacts
<1> QED
    BY <1>1, <1>5 DEF PermuteFreqs, Orders, draw, n

\* ijel_select_mcus rearranges the MCUs and leaves the first one in place.
THEOREM McuListFacts ==
    ASSUME NEW ring \in Ring0
    PROVE  /\ McuList(ring) \in [Mcus -> Mcus]
           /\ Distinct(McuList(ring))
           /\ McuList(ring)[0] = 0
<1> DEFINE draw == McuDraw(ring)
           n == NMcus - 1
           all == [x \in Mcus |-> x]
<1>1. n \in Nat /\ Mcus = 0 .. n /\ 0 \in 0 .. NList
    BY SelectionAssumption DEF Mcus
<1>2. ASSUME NEW i \in 1 .. n
      PROVE  draw[i] \in 1 .. n
  <2>1. CASE i = 1
      BY <2>1, <1>1 DEF McuDraw
  <2>2. CASE i > 1
    <3>1. PrnAt(ring, 0, i - 1) \in Nat
      <4>1. i - 1 \in Nat /\ i - 1 > 0
          BY <2>2, <1>1
      <4> QED
          BY <1>1, <4>1, RingFacts
    <3> DEFINE j == PrnAt(ring, 0, i - 1) % (i + 1)
    <3>2. draw[i] = IF j = 0 THEN i ELSE j
        BY <2>2 DEF McuDraw
    <3> HIDE DEF n, draw
    <3>3. j \in 0 .. i
        BY <1>1, <3>1
    <3> HIDE DEF j
    <3> QED
        BY <1>1, <3>2, <3>3
  <2> HIDE DEF n, draw
  <2> QED
      BY <1>1, <2>1, <2>2
<1>3. draw \in [1 .. n -> 0 .. n] /\ \A i \in 1 .. n : draw[i] # 0
  <2>1. draw = [i \in 1 .. n |-> draw[i]]
      BY DEF McuDraw
  <2> HIDE DEF draw, n
  <2>2. \A i \in 1 .. n : draw[i] \in 0 .. n /\ draw[i] # 0
      BY <1>1, <1>2
  <2> QED
      BY <2>1, <2>2
<1>4. all \in [0 .. n -> Mcus] /\ Distinct(all) /\ all[0] = 0
    BY <1>1 DEF Distinct
<1> HIDE DEF draw, n, all
<1>5. /\ Shuffle(all, n, draw) \in [0 .. n -> Mcus]
      /\ Distinct(Shuffle(all, n, draw))
      /\ Shuffle(all, n, draw)[0] = 0
  <2>1. n \in Nat /\ draw \in [1 .. n -> 0 .. n] /\ all \in [0 .. n -> Mcus]
      BY <1>1, <1>3, <1>4
  <2>2. /\ Shuffle(all, n, draw) \in [0 .. n -> Mcus]
        /\ Distinct(all) => Distinct(Shuffle(all, n, draw))
        /\ NeverZero(draw, n) => First(Shuffle(all, n, draw)) = First(all)
      BY ONLY <2>1, ShuffleFacts
  <2> QED
      BY <1>3, <1>4, <2>2 DEF NeverZero, First
<1> QED
    BY <1>1, <1>5 DEF McuList, draw, n, all

-----------------------------------------------------------------------------
(* Arithmetic.                                                             *)

\* A product of naturals is a natural.
LEMMA TimesNat == \A a, b \in Nat : a * b \in Nat
OBVIOUS

\* Multiplication by a natural is monotone.
LEMMA TimesMonotone ==
    ASSUME NEW a \in Nat, NEW b \in Nat, NEW c \in Nat, a <= b
    PROVE  a * c <= b * c
<1>1. PICK d \in Nat : b = a + d
  <2> b - a \in Nat /\ b = a + (b - a)
      OBVIOUS
  <2> QED
      OBVIOUS
<1>2. b * c = a * c + d * c
    BY <1>1
<1>3. a * c \in Nat /\ d * c \in Nat
    OBVIOUS
<1> QED
    BY <1>2, <1>3

\* Euclidean division.
LEMMA DivFacts ==
    ASSUME NEW a \in Nat, NEW w \in Nat \ {0}
    PROVE  /\ a \div w \in Nat
           /\ a % w \in 0 .. w - 1
           /\ a = w * (a \div w) + (a % w)
OBVIOUS

\* The quotient is the one number that fits.
LEMMA DivBound ==
    ASSUME NEW a \in Nat, NEW w \in Nat \ {0}, NEW n \in Nat, a < n * w
    PROVE  a \div w \in 0 .. n - 1
<1> DEFINE q == a \div w
<1>1. q \in Nat /\ w * q <= a
    BY DivFacts
<1> HIDE DEF q
<1>2. CASE q >= n
  <2>1. n * w <= q * w
      BY <1>1, <1>2, TimesMonotone
  <2>2. w * q = q * w
      BY <1>1
  <2>3. n * w \in Nat /\ q * w \in Nat
      BY <1>1
  <2> QED
      BY <1>1, <2>1, <2>2, <2>3
<1>3. CASE q < n
    BY <1>1, <1>3 DEF q
<1> QED
    BY <1>1, <1>2, <1>3

\* A quotient by w is at most n if the dividend is at most n * w.
LEMMA DivAtMost ==
    ASSUME NEW a \in Nat, NEW w \in Nat \ {0}, NEW n \in Nat, a < n * w + w
    PROVE  a \div w <= n
<1>1. (n + 1) * w = n * w + w /\ n + 1 \in Nat
    OBVIOUS
<1>2. a \div w \in 0 .. n
    BY <1>1, DivBound
<1> QED
    BY <1>2

-----------------------------------------------------------------------------
(* Sizes.                                                                  *)

\* An MCU holds at least one bit, and so does the channel.
LEMMA McuBitsType == McuBits \in Nat \ {0} /\ ImageBits \in Nat \ {0}
<1>1. \A a, b \in Nat \ {0} : a * b \in Nat \ {0}
  <2> TAKE a, b \in Nat \ {0}
  <2>1. 1 * b <= a * b
      BY TimesMonotone
  <2>2. 1 * b = b /\ a * b \in Nat
      BY TimesNat
  <2> QED
      BY <2>1, <2>2
<1>2. NFreqs \in Nat \ {0} /\ BitsPerFreq \in Nat \ {0}
    BY StegAssumption
<1>3. McuBits \in Nat \ {0}
    BY <1>1, <1>2 DEF McuBits
<1> QED
    BY <1>1, <1>3, SelectionAssumption DEF ImageBits

\* Prorating never makes the channel larger.
LEMMA ImageCapacityType ==
    ASSUME NEW d \in {Unspecified} \cup (1 .. 100)
    PROVE  /\ ImageCapacity(d) \in Nat
           /\ ImageCapacity(d) <= ImageBits
           /\ ImageCapacity(Unspecified) = ImageBits
<1>1. ImageBits \in Nat
    BY McuBitsType
<1>2. CASE d > 0 /\ d < 100
  <2>1. d \in Nat /\ d <= 100
      BY <1>2 DEF Unspecified
  <2>2. d * ImageBits <= 100 * ImageBits
      BY <1>1, <2>1, TimesMonotone
  <2>3. d * ImageBits \in Nat
      BY <1>1, <2>1
  <2>4. (d * ImageBits) \div 100 \in Nat /\ (d * ImageBits) \div 100 <= ImageBits
    <3> DEFINE p == d * ImageBits
    <3> HIDE DEF p
    <3>1. p \div 100 \in Nat /\ p \div 100 <= ImageBits
        BY <1>1, <2>2, <2>3 DEF p
    <3> QED
        BY <3>1 DEF p
  <2> QED
      BY <1>1, <1>2, <2>4 DEF ImageCapacity, Unspecified
<1>3. CASE ~(d > 0 /\ d < 100)
    BY <1>1, <1>3 DEF ImageCapacity, Unspecified
<1> QED
    BY <1>2, <1>3

\* The capacity is an integer, and an explicit density never makes it greater.
LEMMA CapacityType ==
    ASSUME NEW d \in {Unspecified} \cup (1 .. 100)
    PROVE  Capacity(d) \in Int /\ Capacity(d) <= Capacity(Unspecified)
<1>1. Unspecified \in {Unspecified} \cup (1 .. 100)
    OBVIOUS
<1> QED
    BY <1>1, ImageCapacityType DEF Capacity, HeaderBits

\* The density computed for a stream that fits is a percentage.
LEMMA AutoDensityType ==
    ASSUME NEW b \in Nat \ {0}, b <= ImageBits
    PROVE  AutoDensity(b) \in 1 .. 100
<1> DEFINE a == 100 * b + ImageBits - 1
           c == a \div ImageBits
<1>1. ImageBits \in Nat \ {0}
    BY McuBitsType
<1>2. a \in Nat /\ a < 100 * ImageBits + ImageBits /\ ImageBits <= a
    BY <1>1
<1> HIDE DEF a
<1>3. c \in Nat /\ c <= 100
    BY <1>1, <1>2, DivFacts, DivAtMost
<1> HIDE DEF c
<1> QED
    BY <1>3 DEF AutoDensity, a, c

\* What TypeOK says of the parts of a job that never change.
LEMMA JobType ==
    ASSUME job \in Jobs
    PROVE  /\ job.len \in Nat
           /\ job.seeded \in BOOLEAN
           /\ job.header \in BOOLEAN
           /\ job.ring \in Ring0
           /\ job.theirs \in Ring0
           /\ job.k \in 0 .. NList
           /\ job.density \in {Unspecified} \cup (1 .. 100)
           /\ job.receiver \in {Unspecified} \cup (1 .. 100)
           /\ nbits \in Nat
           /\ nbits >= HeaderBits
           /\ Capacity(job.receiver) \in Nat
           /\ gotBits \in Nat
           /\ gotBits >= HeaderBits
<1>1. /\ job \in [len : 0 .. MaxLen, seeded : BOOLEAN, header : BOOLEAN,
                  ring : Rings, theirs : Rings, k : Starts,
                  density : Densities \cup {Unspecified},
                  receiver : Densities \cup {Unspecified}]
      /\ job.receiver \in {Unspecified, job.density}
      /\ Capacity(job.density) >= 0
    BY DEF Jobs
<1>3. Rings \subseteq Ring0 /\ Starts \subseteq 0 .. NList
      /\ Densities \subseteq 1 .. 100 /\ MaxLen \in Nat
    BY StegAssumption DEF Ring0
<1>4. job.len \in Nat /\ job.seeded \in BOOLEAN /\ job.header \in BOOLEAN
    BY <1>1, <1>3
<1>5. job.ring \in Ring0 /\ job.theirs \in Ring0 /\ job.k \in 0 .. NList
    BY ONLY <1>1, <1>3
<1>6. /\ job.density \in {Unspecified} \cup (1 .. 100)
      /\ job.receiver \in {Unspecified} \cup (1 .. 100)
    BY ONLY <1>1, <1>3
<1>2. Capacity(job.receiver) \in Nat
  <2>1. CASE job.receiver = job.density
      BY <1>1, <1>6, <2>1, CapacityType
  <2>2. CASE job.receiver = Unspecified
    <3>1. Unspecified \in {Unspecified} \cup (1 .. 100)
        OBVIOUS
    <3>2. Capacity(Unspecified) \in Int /\ Capacity(job.density) \in Int
          /\ Capacity(job.density) <= Capacity(Unspecified)
        BY <1>6, <3>1, CapacityType
    <3> QED
        BY <1>1, <2>2, <3>2
  <2> QED
      BY <1>1, <2>1, <2>2
<1> QED
    BY <1>2, <1>4, <1>5, <1>6 DEF nbits, gotBits, StreamBits, HeaderBits

-----------------------------------------------------------------------------
(* The steps the two walks share.                                          *)

\* Where the next MCU finds the frequencies and the ring.
LEMMA NextType ==
    ASSUME TypeOK
    PROVE  /\ Ring \in Ring0
           /\ NextUsed \in Orders
           /\ NextK \in 0 .. NList
<1>1. Ring \in Ring0
    BY JobType DEF TypeOK, Ring
<1>2. used \in Orders /\ k \in 0 .. NList
    BY DEF TypeOK
<1>3. NextUsed \in Orders
    BY <1>1, <1>2, PermuteFreqsFacts DEF NextUsed
<1>4. MaxFreqs - 1 \in Nat
    BY SelectionAssumption
<1>5. NextK \in 0 .. NList
    BY <1>1, <1>2, <1>4, RingFacts DEF NextK
<1> QED
    BY <1>1, <1>3, <1>5

\* Selecting MCUs gives every MCU a flag and leaves the index in the ring.
LEMMA SelectType ==
    ASSUME NEW ring \in Ring0, NEW seeded \in BOOLEAN, NEW n,
           NEW i \in 0 .. NList
    PROVE  /\ McuFlags(seeded, ring, n) \in [Mcus -> BOOLEAN]
           /\ SelectIndex(seeded, i) \in 0 .. NList
<1>1. McuFlags(seeded, ring, n) \in [Mcus -> BOOLEAN]
    BY DEF McuFlags
<1>2. 0 \in 0 .. NList /\ (IF NMcus > 2 THEN NMcus - 2 ELSE 0) \in Nat
    BY SelectionAssumption
<1>3. SelectIndex(seeded, i) \in 0 .. NList
    BY <1>2, RingFacts DEF SelectIndex
<1> QED
    BY <1>1, <1>3

\* The frequencies a walk starts with are distinct.
LEMMA ResetFreqsType == ResetFreqs \in Orders /\ Distinct(ResetFreqs)
BY DEF ResetFreqs, Orders, Distinct

\* Both functions start their walk alike.
LEMMA BeginType ==
    ASSUME TypeOK, BeginWalk
    PROVE  /\ m' = 0 /\ idx' = 0 /\ bit' = 0 /\ count' = 0
           /\ flag' \in [Mcus -> BOOLEAN]
           /\ used' \in Orders
           /\ Distinct(used')
           /\ k' \in 0 .. NList
<1>1. m' = 0 /\ idx' = 0 /\ bit' = 0 /\ count' = 0
      /\ flag' \in [Mcus -> BOOLEAN]
    BY DEF BeginWalk
<1>2. Ring \in Ring0 /\ job.k \in 0 .. NList /\ MaxFreqs - 1 \in Nat
  <2>1. job \in Jobs
      BY DEF TypeOK
  <2>2. job.k \in 0 .. NList
      BY <2>1, JobType
  <2> QED
      BY <2>2, NextType, SelectionAssumption
<1>3. used' \in Orders /\ Distinct(used')
    BY <1>2, PermuteFreqsFacts, ResetFreqsType DEF BeginWalk
<1>4. k' \in 0 .. NList
    BY <1>2, RingFacts DEF BeginWalk
<1> QED
    BY <1>1, <1>3, <1>4

\* A coefficient is left alone, or gets a position of the stream or a zero.
LEMMA PackType ==
    ASSUME TypeOK, m \in Mcus, NEW order, NEW n, NEW w \in Nat
    PROVE  Pack(order, n, w) \in [Freqs -> Slots]
<1> SUFFICES ASSUME NEW f \in Freqs
             PROVE  Pack(order, n, w)[f] \in Slots
    BY DEF Pack
<1>1. coef[m][f] \in Slots
    BY DEF TypeOK
<1>2. Zero \in Slots
    BY DEF Slots
<1>3. ASSUME NEW j \in 0 .. n - 1, bit + (j + 1) * w <= nbits
      PROVE  bit + j * w \in Slots
  <2>1. j \in Nat /\ bit \in Nat /\ nbits \in Nat
      BY JobType DEF TypeOK
  <2>2. j * w \in Nat /\ (j + 1) * w = j * w + w
      BY <2>1
  <2> QED
      BY <1>3, <2>1, <2>2 DEF Slots
<1>4. CASE \E j \in 0 .. n - 1 : order[j] = f
  <2> DEFINE j == CHOOSE x \in 0 .. n - 1 : order[x] = f
  <2>1. j \in 0 .. n - 1
      BY <1>4
  <2>2. Pack(order, n, w)[f] =
            IF bit + (j + 1) * w <= nbits THEN bit + j * w ELSE Zero
      BY <1>4 DEF Pack
  <2> HIDE DEF j
  <2> QED
      BY <1>2, <1>3, <2>1, <2>2
<1>5. CASE ~ \E j \in 0 .. n - 1 : order[j] = f
    BY <1>1, <1>5 DEF Pack
<1> QED
    BY <1>4, <1>5

\* The receiver's bits stay positions or marks.
LEMMA UnpackType ==
    ASSUME TypeOK, m \in Mcus, NEW order \in Orders,
           NEW n \in 0 .. MaxFreqs, NEW w \in Nat \ {0}
    PROVE  Unpack(order, n, w) \in [0 .. gotBits - 1 -> Int]
<1>1. got \in [0 .. gotBits - 1 -> Int] /\ bit \in Nat
    BY DEF TypeOK
<1> SUFFICES ASSUME NEW i \in 0 .. gotBits - 1
             PROVE  Unpack(order, n, w)[i] \in Int
    BY <1>1 DEF Unpack
<1>2. CASE bit <= i /\ i < bit + n * w
  <2> DEFINE a == i - bit
  <2>1. i \in Nat /\ n * w \in Nat
      BY JobType, SelectionAssumption DEF TypeOK
  <2>2. a \in Nat /\ a < n * w /\ n \in Nat
      BY <1>1, <1>2, <2>1, SelectionAssumption
  <2> HIDE DEF a
  <2>3. a \div w \in 0 .. n - 1 /\ a % w \in Nat
    <3>1. a \div w \in 0 .. n - 1
        BY <2>2, DivBound
    <3>2. a % w \in 0 .. w - 1
        BY <2>2, DivFacts
    <3> QED
        BY <3>1, <3>2
  <2>4. a \div w \in Freqs
      BY <2>3, SelectionAssumption DEF Freqs
  <2>5. order[a \div w] \in Freqs
      BY <2>4 DEF Orders
  <2>6. coef[m][order[a \div w]] \in Slots
      BY <2>5 DEF TypeOK
  <2>7. coef[m][order[a \div w]] \in Int
      BY <2>6, JobType, SMTT(30) DEF Slots, Cover, Zero, TypeOK
  <2>8. i \in DOMAIN got
      BY <1>1
  <2>9. Unpack(order, n, w)[i] =
            LET slot == coef[m][order[a \div w]]
            IN  IF slot >= 0 THEN slot + (a % w) ELSE slot
      BY <1>2, <2>8 DEF Unpack, a
  <2> QED
      BY <2>3, <2>7, <2>9
<1>3. CASE ~ (bit <= i /\ i < bit + n * w)
    BY <1>1, <1>3 DEF Unpack
<1> QED
    BY <1>2, <1>3

-----------------------------------------------------------------------------
(* Types and distinct frequencies.                                         *)

\* While it embeds, the sender counts the bits it has put in.
Counted == pc = "stuffing" => count = bit /\ bit <= nbits

TypeInv == TypeOK /\ NoFreqTwice /\ Counted

\* The sizes depend on the job only.
LEMMA Frame ==
    ASSUME UNCHANGED job
    PROVE  UNCHANGED <<nbits, gotBits, Slots>>
BY DEF nbits, gotBits, Slots

\* What every step of the sending walk starts from and does.
LEMMA StuffingType ==
    ASSUME TypeInv, Stuffing
    PROVE  /\ m \in Mcus
           /\ m' \in 0 .. NMcus
           /\ m' = m + 1
           /\ idx \in 0 .. m
           /\ used' \in Orders
           /\ Distinct(used')
           /\ count = bit
           /\ bit <= nbits
           /\ pc' = "stuffing"
<1>1. m \in 0 .. NMcus /\ idx \in 0 .. m
    BY DEF TypeInv, TypeOK
<1>2. m < NMcus /\ m' = m + 1 /\ used' = NextUsed
    BY DEF Stuffing, NextMcu
<1>3. m \in Mcus /\ m' \in 0 .. NMcus
    BY <1>1, <1>2, SelectionAssumption DEF Mcus
<1>4. Ring \in Ring0 /\ k \in 0 .. NList /\ used \in Orders /\ Distinct(used)
    BY NextType DEF TypeInv, TypeOK, NoFreqTwice
<1>5. NextUsed \in Orders /\ Distinct(NextUsed)
    BY <1>4, PermuteFreqsFacts DEF NextUsed
<1> QED
    BY <1>1, <1>2, <1>3, <1>5 DEF TypeInv, Counted, Stuffing

\* What every step of the receiving walk starts from and does.
LEMMA UnstuffingType ==
    ASSUME TypeInv, Unstuffing
    PROVE  /\ m \in Mcus
           /\ m' \in 0 .. NMcus
           /\ m' = m + 1
           /\ idx \in 0 .. m
           /\ used' \in Orders
           /\ Distinct(used')
           /\ pc = "unstuffing"
<1>1. m \in 0 .. NMcus /\ idx \in 0 .. m
    BY DEF TypeInv, TypeOK
<1>2. m < NMcus /\ m' = m + 1 /\ used' = NextUsed
    BY DEF Unstuffing, NextMcu
<1>3. m \in Mcus /\ m' \in 0 .. NMcus
    BY <1>1, <1>2, SelectionAssumption DEF Mcus
<1>4. Ring \in Ring0 /\ k \in 0 .. NList /\ used \in Orders /\ Distinct(used)
    BY NextType DEF TypeInv, TypeOK, NoFreqTwice
<1>5. NextUsed \in Orders /\ Distinct(NextUsed)
    BY <1>4, PermuteFreqsFacts DEF NextUsed
<1> QED
    BY <1>1, <1>2, <1>3, <1>5 DEF Unstuffing

\* Writing an MCU keeps the types of the coefficients and of the position in
\* the stream.
LEMMA InsertType ==
    ASSUME TypeInv, Stuffing, NEW n \in Nat, NEW w \in Nat, Insert(n, w)
    PROVE  /\ coef' \in [Mcus -> [Freqs -> Slots]]
           /\ bit' \in Nat
           /\ count' = bit'
           /\ bit' <= nbits
<1>1. m \in Mcus /\ count = bit /\ bit <= nbits
    BY StuffingType
<1>2. /\ coef \in [Mcus -> [Freqs -> Slots]]
      /\ bit \in Nat
      /\ job \in Jobs
    BY DEF TypeInv, TypeOK
<1>3. Pack(NextUsed, n, w) \in [Freqs -> Slots]
    BY <1>1, PackType DEF TypeInv
<1>4. coef' \in [Mcus -> [Freqs -> Slots]]
    BY <1>1, <1>2, <1>3 DEF Insert
<1>5. nbits \in Nat /\ n * w \in Nat
    BY <1>2, JobType, TimesNat
<1>6. bit' = Lesser(bit + n * w, nbits) /\ count' = count + (bit' - bit)
    BY DEF Insert
<1>7. bit' \in Nat /\ bit' <= nbits
    BY <1>2, <1>5, <1>6 DEF Lesser
<1> QED
    BY <1>1, <1>2, <1>4, <1>6, <1>7

\* The history entry a step of the sender writes has its type.
LEMMA RecordType ==
    ASSUME TypeOK, m \in Mcus, Record,
           bit' \in Nat, k' \in 0 .. NList, used' \in Orders
    PROVE  trace' \in [0 .. NMcus -> [bit : Nat, k : 0 .. NList, used : Orders]]
<1> DEFINE R == [bit : Nat, k : 0 .. NList, used : Orders]
           r == [bit |-> bit', k |-> k', used |-> used']
<1>1. r \in R
    OBVIOUS
<1>2. trace \in [0 .. NMcus -> R] /\ trace' = [trace EXCEPT ![m + 1] = r]
    BY DEF TypeOK, Record
<1> HIDE DEF R, r
<1>3. trace' \in [0 .. NMcus -> R]
    BY <1>1, <1>2
<1> QED
    BY <1>3 DEF R

\* Reading an MCU keeps the types of the receiver's stream.
LEMMA ExtractType ==
    ASSUME TypeInv, Unstuffing,
           NEW n \in 0 .. MaxFreqs, NEW w \in Nat \ {0}, Extract(n, w)
    PROVE  /\ got' \in [0 .. gotBits - 1 -> Int]
           /\ bit' \in Nat
           /\ count' \in Nat
<1>1. m \in Mcus /\ NextUsed \in Orders
    BY UnstuffingType, NextType DEF TypeInv
<1>2. got' \in [0 .. gotBits - 1 -> Int]
    BY <1>1, UnpackType DEF Extract, TypeInv
<1>3. bit \in Nat /\ count \in Nat /\ job \in Jobs
    BY DEF TypeInv, TypeOK
<1>4. n \in Nat
    BY SelectionAssumption
<1>5. n * w \in Nat /\ gotBits \in Nat
    BY <1>3, <1>4, TimesNat, JobType
<1>6. bit' = Lesser(bit + n * w, gotBits) /\ count' = count + n * w
    BY DEF Extract
<1>7. bit' \in Nat /\ count' \in Nat
    BY <1>3, <1>5, <1>6 DEF Lesser
<1> QED
    BY <1>2, <1>7

\* The initial states are well typed.
LEMMA TypeInit == Init => TypeInv
<1> SUFFICES ASSUME Init PROVE TypeInv
    OBVIOUS
<1>1. job \in Jobs /\ pc = "stuff"
    BY DEF Init
<1>2. gotBits \in Nat /\ job.k \in 0 .. NList
    BY <1>1, JobType
<1>3. used \in Orders /\ Distinct(used)
    BY ResetFreqsType DEF Init
<1>4. coef \in [Mcus -> [Freqs -> Slots]]
    BY DEF Init, Slots
<1>5. got \in [0 .. gotBits - 1 -> Int]
    BY DEF Init, Unset
<1>6. trace \in [0 .. NMcus -> [bit : Nat, k : 0 .. NList, used : Orders]]
  <2>1. Nowhere \in [bit : Nat, k : 0 .. NList, used : Orders]
      BY ResetFreqsType, SelectionAssumption DEF Nowhere
  <2> QED
      BY <2>1 DEF Init
<1>7. flag \in [Mcus -> BOOLEAN] /\ m \in 0 .. NMcus /\ idx \in 0 .. m
    BY SelectionAssumption DEF Init
<1> QED
    BY <1>1, <1>2, <1>3, <1>4, <1>5, <1>6, <1>7
    DEF Init, TypeInv, TypeOK, NoFreqTwice, Counted

\* A step that changes nothing keeps the types.
LEMMA TypeStutter == TypeInv /\ UNCHANGED vars => TypeInv'
<1> SUFFICES ASSUME TypeInv, UNCHANGED vars PROVE TypeInv'
    OBVIOUS
<1>1. UNCHANGED <<nbits, gotBits, Slots>>
    BY Frame DEF vars
<1> QED
    BY <1>1 DEF vars, walk, TypeInv, TypeOK, NoFreqTwice, Counted

\* Refusing a message keeps the types.
LEMMA TypeStuffOverflow == TypeInv /\ StuffOverflow => TypeInv'
<1> SUFFICES ASSUME TypeInv, StuffOverflow PROVE TypeInv'
    OBVIOUS
<1>1. UNCHANGED <<nbits, gotBits, Slots>>
    BY Frame DEF StuffOverflow
<1> QED
    BY <1>1 DEF StuffOverflow, walk, TypeInv, TypeOK, NoFreqTwice, Counted

\* Starting to send keeps the types; the density is the one case that is not
\* immediate.
LEMMA TypeStuffBegin == TypeInv /\ StuffBegin => TypeInv'
<1> SUFFICES ASSUME TypeInv, StuffBegin PROVE TypeInv'
    OBVIOUS
<1>1. UNCHANGED <<nbits, gotBits, Slots>>
    BY Frame DEF StuffBegin
<1>2. job \in Jobs
    BY DEF TypeInv, TypeOK
<1>3. /\ m' = 0 /\ idx' = 0 /\ bit' = 0 /\ count' = 0
      /\ flag' \in [Mcus -> BOOLEAN]
      /\ used' \in Orders
      /\ Distinct(used')
      /\ k' \in 0 .. NList
    BY BeginType DEF StuffBegin, TypeInv
<1>4. density' \in {Unspecified} \cup (1 .. 100)
  <2>1. CASE job.density = Unspecified
    <3>1. nbits \in Nat \ {0} /\ nbits <= ImageBits
      <4>1. nbits <= ImageCapacity(Unspecified)
        <5>1. nbits \in Nat /\ ImageCapacity(Unspecified) \in Nat
            BY <1>2, JobType, ImageCapacityType
        <5> QED
            BY <2>1, <5>1 DEF StuffBegin, TooLong
      <4> QED
          BY <1>2, <4>1, JobType, ImageCapacityType DEF HeaderBits
    <3> QED
        BY <2>1, <3>1, AutoDensityType DEF StuffBegin
  <2>2. CASE job.density # Unspecified
      BY <1>2, <2>2, JobType DEF StuffBegin
  <2> QED
      BY <2>1, <2>2
<1>5. trace' \in [0 .. NMcus -> [bit : Nat, k : 0 .. NList, used : Orders]]
  <2>1. [bit |-> 0, k |-> k', used |-> used']
            \in [bit : Nat, k : 0 .. NList, used : Orders]
      BY <1>3
  <2> QED
      BY <2>1 DEF StuffBegin, TypeInv, TypeOK
<1>6. 0 \in 0 .. NMcus /\ nbits \in Nat /\ nbits >= 0
    BY <1>2, JobType, SelectionAssumption
<1> QED
    BY <1>1, <1>3, <1>4, <1>5, <1>6
    DEF StuffBegin, TypeInv, TypeOK, NoFreqTwice, Counted

\* A step of the sender's loop changes these variables only.
LEMMA TypeStuffing ==
    ASSUME TypeInv, Stuffing,
           idx' \in 0 .. m',
           flag' \in [Mcus -> BOOLEAN],
           k' \in 0 .. NList,
           bit' \in Nat, count' = bit', bit' <= nbits,
           coef' \in [Mcus -> [Freqs -> Slots]],
           Record
    PROVE  TypeInv'
<1>1. UNCHANGED <<nbits, gotBits, Slots>>
    BY Frame DEF Stuffing
<1>2. m \in Mcus /\ m' \in 0 .. NMcus /\ used' \in Orders /\ Distinct(used')
    BY StuffingType
<1>3. trace' \in [0 .. NMcus -> [bit : Nat, k : 0 .. NList, used : Orders]]
    BY <1>2, RecordType DEF TypeInv
<1> QED
    BY <1>1, <1>2, <1>3 DEF Stuffing, TypeInv, TypeOK, NoFreqTwice, Counted

\* Writing the density MCU keeps the types.
LEMMA TypeStuffDensity == TypeInv /\ StuffDensity => TypeInv'
<1> SUFFICES ASSUME TypeInv, StuffDensity PROVE TypeInv'
    OBVIOUS
<1>1. Stuffing /\ Insert(4, 2) /\ SelectMcus(density) /\ Record /\ idx' = idx
    BY DEF StuffDensity
<1>2. /\ coef' \in [Mcus -> [Freqs -> Slots]]
      /\ bit' \in Nat /\ count' = bit' /\ bit' <= nbits
    BY <1>1, InsertType
<1>3. Ring \in Ring0 /\ NextK \in 0 .. NList /\ job.seeded \in BOOLEAN
    BY NextType, JobType DEF TypeInv, TypeOK
<1>4. flag' \in [Mcus -> BOOLEAN] /\ k' \in 0 .. NList
    BY <1>1, <1>3, SelectType DEF SelectMcus
<1>5. idx' \in 0 .. m'
    BY <1>1, StuffingType DEF Mcus
<1> QED
    BY <1>1, <1>2, <1>4, <1>5, TypeStuffing

\* Writing a selected MCU keeps the types.
LEMMA TypeStuffBits == TypeInv /\ StuffBits => TypeInv'
<1> SUFFICES ASSUME TypeInv, StuffBits PROVE TypeInv'
    OBVIOUS
<1>1. /\ Stuffing /\ Insert(NFreqs, BitsPerFreq) /\ Record
      /\ idx' = idx + 1 /\ flag' = flag /\ k' = NextK
    BY DEF StuffBits
<1>2. NFreqs \in Nat /\ BitsPerFreq \in Nat
    BY StegAssumption
<1>3. /\ coef' \in [Mcus -> [Freqs -> Slots]]
      /\ bit' \in Nat /\ count' = bit' /\ bit' <= nbits
    BY <1>1, <1>2, InsertType
<1>4. k' \in 0 .. NList /\ flag' \in [Mcus -> BOOLEAN]
    BY <1>1, NextType DEF TypeInv, TypeOK
<1>5. idx' \in 0 .. m'
    BY <1>1, StuffingType DEF Mcus
<1> QED
    BY <1>1, <1>3, <1>4, <1>5, TypeStuffing

\* Passing over an MCU while sending keeps the types.
LEMMA TypeStuffIdle == TypeInv /\ (StuffIdle \/ StuffSkip) => TypeInv'
<1> SUFFICES ASSUME TypeInv, StuffIdle \/ StuffSkip PROVE TypeInv'
    OBVIOUS
<1>1. /\ Stuffing /\ Record
      /\ idx' \in {idx, idx + 1} /\ k' = NextK
      /\ UNCHANGED <<flag, bit, count, coef>>
    BY DEF StuffIdle, StuffSkip
<1>2. UNCHANGED Slots
    BY <1>1, Frame DEF Stuffing
<1>3. /\ coef' \in [Mcus -> [Freqs -> Slots]]
      /\ bit' \in Nat /\ flag' \in [Mcus -> BOOLEAN]
    BY <1>1, <1>2 DEF TypeInv, TypeOK
<1>4. count' = bit' /\ bit' <= nbits
    BY <1>1, StuffingType
<1>5. k' \in 0 .. NList
    BY <1>1, NextType DEF TypeInv
<1>6. idx' \in 0 .. m'
    BY <1>1, StuffingType DEF Mcus
<1> QED
    BY <1>1, <1>3, <1>4, <1>5, <1>6, TypeStuffing

\* The end of the sending walk keeps the types.
LEMMA TypeStuffEnd == TypeInv /\ StuffEnd => TypeInv'
<1> SUFFICES ASSUME TypeInv, StuffEnd PROVE TypeInv'
    OBVIOUS
<1>1. UNCHANGED <<nbits, gotBits, Slots>>
    BY Frame DEF StuffEnd
<1>2. job.len \in Nat
    BY JobType DEF TypeInv, TypeOK
<1> QED
    BY <1>1, <1>2 DEF StuffEnd, walk, TypeInv, TypeOK, NoFreqTwice, Counted

\* Starting to receive keeps the types.
LEMMA TypeUnstuffBegin == TypeInv /\ UnstuffBegin => TypeInv'
<1> SUFFICES ASSUME TypeInv, UnstuffBegin PROVE TypeInv'
    OBVIOUS
<1>1. UNCHANGED <<nbits, gotBits, Slots>>
    BY Frame DEF UnstuffBegin
<1>2. job \in Jobs
    BY DEF TypeInv, TypeOK
<1>3. /\ m' = 0 /\ idx' = 0 /\ bit' = 0 /\ count' = 0
      /\ flag' \in [Mcus -> BOOLEAN]
      /\ used' \in Orders
      /\ Distinct(used')
      /\ k' \in 0 .. NList
    BY BeginType DEF UnstuffBegin, TypeInv
<1>4. limit' \in Nat /\ msgNbytes' \in {Unknown} \cup Nat
    BY <1>2, JobType DEF UnstuffBegin
<1>5. 0 \in 0 .. NMcus
    BY SelectionAssumption
<1> QED
    BY <1>1, <1>3, <1>4, <1>5
    DEF UnstuffBegin, TypeInv, TypeOK, NoFreqTwice, Counted

\* A step of the receiver's loop changes these variables only.
LEMMA TypeUnstuffing ==
    ASSUME TypeInv, Unstuffing,
           pc' \in {"unstuffing", "done"},
           idx' \in 0 .. m',
           flag' \in [Mcus -> BOOLEAN],
           k' \in 0 .. NList,
           bit' \in Nat, count' \in Nat,
           got' \in [0 .. gotBits - 1 -> Int],
           limit' \in Nat, msgNbytes' \in {Unknown} \cup Nat,
           extracted' \in {NotYet, JEL_ERR_MSG_OVERFLOW, JEL_ERR_CHECKSUM}
                            \cup Nat
    PROVE  TypeInv'
<1>1. UNCHANGED <<nbits, gotBits, Slots>>
    BY Frame DEF Unstuffing
<1>2. m \in Mcus /\ m' \in 0 .. NMcus /\ used' \in Orders /\ Distinct(used')
    BY UnstuffingType
<1> QED
    BY <1>1, <1>2 DEF Unstuffing, TypeInv, TypeOK, NoFreqTwice, Counted

\* What the two ways of ending a step do to the receiver's results.
LEMMA ReturnType ==
    ASSUME TypeInv, Unstuffing,
           \/ GoOn
           \/ \E code \in {0, JEL_ERR_MSG_OVERFLOW, JEL_ERR_CHECKSUM} :
                  Return(code)
    PROVE  /\ pc' \in {"unstuffing", "done"}
           /\ limit' \in Nat
           /\ msgNbytes' \in {Unknown} \cup Nat
           /\ extracted' \in {NotYet, JEL_ERR_MSG_OVERFLOW, JEL_ERR_CHECKSUM}
                               \cup Nat
BY DEF GoOn, Return, Unstuffing, TypeInv, TypeOK

\* Reading the density MCU keeps the types, whatever density is decoded.
LEMMA TypeUnstuffDensity == TypeInv /\ UnstuffDensity => TypeInv'
<1> SUFFICES ASSUME TypeInv, UnstuffDensity PROVE TypeInv'
    OBVIOUS
<1>1. Unstuffing /\ Extract(4, 2) /\ idx' = idx
    BY DEF UnstuffDensity
<1>2. 4 \in 0 .. MaxFreqs
    BY StegAssumption, SelectionAssumption
<1>3. /\ got' \in [0 .. gotBits - 1 -> Int]
      /\ bit' \in Nat /\ count' \in Nat
    BY <1>1, <1>2, ExtractType
<1>4. PICK d :
          /\ IF d > 100 THEN UNCHANGED flag /\ k' = NextK ELSE SelectMcus(d)
          /\ IF d \in 1 .. 100 THEN GoOn ELSE Return(JEL_ERR_CHECKSUM)
    BY DEF UnstuffDensity
<1>5. Ring \in Ring0 /\ NextK \in 0 .. NList /\ job.seeded \in BOOLEAN
    BY NextType, JobType DEF TypeInv, TypeOK
<1>6. flag' \in [Mcus -> BOOLEAN] /\ k' \in 0 .. NList
    BY <1>4, <1>5, SelectType DEF SelectMcus, TypeInv, TypeOK
<1>7. idx' \in 0 .. m'
    BY <1>1, UnstuffingType DEF Mcus
<1>8. /\ pc' \in {"unstuffing", "done"}
      /\ limit' \in Nat
      /\ msgNbytes' \in {Unknown} \cup Nat
      /\ extracted' \in {NotYet, JEL_ERR_MSG_OVERFLOW, JEL_ERR_CHECKSUM}
                         \cup Nat
    BY <1>1, <1>4, ReturnType
<1> QED
    BY <1>1, <1>3, <1>6, <1>7, <1>8, TypeUnstuffing

\* The part that reading a selected MCU has in common with and without the end
\* of the header.
LEMMA ExtractBitsType ==
    ASSUME TypeInv, ExtractBits
    PROVE  /\ Unstuffing
           /\ got' \in [0 .. gotBits - 1 -> Int]
           /\ bit' \in Nat
           /\ count' \in Nat
           /\ flag' \in [Mcus -> BOOLEAN]
           /\ k' \in 0 .. NList
           /\ idx' \in 0 .. m'
<1>1. /\ Unstuffing /\ Extract(NFreqs, BitsPerFreq)
      /\ idx' = idx + 1 /\ flag' = flag /\ k' = NextK
    BY DEF ExtractBits
<1>2. NFreqs \in 0 .. MaxFreqs /\ BitsPerFreq \in Nat \ {0}
    BY StegAssumption, SelectionAssumption
<1>3. /\ got' \in [0 .. gotBits - 1 -> Int]
      /\ bit' \in Nat /\ count' \in Nat
    BY <1>1, <1>2, ExtractType
<1>4. flag' \in [Mcus -> BOOLEAN] /\ k' \in 0 .. NList
    BY <1>1, NextType DEF TypeInv, TypeOK
<1>5. idx' \in 0 .. m'
    BY <1>1, UnstuffingType DEF Mcus
<1> QED
    BY <1>1, <1>3, <1>4, <1>5

\* Reading a selected MCU keeps the types.
LEMMA TypeUnstuffBits == TypeInv /\ UnstuffBits => TypeInv'
<1> SUFFICES ASSUME TypeInv, UnstuffBits PROVE TypeInv'
    OBVIOUS
<1>1. ExtractBits /\ GoOn
    BY DEF UnstuffBits
<1>2. /\ pc' \in {"unstuffing", "done"}
      /\ limit' \in Nat
      /\ msgNbytes' \in {Unknown} \cup Nat
      /\ extracted' \in {NotYet, JEL_ERR_MSG_OVERFLOW, JEL_ERR_CHECKSUM}
                         \cup Nat
    BY <1>1, ExtractBitsType, ReturnType
<1> QED
    BY <1>1, <1>2, ExtractBitsType, TypeUnstuffing

\* Completing the header keeps the types, whatever length is decoded.
LEMMA TypeUnstuffHeader == TypeInv /\ UnstuffHeader => TypeInv'
<1> SUFFICES ASSUME TypeInv, UnstuffHeader PROVE TypeInv'
    OBVIOUS
<1>1. ExtractBits
    BY DEF UnstuffHeader
<1>2. PICK ok \in BOOLEAN, n \in {job.len} \cup Garbage :
          CASE ~ok -> Return(JEL_ERR_CHECKSUM)
            [] ok /\ n = 0 -> Return(0)
            [] ok /\ n > ImageBits \div 8 -> Return(JEL_ERR_MSG_OVERFLOW)
            [] OTHER -> /\ msgNbytes' = n
                        /\ limit' = StreamBits(n)
                        /\ UNCHANGED <<pc, extracted>>
    BY DEF UnstuffHeader
<1>3. n \in Nat
    BY StegAssumption, JobType DEF TypeInv, TypeOK
<1>4. \/ \E code \in {0, JEL_ERR_MSG_OVERFLOW, JEL_ERR_CHECKSUM} :
            Return(code)
      \/ /\ msgNbytes' = n
         /\ limit' = StreamBits(n)
         /\ UNCHANGED <<pc, extracted>>
    BY <1>2
<1>5. /\ pc' \in {"unstuffing", "done"}
      /\ limit' \in Nat
      /\ msgNbytes' \in {Unknown} \cup Nat
      /\ extracted' \in {NotYet, JEL_ERR_MSG_OVERFLOW, JEL_ERR_CHECKSUM}
                         \cup Nat
  <2>1. CASE \E code \in {0, JEL_ERR_MSG_OVERFLOW, JEL_ERR_CHECKSUM} :
                Return(code)
      BY <1>1, <2>1, ExtractBitsType, ReturnType
  <2>2. CASE /\ msgNbytes' = n
             /\ limit' = StreamBits(n)
             /\ UNCHANGED <<pc, extracted>>
    <3>1. StreamBits(n) \in Nat
        BY <1>3 DEF StreamBits, HeaderBits
    <3>2. pc = "unstuffing"
        BY <1>1, ExtractBitsType, UnstuffingType
    <3> QED
        BY <1>3, <2>2, <3>1, <3>2 DEF TypeInv, TypeOK
  <2> QED
      BY <1>4, <2>1, <2>2
<1> QED
    BY <1>1, <1>5, ExtractBitsType, TypeUnstuffing

\* Passing over an MCU while receiving keeps the types.
LEMMA TypeUnstuffIdle == TypeInv /\ (UnstuffIdle \/ UnstuffSkip) => TypeInv'
<1> SUFFICES ASSUME TypeInv, UnstuffIdle \/ UnstuffSkip PROVE TypeInv'
    OBVIOUS
<1>1. /\ Unstuffing /\ GoOn
      /\ idx' \in {idx, idx + 1} /\ k' = NextK
      /\ UNCHANGED <<flag, bit, count, got>>
    BY DEF UnstuffIdle, UnstuffSkip
<1>2. /\ bit' \in Nat /\ count' \in Nat /\ flag' \in [Mcus -> BOOLEAN]
      /\ got' \in [0 .. gotBits - 1 -> Int]
    BY <1>1 DEF TypeInv, TypeOK
<1>3. k' \in 0 .. NList
    BY <1>1, NextType DEF TypeInv
<1>4. idx' \in 0 .. m'
    BY <1>1, UnstuffingType DEF Mcus
<1>5. /\ pc' \in {"unstuffing", "done"}
      /\ limit' \in Nat
      /\ msgNbytes' \in {Unknown} \cup Nat
      /\ extracted' \in {NotYet, JEL_ERR_MSG_OVERFLOW, JEL_ERR_CHECKSUM}
                         \cup Nat
    BY <1>1, ReturnType
<1> QED
    BY <1>1, <1>2, <1>3, <1>4, <1>5, TypeUnstuffing

\* The end of the receiving walk keeps the types.
LEMMA TypeUnstuffEnd == TypeInv /\ UnstuffEnd => TypeInv'
<1> SUFFICES ASSUME TypeInv, UnstuffEnd PROVE TypeInv'
    OBVIOUS
<1>1. UNCHANGED <<nbits, gotBits, Slots>>
    BY Frame DEF UnstuffEnd
<1>2. Capacity(job.receiver) \in Nat
    BY JobType DEF TypeInv, TypeOK
<1> QED
    BY <1>1, <1>2 DEF UnstuffEnd, walk, TypeInv, TypeOK, NoFreqTwice, Counted

\* Every step keeps the types.
LEMMA TypeNext == TypeInv /\ [Next]_vars => TypeInv'
BY TypeStutter, TypeStuffOverflow, TypeStuffBegin, TypeStuffDensity,
   TypeStuffBits, TypeStuffIdle, TypeStuffEnd, TypeUnstuffBegin,
   TypeUnstuffDensity, TypeUnstuffBits, TypeUnstuffHeader, TypeUnstuffIdle,
   TypeUnstuffEnd
DEF Next, Stuff, Unstuff

\* Every variable keeps its type: in particular every index stays inside the
\* arrays of its image, ring and bit stream.
THEOREM StegType == Spec => []TypeOK
<1>1. Init => TypeInv
    BY TypeInit
<1>2. TypeInv /\ [Next]_vars => TypeInv'
    BY TypeNext
<1>3. TypeInv => TypeOK
    BY DEF TypeInv
<1> QED
    BY <1>1, <1>2, <1>3, PTL DEF Spec

\* However often the order of the frequencies was permuted, the frequencies
\* an MCU uses are different coefficients.
THEOREM StegNoFreqTwice == Spec => []NoFreqTwice
<1>1. Init => TypeInv
    BY TypeInit
<1>2. TypeInv /\ [Next]_vars => TypeInv'
    BY TypeNext
<1>3. TypeInv => NoFreqTwice
    BY DEF TypeInv
<1> QED
    BY <1>1, <1>2, <1>3, PTL DEF Spec

-----------------------------------------------------------------------------
(* The receiver's bits are set once.                                       *)

\* The receiver has set no bit from the next one on.
UnsetAhead ==
    \A i \in 0 .. gotBits - 1 :
        \/ pc \in {"stuff", "stuffing", "unstuff"}
        \/ pc = "unstuffing" /\ i >= bit
        => got[i] = Unset

AheadInv == TypeInv /\ UnsetAhead

\* Bits that are set stay as they are.
KeepsBits == \A i \in 0 .. gotBits - 1 : got[i] # Unset => got'[i] = got[i]

\* An MCU that is read sets only bits from the next one on, and the next bit
\* is then past all of them.
LEMMA ExtractAhead ==
    ASSUME AheadInv, pc = "unstuffing", pc' \in {"unstuffing", "done"},
           UNCHANGED job, NEW n \in Nat, NEW w \in Nat, Extract(n, w)
    PROVE  KeepsBits /\ UnsetAhead'
<1>1. gotBits' = gotBits
    BY Frame
<1>2. n * w \in Nat /\ bit \in Nat /\ DOMAIN got = 0 .. gotBits - 1
    BY DEF AheadInv, TypeInv, TypeOK
<1> SUFFICES ASSUME NEW i \in 0 .. gotBits - 1
             PROVE  /\ got[i] # Unset => got'[i] = got[i]
                    /\ i >= bit' => got'[i] = Unset
    BY <1>1 DEF KeepsBits, UnsetAhead
<1>3. i >= bit => got[i] = Unset
    BY DEF AheadInv, UnsetAhead
<1>4. ~(bit <= i /\ i < bit + n * w) => got'[i] = got[i]
    BY <1>2 DEF Extract, Unpack
<1>5. i >= bit' => i >= bit + n * w
  <2> DEFINE p == n * w
  <2>1. p \in Nat /\ bit' = Lesser(bit + p, gotBits)
      BY <1>2 DEF Extract
  <2> HIDE DEF p
  <2>2. gotBits \in Int => (i >= bit' => i >= bit + p)
      BY <2>1, <1>2 DEF Lesser
  <2>3. gotBits \in Int
      BY JobType DEF AheadInv, TypeInv, TypeOK, gotBits, StreamBits, HeaderBits
  <2> QED
      BY <2>2, <2>3 DEF p
<1>6. i >= bit + n * w => i >= bit
  <2> DEFINE p == n * w
  <2>1. p \in Nat
      BY <1>2
  <2> HIDE DEF p
  <2>2. i >= bit + p => i >= bit
      BY <2>1, <1>2
  <2> QED
      BY <2>2 DEF p
<1>7. ASSUME i < bit PROVE got'[i] = got[i]
    BY <1>2, <1>4, <1>7
<1>8. ASSUME i >= bit + n * w PROVE got'[i] = got[i]
  <2> DEFINE p == n * w
  <2>1. p \in Nat /\ (~(bit <= i /\ i < bit + p) => got'[i] = got[i])
        /\ i >= bit + p
      BY <1>2, <1>4, <1>8
  <2> HIDE DEF p
  <2> QED
      BY <2>1, <1>2
<1> QED
    BY <1>2, <1>3, <1>5, <1>6, <1>7, <1>8

\* Every step keeps the bits, and sets none but those it is reading.
LEMMA AheadNext == AheadInv /\ [Next]_vars => UnsetAhead' /\ KeepsBits
<1> SUFFICES ASSUME AheadInv, [Next]_vars PROVE UnsetAhead' /\ KeepsBits
    OBVIOUS
<1>1. CASE UnstuffDensity
  <2>1. /\ pc = "unstuffing" /\ pc' \in {"unstuffing", "done"}
        /\ UNCHANGED job /\ Extract(4, 2)
      BY <1>1 DEF UnstuffDensity, Unstuffing, GoOn, Return
  <2> QED
      BY <2>1, ExtractAhead
<1>2. CASE UnstuffBits \/ UnstuffHeader
  <2>1. /\ pc = "unstuffing" /\ pc' \in {"unstuffing", "done"}
        /\ UNCHANGED job /\ Extract(NFreqs, BitsPerFreq)
      BY <1>2 DEF UnstuffBits, UnstuffHeader, ExtractBits, Unstuffing,
                  GoOn, Return
  <2>2. NFreqs \in Nat /\ BitsPerFreq \in Nat
      BY StegAssumption, SelectionAssumption
  <2> QED
      BY <2>1, <2>2, ExtractAhead
<1>3. CASE UnstuffBegin
  <2>1. gotBits' = gotBits
      BY <1>3, Frame DEF UnstuffBegin
  <2> QED
      BY <1>3, <2>1 DEF UnstuffBegin, AheadInv, UnsetAhead, KeepsBits
<1>4. CASE Stuff
  <2>1. /\ UNCHANGED <<job, got>>
        /\ pc \in {"stuff", "stuffing"}
        /\ pc' \in {"stuff", "stuffing", "unstuff", "done"}
      BY <1>4 DEF Stuff, StuffOverflow, StuffBegin, StuffDensity, StuffBits,
                  StuffIdle, StuffSkip, StuffEnd, Stuffing
  <2>2. gotBits' = gotBits
      BY <2>1, Frame
  <2> QED
      BY <2>1, <2>2 DEF AheadInv, UnsetAhead, KeepsBits
<1>5. CASE UnstuffIdle \/ UnstuffSkip \/ UnstuffEnd \/ UNCHANGED vars
  <2>1. UNCHANGED <<job, got, bit>> /\ (pc' = pc \/ pc' = "done")
      BY <1>5 DEF UnstuffIdle, UnstuffSkip, UnstuffEnd, Unstuffing, GoOn,
                  vars, walk
  <2>2. gotBits' = gotBits
      BY <2>1, Frame
  <2> QED
      BY <2>1, <2>2 DEF AheadInv, UnsetAhead, KeepsBits
<1> QED
    BY <1>1, <1>2, <1>3, <1>4, <1>5 DEF Next, Unstuff

\* Bits of the receiver's stream, once set, are never set again.
THEOREM StegBitsSetOnce == Spec => BitsSetOnce
<1>1. Init => AheadInv
    BY TypeInit DEF Init, AheadInv, UnsetAhead
<1>2. AheadInv /\ [Next]_vars => AheadInv'
    BY TypeNext, AheadNext DEF AheadInv
<1>3. AheadInv /\ [Next]_vars =>
          [\A i \in 0 .. gotBits - 1 : got[i] # Unset => got'[i] = got[i]]_vars
    BY AheadNext DEF KeepsBits
<1> QED
    BY <1>1, <1>2, <1>3, PTL DEF Spec, BitsSetOnce

-----------------------------------------------------------------------------
(* The walks stay in step.                                                 *)

\* Frequencies and ring after MCU i, for a side that reached it with those of
\* the record r, the ring holding the given PRNs.
UsedAfter(ring, r) == IF job.seeded THEN PermuteFreqs(ring, r.k, r.used)
                                    ELSE r.used

KAfter(i, r) ==
    LET n == IF job.seeded THEN Advance(r.k, MaxFreqs - 1) ELSE r.k
    IN  IF job.header /\ i = 0 THEN SelectIndex(job.seeded, n) ELSE n

\* The same, before the first MCU.
StartUsed(ring) == IF job.seeded THEN PermuteFreqs(ring, job.k, ResetFreqs)
                                 ELSE ResetFreqs
StartK == IF job.seeded THEN Advance(job.k, MaxFreqs - 1) ELSE job.k

Lawful(i) == /\ trace[i + 1].used = UsedAfter(job.ring, trace[i])
             /\ trace[i + 1].k = KAfter(i, trace[i])

\* The sender walks by the law.
SenderWalk ==
    /\ pc \in {"stuff", "stuffing", "unstuff", "unstuffing"} =>
          extracted = NotYet
    /\ pc = "stuffing" => /\ k = trace[m].k
                          /\ used = trace[m].used
                          /\ m = 0 => count = 0
                          /\ \A i \in 0 .. m - 1 : Lawful(i)
    /\ pc \in {"unstuff", "unstuffing"} => \A i \in 0 .. NMcus - 1 : Lawful(i)
    /\ pc \in {"stuffing", "unstuff", "unstuffing"} =>
          /\ trace[0].used = StartUsed(job.ring)
          /\ trace[0].k = StartK

\* So does the receiver if it has the same ring.
ReceiverWalk ==
    /\ pc = "unstuffing" /\ m = 0 => count = 0 /\ limit >= HeaderBits
    /\ PrnInStep
    /\ NextChannelInStep

StepInv == TypeInv /\ SenderWalk /\ ReceiverWalk

\* The walks are in step before they begin.
LEMMA StepInit == Init => StepInv
<1> SUFFICES ASSUME Init PROVE StepInv
    OBVIOUS
<1>1. TypeInv
    BY TypeInit
<1> QED
    BY <1>1 DEF Init, StepInv, SenderWalk, ReceiverWalk, PrnInStep,
                NextChannelInStep

\* What an MCU does to the frequencies and the ring, on either side.
LEMMA StuffingStep ==
    ASSUME StepInv, StuffDensity \/ StuffBits \/ StuffIdle \/ StuffSkip
    PROVE  /\ Stuffing /\ Record
           /\ used' = UsedAfter(job.ring, trace[m])
           /\ k' = KAfter(m, trace[m])
<1>1. Stuffing /\ Record /\ pc = "stuffing"
    BY DEF StuffDensity, StuffBits, StuffIdle, StuffSkip, Stuffing
<1>2. used = trace[m].used /\ k = trace[m].k /\ Ring = job.ring
    BY <1>1 DEF StepInv, SenderWalk, Ring
<1>3. used' = UsedAfter(job.ring, trace[m])
    BY <1>1, <1>2 DEF Stuffing, NextMcu, NextUsed, UsedAfter
<1>4. k' = IF AtDensity THEN SelectIndex(job.seeded, NextK) ELSE NextK
  <2>1. CASE StuffDensity
      BY <2>1 DEF StuffDensity, SelectMcus
  <2>2. CASE StuffBits \/ StuffIdle
      BY <2>2 DEF StuffBits, StuffIdle
  <2>3. CASE StuffSkip
    <3>1. count >= nbits /\ nbits >= 48 /\ nbits \in Nat
        BY <2>3, JobType DEF StuffSkip, StepInv, TypeInv, TypeOK, HeaderBits
    <3>2. m # 0
        BY <1>1, <3>1 DEF StepInv, SenderWalk
    <3> QED
        BY <2>3, <3>2 DEF StuffSkip, AtDensity
  <2> QED
      BY <2>1, <2>2, <2>3
<1>5. k' = KAfter(m, trace[m])
    BY <1>2, <1>4 DEF AtDensity, KAfter, NextK
<1> QED
    BY <1>1, <1>3, <1>5

\* Every MCU of the sender adds to the history what the next MCU follows from.
LEMMA StepStuffing ==
    ASSUME StepInv, StuffDensity \/ StuffBits \/ StuffIdle \/ StuffSkip
    PROVE  StepInv'
<1>1. TypeInv'
    BY TypeStuffDensity, TypeStuffBits, TypeStuffIdle DEF StepInv
<1>2. /\ Stuffing /\ Record
      /\ used' = UsedAfter(job.ring, trace[m])
      /\ k' = KAfter(m, trace[m])
    BY StuffingStep
<1>3. m \in Mcus /\ m' = m + 1 /\ pc = "stuffing" /\ pc' = "stuffing"
    BY <1>2, StuffingType DEF StepInv, Stuffing
<1>4. m \in Nat /\ m + 1 \in 0 .. NMcus
    BY <1>3, SelectionAssumption DEF Mcus
<1>5. /\ trace'[m + 1] = [bit |-> bit', k |-> k', used |-> used']
      /\ \A i \in 0 .. m : trace'[i] = trace[i]
    BY <1>2, <1>4 DEF Record, StepInv, TypeInv, TypeOK
<1>6. UNCHANGED <<job, extracted, limit>>
    BY <1>2 DEF Stuffing
<1>7. \A i \in 0 .. m : Lawful(i)'
  <2> SUFFICES ASSUME NEW i \in 0 .. m PROVE Lawful(i)'
      OBVIOUS
  <2>1. CASE i = m
    <3>1. trace'[i + 1].used = used' /\ trace'[i + 1].k = k'
        BY <1>5, <2>1
    <3>2. trace'[i] = trace[i]
        BY <1>5
    <3>3. UsedAfter(job.ring, trace[i]) = UsedAfter(job.ring, trace[i])'
        BY <1>6, <3>2 DEF UsedAfter
    <3>4. KAfter(i, trace[i]) = KAfter(i, trace[i])'
        BY <1>6, <3>2 DEF KAfter
    <3> QED
        BY <1>2, <2>1, <3>1, <3>3, <3>4 DEF Lawful
  <2>2. CASE i # m
    <3>1. i \in 0 .. m - 1 /\ i + 1 \in 0 .. m
        BY <1>4, <2>2
    <3>2. Lawful(i)
        BY <1>3, <3>1 DEF StepInv, SenderWalk
    <3>3. trace'[i] = trace[i] /\ trace'[i + 1] = trace[i + 1]
        BY <1>5, <3>1
    <3> QED
        BY <1>6, <3>2, <3>3 DEF Lawful, UsedAfter, KAfter
  <2> QED
      BY <2>1, <2>2
<1>8. SenderWalk'
  <2>1. extracted' = NotYet
      BY <1>3, <1>6 DEF StepInv, SenderWalk
  <2>2. k' = trace'[m'].k /\ used' = trace'[m'].used /\ m' # 0
      BY <1>3, <1>4, <1>5
  <2>3. \A i \in 0 .. m' - 1 : Lawful(i)'
      BY <1>3, <1>4, <1>7
  <2>4. trace'[0].used = StartUsed(job.ring)' /\ trace'[0].k = StartK'
      BY <1>3, <1>4, <1>5, <1>6 DEF StepInv, SenderWalk, StartUsed, StartK
  <2> QED
      BY <1>3, <2>1, <2>2, <2>3, <2>4 DEF SenderWalk
<1>9. ReceiverWalk'
    BY <1>3 DEF ReceiverWalk, PrnInStep, NextChannelInStep
<1> QED
    BY <1>1, <1>8, <1>9 DEF StepInv

\* The sender's history starts with the order and index the receiver will
\* start with.
LEMMA StepStuffBegin == StepInv /\ StuffBegin => StepInv'
<1> SUFFICES ASSUME StepInv, StuffBegin PROVE StepInv'
    OBVIOUS
<1>1. TypeInv'
    BY TypeStuffBegin DEF StepInv
<1>2. /\ UNCHANGED <<job, extracted>>
      /\ pc = "stuff" /\ pc' = "stuffing"
      /\ m' = 0 /\ count' = 0
      /\ Ring = job.ring
      /\ used' = StartUsed(job.ring) /\ k' = StartK
    BY DEF StuffBegin, BeginWalk, StartUsed, StartK, Ring
<1>3. trace'[0] = [bit |-> 0, k |-> k', used |-> used']
    BY SelectionAssumption DEF StuffBegin, StepInv, TypeInv, TypeOK
<1>4. SenderWalk'
    BY <1>2, <1>3 DEF StepInv, SenderWalk, StartUsed, StartK
<1>5. ReceiverWalk'
    BY <1>2 DEF ReceiverWalk, PrnInStep, NextChannelInStep
<1> QED
    BY <1>1, <1>4, <1>5 DEF StepInv

\* The history is complete when the sender returns.
LEMMA StepStuffEnd == StepInv /\ (StuffOverflow \/ StuffEnd) => StepInv'
<1> SUFFICES ASSUME StepInv, StuffOverflow \/ StuffEnd PROVE StepInv'
    OBVIOUS
<1>1. TypeInv'
    BY TypeStuffOverflow, TypeStuffEnd DEF StepInv
<1>2. UNCHANGED <<job, extracted, trace>>
    BY DEF StuffOverflow, StuffEnd
<1>3. extracted = NotYet
    BY DEF StuffOverflow, StuffEnd, StepInv, SenderWalk
<1>4. \/ pc' = "done"
      \/ pc = "stuffing" /\ pc' = "unstuff" /\ m = NMcus
    BY DEF StuffOverflow, StuffEnd
<1>5. SenderWalk'
    BY <1>2, <1>3, <1>4
    DEF StepInv, SenderWalk, StartUsed, StartK, Lawful, UsedAfter, KAfter
<1>6. ReceiverWalk'
    BY <1>2, <1>3, <1>4
    DEF ReceiverWalk, PrnInStep, NextChannelInStep, NotYet
<1> QED
    BY <1>1, <1>5, <1>6 DEF StepInv

\* The receiver starts where the sender started.
LEMMA StepUnstuffBegin == StepInv /\ UnstuffBegin => StepInv'
<1> SUFFICES ASSUME StepInv, UnstuffBegin PROVE StepInv'
    OBVIOUS
<1>1. TypeInv'
    BY TypeUnstuffBegin DEF StepInv
<1>2. /\ UNCHANGED <<job, extracted, trace>>
      /\ pc = "unstuff" /\ pc' = "unstuffing"
      /\ m' = 0 /\ count' = 0 /\ limit' = gotBits
      /\ Ring = job.theirs
      /\ used' = StartUsed(job.theirs) /\ k' = StartK
    BY DEF UnstuffBegin, BeginWalk, StartUsed, StartK, Ring
<1>3. SenderWalk'
    BY <1>2
    DEF StepInv, SenderWalk, StartUsed, StartK, Lawful, UsedAfter, KAfter
<1>4. gotBits \in Nat /\ gotBits >= HeaderBits
    BY JobType DEF StepInv, TypeInv, TypeOK
<1>5. SameKey' => k' = trace'[m'].k /\ used' = trace'[m'].used
    BY <1>2 DEF StepInv, SenderWalk, SameKey
<1>6. ReceiverWalk'
    BY <1>2, <1>4, <1>5 DEF ReceiverWalk, PrnInStep, NextChannelInStep
<1> QED
    BY <1>1, <1>3, <1>6 DEF StepInv

\* The index and order of the receiver after an MCU, from those before it,
\* whichever step it took.
LEMMA UnstuffingStep ==
    ASSUME StepInv,
           \/ UnstuffDensity \/ UnstuffBits \/ UnstuffHeader
           \/ UnstuffIdle \/ UnstuffSkip
    PROVE  /\ Unstuffing
           /\ pc' \in {"unstuffing", "done"}
           /\ pc' = "unstuffing" => extracted' = extracted
           /\ pc' = "done" => extracted' <= 0
           /\ pc' = "unstuffing" /\ SameKey =>
                 /\ used' = UsedAfter(job.ring, trace[m])
                 /\ k' = KAfter(m, trace[m])
<1>1. Unstuffing /\ pc = "unstuffing"
    BY DEF UnstuffDensity, UnstuffBits, UnstuffHeader, UnstuffIdle,
           UnstuffSkip, ExtractBits, Unstuffing
<1>2. \/ GoOn
      \/ \E code \in {0, JEL_ERR_MSG_OVERFLOW, JEL_ERR_CHECKSUM} :
            Return(code)
      \/ UNCHANGED <<pc, extracted>>
  <2>1. CASE UnstuffDensity
      BY <2>1 DEF UnstuffDensity
  <2>2. CASE UnstuffBits \/ UnstuffIdle \/ UnstuffSkip
      BY <2>2 DEF UnstuffBits, UnstuffIdle, UnstuffSkip
  <2>3. CASE UnstuffHeader
    <3>1. PICK ok \in BOOLEAN, n \in {job.len} \cup Garbage :
              CASE ~ok -> Return(JEL_ERR_CHECKSUM)
                [] ok /\ n = 0 -> Return(0)
                [] ok /\ n > ImageBits \div 8 -> Return(JEL_ERR_MSG_OVERFLOW)
                [] OTHER -> /\ msgNbytes' = n
                            /\ limit' = StreamBits(n)
                            /\ UNCHANGED <<pc, extracted>>
        BY <2>3 DEF UnstuffHeader
    <3> QED
        BY <3>1
  <2> QED
      BY <2>1, <2>2, <2>3
<1>3. /\ pc' \in {"unstuffing", "done"}
      /\ pc' = "unstuffing" => extracted' = extracted
      /\ pc' = "done" => extracted' <= 0
    BY <1>1, <1>2
    DEF GoOn, Return, JEL_ERR_MSG_OVERFLOW, JEL_ERR_CHECKSUM
<1>4. ASSUME pc' = "unstuffing", SameKey
      PROVE  /\ used' = UsedAfter(job.ring, trace[m])
             /\ k' = KAfter(m, trace[m])
  <2>1. used = trace[m].used /\ k = trace[m].k /\ Ring = job.ring
      BY <1>1, <1>4 DEF StepInv, ReceiverWalk, PrnInStep, Ring, SameKey
  <2>2. used' = UsedAfter(job.ring, trace[m])
      BY <1>1, <2>1 DEF Unstuffing, NextMcu, NextUsed, UsedAfter
  <2>3. k' = IF AtDensity THEN SelectIndex(job.seeded, NextK) ELSE NextK
    <3>1. CASE UnstuffDensity
      <4>1. PICK d :
                /\ IF d > 100 THEN UNCHANGED flag /\ k' = NextK
                              ELSE SelectMcus(d)
                /\ IF d \in 1 .. 100 THEN GoOn ELSE Return(JEL_ERR_CHECKSUM)
          BY <3>1 DEF UnstuffDensity
      <4>2. d \in 1 .. 100
          BY <1>4, <4>1 DEF Return
      <4>3. SelectMcus(d)
          BY <4>1, <4>2
      <4> QED
          BY <3>1, <4>3 DEF UnstuffDensity, SelectMcus
    <3>2. CASE UnstuffBits \/ UnstuffHeader \/ UnstuffIdle
        BY <3>2 DEF UnstuffBits, UnstuffHeader, UnstuffIdle, ExtractBits
    <3>3. CASE UnstuffSkip
      <4>1. count >= limit
          BY <3>3 DEF UnstuffSkip
      <4>2. m # 0
          BY <1>1, <4>1 DEF StepInv, ReceiverWalk, TypeInv, TypeOK, HeaderBits
      <4> QED
          BY <3>3, <4>2 DEF UnstuffSkip, AtDensity
    <3> QED
        BY <3>1, <3>2, <3>3
  <2>4. k' = KAfter(m, trace[m])
      BY <2>1, <2>3 DEF AtDensity, KAfter, NextK
  <2> QED
      BY <2>2, <2>4
<1> QED
    BY <1>1, <1>3, <1>4

\* Every MCU of the receiver takes it from the sender's place there to the
\* sender's place at the next.
LEMMA StepUnstuffing ==
    ASSUME StepInv,
           \/ UnstuffDensity \/ UnstuffBits \/ UnstuffHeader
           \/ UnstuffIdle \/ UnstuffSkip
    PROVE  StepInv'
<1>1. TypeInv'
    BY TypeUnstuffDensity, TypeUnstuffBits, TypeUnstuffHeader,
       TypeUnstuffIdle DEF StepInv
<1>2. /\ Unstuffing
      /\ pc' \in {"unstuffing", "done"}
      /\ pc' = "unstuffing" => extracted' = extracted
      /\ pc' = "done" => extracted' <= 0
      /\ pc' = "unstuffing" /\ SameKey =>
            /\ used' = UsedAfter(job.ring, trace[m])
            /\ k' = KAfter(m, trace[m])
    BY UnstuffingStep
<1>3. m \in 0 .. NMcus - 1 /\ m' = m + 1 /\ pc = "unstuffing"
    BY <1>2, UnstuffingType DEF StepInv, Mcus
<1>4. UNCHANGED <<job, trace>>
    BY <1>2 DEF Unstuffing
<1>5. SenderWalk'
    BY <1>2, <1>3, <1>4
    DEF StepInv, SenderWalk, StartUsed, StartK, Lawful, UsedAfter, KAfter
<1>6. Lawful(m)
    BY <1>3 DEF StepInv, SenderWalk
<1>7. pc' = "unstuffing" /\ SameKey' =>
            k' = trace'[m'].k /\ used' = trace'[m'].used
    BY <1>2, <1>3, <1>4, <1>6 DEF Lawful, SameKey
<1>8. extracted' \in Int /\ m' # 0
    BY <1>1, <1>3
    DEF TypeInv, TypeOK, NotYet, JEL_ERR_MSG_OVERFLOW, JEL_ERR_CHECKSUM
<1>9. ReceiverWalk'
    BY <1>2, <1>7, <1>8 DEF ReceiverWalk, PrnInStep, NextChannelInStep
<1> QED
    BY <1>1, <1>5, <1>9 DEF StepInv

\* At the end the receiver is where the sender was at its end.
LEMMA StepUnstuffEnd == StepInv /\ UnstuffEnd => StepInv'
<1> SUFFICES ASSUME StepInv, UnstuffEnd PROVE StepInv'
    OBVIOUS
<1>1. TypeInv'
    BY TypeUnstuffEnd DEF StepInv
<1>2. /\ UNCHANGED <<job, trace, m, k>>
      /\ pc = "unstuffing" /\ pc' = "done" /\ m = NMcus
    BY DEF UnstuffEnd, walk
<1>3. SenderWalk'
    BY <1>2 DEF SenderWalk
<1>4. SameKey' => k' = trace'[NMcus].k
    BY <1>2 DEF StepInv, ReceiverWalk, PrnInStep, SameKey
<1>5. ReceiverWalk'
    BY <1>2, <1>4 DEF ReceiverWalk, PrnInStep, NextChannelInStep
<1> QED
    BY <1>1, <1>3, <1>5 DEF StepInv

\* A step that changes nothing keeps the walks in step.
LEMMA StepStutter == StepInv /\ UNCHANGED vars => StepInv'
<1> SUFFICES ASSUME StepInv, UNCHANGED vars PROVE StepInv'
    OBVIOUS
<1>1. TypeInv'
    BY TypeStutter DEF StepInv
<1> QED
    BY <1>1
    DEF vars, walk, StepInv, SenderWalk, ReceiverWalk, PrnInStep, SameKey,
        NextChannelInStep, StartUsed, StartK, Lawful, UsedAfter, KAfter

\* Every step keeps the walks in step.
LEMMA StepNext == StepInv /\ [Next]_vars => StepInv'
BY StepStutter, StepStuffing, StepStuffBegin, StepStuffEnd,
   StepUnstuffBegin, StepUnstuffing, StepUnstuffEnd
DEF Next, Stuff, Unstuff

\* A receiver with the sender's seed draws the PRNs the sender drew: it
\* reaches every MCU with the sender's ring index and frequency order, though
\* the selection of MCUs resets the ring in the middle of the first one.
THEOREM StegPrnInStep == Spec => []PrnInStep
<1>1. Init => StepInv
    BY StepInit
<1>2. StepInv /\ [Next]_vars => StepInv'
    BY StepNext
<1>3. StepInv => PrnInStep
    BY DEF StepInv, ReceiverWalk
<1> QED
    BY <1>1, <1>2, <1>3, PTL DEF Spec

\* Once a message was read, the ring is where the sender left it for the next
\* channel.
THEOREM StegNextChannelInStep == Spec => []NextChannelInStep
<1>1. Init => StepInv
    BY StepInit
<1>2. StepInv /\ [Next]_vars => StepInv'
    BY StepNext
<1>3. StepInv => NextChannelInStep
    BY DEF StepInv, ReceiverWalk
<1> QED
    BY <1>1, <1>2, <1>3, PTL DEF Spec

-----------------------------------------------------------------------------
(* What the image holds after each MCU, and what the receiver has         *)
(* understood of it: the inductive invariant.                              *)

\* A byte is a whole number of frequencies.
PacksBytes == BitsPerFreq \in {1, 2, 4, 8}

\* The MCU that follows MCU 0 uses the flag of MCU 0 if there is a header.
FlagIndex(i) == IF job.header /\ i > 0 THEN i - 1 ELSE i

ActiveFlags ==
    IF job.header THEN McuFlags(job.seeded, job.ring, ActiveMcus(density))
                  ELSE [x \in Mcus |-> TRUE]

\* The flags before the first MCU of a stream with a header are not used.
FlagsReady == ~ AtDensity => flag = ActiveFlags

\* MCU i holds what the sender had to put into n frequencies of w bits.
Holds(i, n, w) ==
    /\ trace[i + 1].bit = Lesser(trace[i].bit + n * w, nbits)
    /\ \A j \in 0 .. n - 1 :
          trace[i].bit + (j + 1) * w <= nbits =>
              coef[i][trace[i + 1].used[j]] = trace[i].bit + j * w

Filled(i) ==
    IF trace[i].bit >= nbits THEN trace[i + 1].bit = trace[i].bit
    ELSE IF job.header /\ i = 0 THEN Holds(i, 4, 2)
    ELSE IF ActiveFlags[FlagIndex(i)] THEN Holds(i, NFreqs, BitsPerFreq)
    ELSE trace[i + 1].bit = trace[i].bit

Aligned(b) == b \in Nat /\ \E c \in Nat : b = c * BitsPerFreq

SenderPack ==
    /\ pc = "stuffing" =>
          /\ bit = trace[m].bit
          /\ PacksBytes => Aligned(bit)
          /\ FlagsReady
          /\ bit < nbits => idx = FlagIndex(m)
          /\ \A i \in 0 .. m - 1 : Filled(i)
    /\ pc \in {"unstuff", "unstuffing"} => \A i \in 0 .. NMcus - 1 : Filled(i)
    /\ pc \in {"stuffing", "unstuff", "unstuffing"} =>
          trace[0].bit = 0 /\ density \in 1 .. 100

SentInv == StepInv /\ SenderPack

\* The receiver can make sense of the image.  Without a header it stops where
\* its own bit stream ends; with one it goes on to the length it has read.
Able == SameKey /\ (job.header \/ job.len <= Capacity(job.receiver))

\* Of b bits of the stream, those the receiver's bit stream has room for.
Kept(b) == Lesser(b, gotBits)

\* What the receiver takes for the length when the sender had put in b bits.
Known(b) ==
    IF job.header
      THEN IF b < HeaderBits
             THEN msgNbytes = Unknown /\ limit = gotBits
             ELSE /\ msgNbytes = job.len /\ limit = nbits
                  /\ ~ job.len > ImageBits \div 8
      ELSE msgNbytes = job.len /\ limit = gotBits

\* What the receiver has of the stream when the sender had put in b bits.
Understood(b) ==
    /\ b <= nbits
    /\ Aligned(b)
    /\ \A i \in 0 .. Kept(b) - 1 : got[i] = i
    /\ b < nbits => bit = Kept(b) /\ count = b /\ idx = FlagIndex(m)
    /\ b = nbits => bit >= Kept(nbits) /\ count >= nbits
    /\ FlagsReady
    /\ Known(b)

ReceiverPack == pc = "unstuffing" /\ Able => Understood(trace[m].bit)

\* What the receiver returns when b bits of the stream are in the image.
Result(b) ==
    IF job.header /\ b < HeaderBits THEN Capacity(job.receiver)
    ELSE IF job.header /\ job.len > ImageBits \div 8 THEN JEL_ERR_MSG_OVERFLOW
    ELSE job.len

\* What an able receiver returns, and the bits it has if that is the length.
ReadBack ==
    pc = "done" /\ embedded >= 0 /\ Able =>
        /\ extracted = Result(trace[NMcus].bit)
        /\ job.len > 0 /\ extracted = job.len =>
              \A i \in 0 .. Kept(trace[NMcus].bit) - 1 : got[i] = i

PackInv == SentInv /\ ReceiverPack /\ ReadBack

-----------------------------------------------------------------------------
(* Alignment: frequencies never straddle the end of the stream.            *)

\* A stream is a whole number of coefficients long.
LEMMA AlignedNbits ==
    ASSUME PacksBytes, TypeOK
    PROVE  Aligned(nbits)
<1>1. job.len \in Nat
    BY JobType DEF TypeOK
<1>2. nbits = 8 * (6 + job.len) /\ 6 + job.len \in Nat /\ nbits \in Nat
    BY <1>1 DEF nbits, StreamBits, HeaderBits
<1>3. PICK q \in {1, 2, 4, 8} : q * BitsPerFreq = 8
  <2>1. CASE BitsPerFreq = 1
      BY <2>1
  <2>2. CASE BitsPerFreq = 2
      BY <2>2
  <2>3. CASE BitsPerFreq = 4
      BY <2>3
  <2>4. CASE BitsPerFreq = 8
      BY <2>4
  <2> QED
      BY <2>1, <2>2, <2>3, <2>4 DEF PacksBytes
<1> DEFINE l == 6 + job.len
<1>4. nbits = (q * BitsPerFreq) * l
    BY <1>2, <1>3
<1>5. BitsPerFreq \in Nat /\ q \in Nat /\ l \in Nat
    BY <1>2, StegAssumption
<1> HIDE DEF l
<1>6. (q * BitsPerFreq) * l = (q * l) * BitsPerFreq /\ q * l \in Nat
    BY <1>5
<1> QED
    BY <1>2, <1>4, <1>6 DEF Aligned

\* Between two multiples there is room for a whole frequency.
LEMMA AlignedRoom ==
    ASSUME NEW a, NEW n, Aligned(a), Aligned(n), a < n
    PROVE  a + BitsPerFreq <= n
<1>1. BitsPerFreq \in Nat \ {0}
    BY StegAssumption
<1>2. PICK c \in Nat : a = c * BitsPerFreq
    BY DEF Aligned
<1>3. PICK e \in Nat : n = e * BitsPerFreq
    BY DEF Aligned
<1>4. a \in Nat /\ n \in Nat
    BY DEF Aligned
<1>5. ~ e <= c
  <2> SUFFICES ASSUME e <= c PROVE FALSE
      OBVIOUS
  <2>1. e * BitsPerFreq <= c * BitsPerFreq
      BY <1>1, TimesMonotone
  <2> QED
      BY <1>2, <1>3, <1>4, <2>1
<1>6. c + 1 <= e /\ c + 1 \in Nat
    BY <1>5
<1>7. (c + 1) * BitsPerFreq <= e * BitsPerFreq
    BY <1>1, <1>6, TimesMonotone
<1>8. (c + 1) * BitsPerFreq = c * BitsPerFreq + BitsPerFreq
    BY <1>1
<1> QED
    BY <1>2, <1>3, <1>7, <1>8

\* A position that is a whole number of coefficients stays one when an MCU is
\* added.
LEMMA AlignedStep ==
    ASSUME NEW a, NEW j \in Nat, Aligned(a)
    PROVE  Aligned(a + j * BitsPerFreq)
<1>1. BitsPerFreq \in Nat
    BY StegAssumption
<1>2. PICK c \in Nat : a = c * BitsPerFreq
    BY DEF Aligned
<1>3. a \in Nat
    BY DEF Aligned
<1>4. a + j * BitsPerFreq = (c + j) * BitsPerFreq
    BY <1>1, <1>2
<1>5. c + j \in Nat /\ a + j * BitsPerFreq \in Nat
    BY <1>1, <1>3, TimesNat
<1> QED
    BY <1>4, <1>5 DEF Aligned

\* A frequency of w bits that starts inside the stream ends inside it.
Whole(b, n, w) ==
    \A j \in 0 .. n - 1 : b + j * w < nbits => b + (j + 1) * w <= nbits

\* The stream does not end in the middle of a coefficient.
LEMMA WholeBits ==
    ASSUME PacksBytes, TypeOK, NEW b, Aligned(b), NEW n
    PROVE  Whole(b, n, BitsPerFreq)
<1> SUFFICES ASSUME NEW j \in 0 .. n - 1, b + j * BitsPerFreq < nbits
             PROVE  b + (j + 1) * BitsPerFreq <= nbits
    BY DEF Whole
<1>1. j \in Nat
    OBVIOUS
<1>2. Aligned(b + j * BitsPerFreq) /\ Aligned(nbits)
    BY <1>1, AlignedStep, AlignedNbits
<1>3. (b + j * BitsPerFreq) + BitsPerFreq <= nbits
    BY <1>2, AlignedRoom
<1>4. (j + 1) * BitsPerFreq = j * BitsPerFreq + BitsPerFreq
    BY <1>1, StegAssumption
<1>5. b \in Nat /\ j * BitsPerFreq \in Nat /\ BitsPerFreq \in Nat
    BY <1>1, TimesNat, StegAssumption DEF Aligned
<1> QED
    BY <1>3, <1>4, <1>5

\* The density is 4 frequencies of 2 bits, and fits any stream.
LEMMA WholeDensity ==
    ASSUME TypeOK
    PROVE  Whole(0, 4, 2) /\ Lesser(0 + 4 * 2, nbits) = 8
BY JobType DEF Whole, Lesser, TypeOK, HeaderBits

\* Whether a run of frequencies fits or is cut short by the end of the
\* stream, the next MCU starts at a multiple.
LEMMA AlignedNext ==
    ASSUME PacksBytes, TypeOK, NEW b, Aligned(b)
    PROVE  Aligned(Lesser(b + NFreqs * BitsPerFreq, nbits))
<1>1. NFreqs \in Nat
    BY StegAssumption
<1>2. Aligned(b + NFreqs * BitsPerFreq) /\ Aligned(nbits)
    BY <1>1, AlignedStep, AlignedNbits
<1> QED
    BY <1>2 DEF Lesser

\* The bits of the density MCU are a whole number of coefficients.
LEMMA AlignedEight == Aligned(0) /\ (PacksBytes => Aligned(8))
<1>1. 0 = 0 * BitsPerFreq
    BY StegAssumption
<1>2. ASSUME PacksBytes PROVE \E c \in Nat : 8 = c * BitsPerFreq
  <2>1. CASE BitsPerFreq = 1
      BY <2>1
  <2>2. CASE BitsPerFreq = 2
      BY <2>2
  <2>3. CASE BitsPerFreq = 4
      BY <2>3
  <2>4. CASE BitsPerFreq = 8
      BY <2>4
  <2> QED
      BY <1>2, <2>1, <2>2, <2>3, <2>4 DEF PacksBytes
<1> QED
    BY <1>1, <1>2 DEF Aligned

-----------------------------------------------------------------------------
(* Packing and unpacking one MCU.                                          *)

\* The frequencies of an MCU are different, so each keeps what it was given.
LEMMA PackSlot ==
    ASSUME NEW order \in Orders, Distinct(order),
           NEW n \in 0 .. MaxFreqs, NEW w, NEW j \in 0 .. n - 1,
           bit + (j + 1) * w <= nbits
    PROVE  Pack(order, n, w)[order[j]] = bit + j * w
<1>1. 0 .. n - 1 \subseteq Freqs /\ j \in Freqs
    BY SelectionAssumption DEF Freqs
<1>2. order[j] \in Freqs /\ DOMAIN order = Freqs
    BY <1>1 DEF Orders
<1>3. (CHOOSE x \in 0 .. n - 1 : order[x] = order[j]) = j
  <2> DEFINE y == CHOOSE x \in 0 .. n - 1 : order[x] = order[j]
  <2>1. y \in 0 .. n - 1 /\ order[y] = order[j]
      OBVIOUS
  <2> HIDE DEF y
  <2>2. y \in Freqs
      BY <1>1, <2>1
  <2>3. y = j
      BY <1>1, <1>2, <2>1, <2>2 DEF Distinct
  <2> QED
      BY <2>3 DEF y
<1>4. \E x \in 0 .. n - 1 : order[x] = order[j]
    OBVIOUS
<1>5. Pack(order, n, w)[order[j]] =
          LET x == CHOOSE x \in 0 .. n - 1 : order[x] = order[j]
          IN  IF bit + (x + 1) * w <= nbits THEN bit + x * w ELSE Zero
    BY <1>2, <1>4 DEF Pack
<1> QED
    BY <1>3, <1>5

\* Reading the frequencies in the order they were written gives the bits the
\* sender put in.
LEMMA UnpackBits ==
    ASSUME TypeOK, m \in Mcus,
           NEW order \in Orders, NEW n \in 0 .. MaxFreqs,
           NEW w \in Nat \ {0},
           Whole(bit, n, w),
           \A j \in 0 .. n - 1 : bit + (j + 1) * w <= nbits =>
                                     coef[m][order[j]] = bit + j * w,
           NEW i \in 0 .. gotBits - 1,
           bit <= i, i < bit + n * w, i < nbits
    PROVE  Unpack(order, n, w)[i] = i
<1> DEFINE a == i - bit
           q == a \div w
           r == a % w
<1>1. /\ bit \in Nat /\ nbits \in Nat /\ n \in Nat /\ i \in Nat
      /\ DOMAIN got = 0 .. gotBits - 1
    BY JobType, SelectionAssumption DEF TypeOK
<1>2. n * w \in Nat
    BY <1>1, TimesNat
<1>3. a \in Nat /\ a < n * w /\ i = bit + a
    BY <1>1, <1>2
<1>4. Unpack(order, n, w)[i] =
          LET slot == coef[m][order[q]]
          IN  IF slot >= 0 THEN slot + r ELSE slot
    BY <1>1 DEF Unpack
<1> HIDE DEF a
<1>5. q \in 0 .. n - 1
    BY <1>1, <1>3, DivBound
<1>6. q \in Nat /\ r \in 0 .. w - 1 /\ a = w * q + r
    BY <1>3, DivFacts
<1> HIDE DEF q, r
<1>7. w * q = q * w /\ q * w \in Nat /\ r \in Nat
    BY <1>6, TimesNat
<1>8. bit + q * w <= i
    BY <1>1, <1>3, <1>6, <1>7
<1>9. bit + q * w < nbits
    BY <1>1, <1>7, <1>8
<1>10. bit + (q + 1) * w <= nbits
    BY <1>5, <1>9 DEF Whole
<1>11. coef[m][order[q]] = bit + q * w
    BY <1>5, <1>10
<1>12. coef[m][order[q]] >= 0 /\ coef[m][order[q]] + r = i
    BY <1>1, <1>3, <1>6, <1>7, <1>11
<1> QED
    BY <1>4, <1>12

-----------------------------------------------------------------------------
(* The sender.                                                             *)

\* What the stream's sizes and the receiver's abilities depend on never changes
\* after the sender has begun.
LEMMA PackFrame ==
    ASSUME UNCHANGED <<job, density>>
    PROVE  /\ UNCHANGED <<nbits, gotBits, ActiveFlags, SameKey, Able>>
           /\ \A b : Kept(b)' = Kept(b)
BY DEF nbits, gotBits, ActiveFlags, SameKey, Able, Kept

\* What a record of the sender's history says after it was written.
LEMMA RecordFacts ==
    ASSUME TypeOK, m \in Mcus, Record
    PROVE  /\ trace'[m + 1] = [bit |-> bit', k |-> k', used |-> used']
           /\ \A i \in 0 .. m : trace'[i] = trace[i]
<1>1. m \in Nat /\ m + 1 \in 0 .. NMcus /\ 0 .. m \subseteq 0 .. NMcus
    BY SelectionAssumption DEF Mcus
<1> QED
    BY <1>1 DEF Record, TypeOK

\* Capacities depend on constants only.
LEMMA CapacityFrame ==
    ASSUME UNCHANGED job
    PROVE  Capacity(job.receiver)' = Capacity(job.receiver)
BY DEF Capacity, ImageCapacity

\* MCU i stays filled when neither its history nor its coefficients change.
LEMMA FilledFrame ==
    ASSUME UNCHANGED <<job, density>>, NEW i, Filled(i),
           trace'[i] = trace[i], trace'[i + 1] = trace[i + 1],
           coef'[i] = coef[i]
    PROVE  Filled(i)'
<1>1. UNCHANGED <<nbits, ActiveFlags>>
    BY PackFrame
<1> QED
    BY <1>1 DEF Filled, Holds, FlagIndex

\* It is enough to look at the MCU of the step.
LEMMA SenderStep ==
    ASSUME SentInv, Stuffing, Record,
           \A i \in Mcus : i # m => coef'[i] = coef[i],
           \A i \in Mcus : i = m => Filled(i)',
           PacksBytes => Aligned(bit'),
           flag' = ActiveFlags,
           bit' < nbits => idx' = FlagIndex(m + 1)
    PROVE  SenderPack'
<1>1. /\ m \in Mcus /\ m' = m + 1 /\ pc = "stuffing" /\ pc' = "stuffing"
      /\ UNCHANGED <<job, density>>
    BY StuffingType DEF SentInv, StepInv, Stuffing
<1>2. /\ trace'[m + 1] = [bit |-> bit', k |-> k', used |-> used']
      /\ \A i \in 0 .. m : trace'[i] = trace[i]
    BY <1>1, RecordFacts DEF SentInv, StepInv, TypeInv
<1>3. UNCHANGED <<nbits, ActiveFlags>>
    BY <1>1, PackFrame
<1>4. m \in Nat /\ m < NMcus
    BY <1>1, SelectionAssumption DEF Mcus
<1>5. \A i \in 0 .. m : Filled(i)'
  <2> SUFFICES ASSUME NEW i \in 0 .. m PROVE Filled(i)'
      OBVIOUS
  <2>1. i \in Mcus
      BY <1>4, SelectionAssumption DEF Mcus
  <2>2. CASE i = m
      BY <2>1, <2>2
  <2>3. CASE i # m
    <3>1. i \in 0 .. m - 1 /\ i + 1 \in 0 .. m
        BY <1>4, <2>3
    <3>2. Filled(i)
        BY <1>1, <3>1 DEF SentInv, SenderPack
    <3>3. coef'[i] = coef[i]
        BY <2>1, <2>3
    <3> QED
        BY <1>1, <1>2, <3>1, <3>2, <3>3, FilledFrame
  <2> QED
      BY <2>2, <2>3
<1>6. bit' = trace'[m'].bit
    BY <1>1, <1>2
<1>7. FlagsReady'
    BY <1>3 DEF FlagsReady
<1>8. bit' < nbits' => idx' = FlagIndex(m)'
    BY <1>1, <1>3 DEF FlagIndex
<1>9. \A i \in 0 .. m' - 1 : Filled(i)'
    BY <1>1, <1>4, <1>5
<1>10. trace'[0].bit = 0 /\ density' \in 1 .. 100
    BY <1>1, <1>2, <1>4 DEF SentInv, SenderPack
<1> QED
    BY <1>1, <1>6, <1>7, <1>8, <1>9, <1>10 DEF SenderPack, Aligned, PacksBytes

\* n frequencies of w bits put into the current MCU.
LEMMA InsertHolds ==
    ASSUME SentInv, Stuffing, Record,
           NEW n \in 0 .. MaxFreqs, NEW w \in Nat, Insert(n, w),
           NEW i \in Mcus, i = m
    PROVE  /\ Holds(i, n, w)'
           /\ bit' = Lesser(bit + n * w, nbits)
           /\ \A x \in Mcus : x # m => coef'[x] = coef[x]
<1>1. /\ m \in Mcus /\ used' \in Orders /\ Distinct(used')
      /\ pc = "stuffing"
      /\ UNCHANGED <<job, density>>
      /\ used' = NextUsed
    BY StuffingType DEF SentInv, StepInv, Stuffing, NextMcu
<1>2. /\ trace'[m + 1] = [bit |-> bit', k |-> k', used |-> used']
      /\ \A x \in 0 .. m : trace'[x] = trace[x]
    BY <1>1, RecordFacts DEF SentInv, StepInv, TypeInv
<1>3. nbits' = nbits
    BY <1>1, PackFrame
<1>4. coef' = [coef EXCEPT ![m] = Pack(used', n, w)]
      /\ bit' = Lesser(bit + n * w, nbits)
    BY <1>1 DEF Insert
<1>5. coef \in [Mcus -> [Freqs -> Slots]]
    BY DEF SentInv, StepInv, TypeInv, TypeOK
<1>6. coef'[i] = Pack(used', n, w) /\ \A x \in Mcus : x # m => coef'[x] = coef[x]
    BY <1>1, <1>4, <1>5
<1>7. trace'[i] = trace[m] /\ trace'[i + 1].bit = bit'
      /\ trace'[i + 1].used = used'
    BY <1>2, SelectionAssumption DEF Mcus
<1>8. trace[m].bit = bit
    BY <1>1 DEF SentInv, SenderPack
<1>9. ASSUME NEW j \in 0 .. n - 1, bit + (j + 1) * w <= nbits
      PROVE  coef'[i][used'[j]] = bit + j * w
    BY <1>1, <1>6, <1>9, PackSlot
<1> QED
    BY <1>3, <1>4, <1>6, <1>7, <1>8, <1>9 DEF Holds

\* Every step of the sender keeps what was written where the history says it
\* is.
LEMMA SenderStuffing ==
    ASSUME SentInv,
           StuffDensity \/ StuffBits \/ StuffIdle \/ StuffSkip
    PROVE  SenderPack'
<1>1. Stuffing /\ Record /\ pc = "stuffing" /\ UNCHANGED <<job, density>>
    BY DEF StuffDensity, StuffBits, StuffIdle, StuffSkip, Stuffing
<1>2. m \in Mcus /\ count = bit /\ bit <= nbits
    BY <1>1, StuffingType DEF SentInv, StepInv
<1>3. m \in 0 .. NMcus - 1 /\ nbits \in Nat /\ nbits >= 48 /\ bit \in Nat
    BY <1>2, JobType DEF Mcus, SentInv, StepInv, TypeInv, TypeOK, HeaderBits
<1>4. /\ bit = trace[m].bit /\ FlagsReady
      /\ PacksBytes => Aligned(bit)
      /\ bit < nbits => idx = FlagIndex(m)
      /\ trace[0].bit = 0
    BY <1>1 DEF SentInv, SenderPack
<1>5. /\ trace'[m + 1] = [bit |-> bit', k |-> k', used |-> used']
      /\ \A i \in 0 .. m : trace'[i] = trace[i]
    BY <1>1, <1>2, RecordFacts DEF SentInv, StepInv, TypeInv
<1>6. trace'[m] = trace[m] /\ trace'[m + 1].bit = bit'
    BY <1>3, <1>5
<1>7. UNCHANGED <<nbits, ActiveFlags>>
    BY <1>1, PackFrame
<1>8. \A i : FlagIndex(i)' = FlagIndex(i)
    BY <1>1 DEF FlagIndex
<1>9. ~ AtDensity => FlagIndex(m + 1) = FlagIndex(m) + 1
    BY <1>3 DEF FlagIndex, AtDensity
<1>10. TypeOK
    BY DEF SentInv, StepInv, TypeInv
<1>11. CASE StuffDensity
  <2>1. Insert(4, 2) /\ SelectMcus(density) /\ idx' = idx /\ job.header /\ m = 0
      BY <1>11 DEF StuffDensity, AtDensity
  <2>2. 4 \in 0 .. MaxFreqs
      BY StegAssumption, SelectionAssumption
  <2>3. /\ \A i \in Mcus : i = m => Holds(i, 4, 2)'
        /\ bit' = Lesser(bit + 4 * 2, nbits)
        /\ \A x \in Mcus : x # m => coef'[x] = coef[x]
      BY <1>1, <1>2, <2>1, <2>2, InsertHolds
  <2>4. bit = 0 /\ bit' = 8
      BY <1>3, <1>4, <2>1, <2>3 DEF Lesser
  <2>5. PacksBytes => Aligned(bit')
      BY <2>4, AlignedEight
  <2>6. flag' = ActiveFlags
      BY <1>1, <2>1 DEF SelectMcus, ActiveFlags, Ring
  <2>7. idx' = FlagIndex(m + 1)
      BY <1>3, <1>4, <2>1, <2>4 DEF FlagIndex
  <2>8. \A i \in Mcus : i = m => Filled(i)'
    <3> SUFFICES ASSUME NEW i \in Mcus, i = m PROVE Filled(i)'
        OBVIOUS
    <3>1. trace'[i].bit = 0 /\ ~ (0 >= nbits) /\ i = 0 /\ job'.header
        BY <1>1, <1>3, <1>4, <1>6, <2>1, <2>4
    <3>2. Holds(i, 4, 2)'
        BY <2>3
    <3> QED
        BY <1>7, <3>1, <3>2 DEF Filled
  <2> QED
      BY <1>1, <2>3, <2>5, <2>6, <2>7, <2>8, SenderStep
<1>12. CASE StuffBits
  <2>1. /\ Insert(NFreqs, BitsPerFreq) /\ flag[idx] /\ idx' = idx + 1
        /\ flag' = flag /\ ~ AtDensity /\ bit < nbits
      BY <1>2, <1>12 DEF StuffBits
  <2>2. NFreqs \in 0 .. MaxFreqs /\ BitsPerFreq \in Nat
      BY StegAssumption, SelectionAssumption
  <2>3. /\ \A i \in Mcus : i = m => Holds(i, NFreqs, BitsPerFreq)'
        /\ bit' = Lesser(bit + NFreqs * BitsPerFreq, nbits)
        /\ \A x \in Mcus : x # m => coef'[x] = coef[x]
      BY <1>1, <1>2, <2>1, <2>2, InsertHolds
  <2>4. PacksBytes => Aligned(bit')
      BY <1>4, <1>10, <2>3, AlignedNext
  <2>5. flag' = ActiveFlags /\ ActiveFlags[FlagIndex(m)]
      BY <1>4, <2>1 DEF FlagsReady
  <2>6. idx' = FlagIndex(m + 1)
      BY <1>4, <1>9, <2>1
  <2>7. \A i \in Mcus : i = m => Filled(i)'
    <3> SUFFICES ASSUME NEW i \in Mcus, i = m PROVE Filled(i)'
        OBVIOUS
    <3>1. trace'[i].bit = bit /\ ~ (bit >= nbits) /\ ~ (job'.header /\ i = 0)
        BY <1>1, <1>3, <1>4, <1>6, <2>1 DEF AtDensity
    <3>2. Holds(i, NFreqs, BitsPerFreq)'
        BY <2>3
    <3>3. ActiveFlags'[FlagIndex(i)']
        BY <1>7, <1>8, <2>5
    <3> QED
        BY <1>7, <3>1, <3>2, <3>3 DEF Filled
  <2> QED
      BY <1>1, <2>3, <2>4, <2>5, <2>6, <2>7, SenderStep
<1>13. CASE StuffIdle
  <2>1. /\ ~ flag[idx] /\ idx' = idx + 1 /\ ~ AtDensity /\ bit < nbits
        /\ UNCHANGED <<flag, bit, count, coef>>
      BY <1>2, <1>13 DEF StuffIdle
  <2>2. PacksBytes => Aligned(bit')
      BY <1>4, <2>1
  <2>3. flag' = ActiveFlags /\ ~ ActiveFlags[FlagIndex(m)]
      BY <1>4, <2>1 DEF FlagsReady
  <2>4. idx' = FlagIndex(m + 1)
      BY <1>4, <1>9, <2>1
  <2>5. \A i \in Mcus : i = m => Filled(i)'
    <3> SUFFICES ASSUME NEW i \in Mcus, i = m PROVE Filled(i)'
        OBVIOUS
    <3>1. trace'[i].bit = bit /\ trace'[i + 1].bit = bit
          /\ ~ (bit >= nbits) /\ ~ (job'.header /\ i = 0)
        BY <1>1, <1>3, <1>4, <1>6, <2>1 DEF AtDensity
    <3>2. ~ ActiveFlags'[FlagIndex(i)']
        BY <1>7, <1>8, <2>3
    <3> QED
        BY <1>7, <3>1, <3>2 DEF Filled
  <2> QED
      BY <1>1, <2>1, <2>2, <2>3, <2>4, <2>5, SenderStep
<1>14. CASE StuffSkip
  <2>1. ~ (bit < nbits) /\ UNCHANGED <<flag, bit, count, coef>>
      BY <1>2, <1>3, <1>14 DEF StuffSkip
  <2>2. PacksBytes => Aligned(bit')
      BY <1>4, <2>1
  <2>3. flag' = ActiveFlags
    <3>1. m # 0
        BY <1>3, <1>4, <2>1
    <3> QED
        BY <1>4, <2>1, <3>1 DEF FlagsReady, AtDensity
  <2>4. \A i \in Mcus : i = m => Filled(i)'
      BY <1>3, <1>4, <1>6, <1>7, <2>1 DEF Filled
  <2> QED
      BY <1>1, <2>1, <2>2, <2>3, <2>4, SenderStep
<1> QED
    BY <1>11, <1>12, <1>13, <1>14

\* Starting to send establishes the sender's part of the invariant.
LEMMA SentStuffBegin == SentInv /\ StuffBegin => SenderPack'
<1> SUFFICES ASSUME SentInv, StuffBegin PROVE SenderPack'
    OBVIOUS
<1>2. /\ UNCHANGED job /\ pc' = "stuffing"
      /\ m' = 0 /\ idx' = 0 /\ bit' = 0
      /\ flag' = [x \in Mcus |-> TRUE]
    BY DEF StuffBegin, BeginWalk
<1>3. trace'[0] = [bit |-> 0, k |-> k', used |-> used']
    BY SelectionAssumption
    DEF StuffBegin, SentInv, StepInv, TypeInv, TypeOK
<1>4. density' \in 1 .. 100
  <2>1. job \in Jobs
      BY DEF SentInv, StepInv, TypeInv, TypeOK
  <2>2. CASE job.density = Unspecified
    <3>1. nbits \in Nat /\ ImageCapacity(Unspecified) \in Nat
          /\ nbits >= 48 /\ ImageCapacity(Unspecified) <= ImageBits
        BY <2>1, JobType, ImageCapacityType DEF HeaderBits
    <3>2. nbits <= ImageCapacity(Unspecified)
        BY <2>2, <3>1 DEF StuffBegin, TooLong
    <3>3. nbits \in Nat \ {0} /\ nbits <= ImageBits
        BY <3>1, <3>2, McuBitsType
    <3> QED
        BY <2>2, <3>3, AutoDensityType DEF StuffBegin
  <2>3. CASE job.density # Unspecified
      BY <2>1, <2>3, JobType DEF StuffBegin
  <2> QED
      BY <2>2, <2>3
<1>5. Aligned(bit')
    BY <1>2, AlignedEight
<1>6. FlagsReady' /\ idx' = FlagIndex(m)'
    BY <1>2 DEF FlagsReady, AtDensity, ActiveFlags, FlagIndex
<1> QED
    BY <1>2, <1>3, <1>4, <1>5, <1>6 DEF SenderPack, Aligned

\* The sender has returned: the image stays as it is.
LEMMA SentReturned ==
    ASSUME SentInv, UNCHANGED <<job, density, coef, trace>>,
           pc = "stuffing" => m = NMcus,
           pc \in {"stuffing", "unstuff", "unstuffing"},
           pc' \in {"unstuff", "unstuffing", "done"}
    PROVE  SenderPack'
<1>1. \A i \in 0 .. NMcus - 1 : Filled(i)
    BY DEF SentInv, SenderPack
<1>2. \A i \in 0 .. NMcus - 1 : Filled(i)'
    BY <1>1, FilledFrame
<1> QED
    BY <1>2 DEF SentInv, SenderPack

\* Every step keeps the sender's part of the invariant, PacksBytes or not.
LEMMA SentNext == SentInv /\ [Next]_vars => SentInv'
<1> SUFFICES ASSUME SentInv, [Next]_vars PROVE SentInv'
    OBVIOUS
<1>1. StepInv'
    BY StepNext DEF SentInv
<1> SUFFICES SenderPack'
    BY <1>1 DEF SentInv
<1>2. CASE StuffDensity \/ StuffBits \/ StuffIdle \/ StuffSkip
    BY <1>2, SenderStuffing
<1>3. CASE StuffBegin
    BY <1>3, SentStuffBegin
<1>4. CASE StuffOverflow
    BY <1>4 DEF StuffOverflow, SenderPack
<1>5. CASE StuffEnd
    BY <1>5, SentReturned DEF StuffEnd
<1>6. CASE Unstuff
  <2>1. /\ UNCHANGED <<job, density, coef, trace>>
        /\ pc \in {"unstuff", "unstuffing"}
        /\ pc' \in {"unstuffing", "done"}
      BY <1>6
      DEF Unstuff, UnstuffBegin, UnstuffDensity, UnstuffBits, UnstuffHeader,
          UnstuffIdle, UnstuffSkip, UnstuffEnd, ExtractBits, Unstuffing,
          GoOn, Return
  <2> QED
      BY <2>1, SentReturned
<1>7. CASE UNCHANGED vars
  <2>1. \A i : Filled(i) => Filled(i)'
      BY <1>7, FilledFrame DEF vars
  <2>2. UNCHANGED <<nbits, ActiveFlags>>
      BY <1>7, PackFrame DEF vars
  <2> QED
      BY <1>7, <2>1, <2>2
      DEF SentInv, SenderPack, vars, walk, Aligned, FlagsReady, PacksBytes,
          AtDensity, FlagIndex
<1> QED
    BY <1>2, <1>3, <1>4, <1>5, <1>6, <1>7 DEF Next, Stuff

\* The receiver's steps among them.
LEMMA SentUnstuff == SentInv /\ Unstuff => SentInv'
BY SentNext DEF Next

\* The sender's part holds initially.
LEMMA SentInit == Init => SentInv
BY StepInit DEF SentInv, SenderPack, Init

-----------------------------------------------------------------------------
(* The receiver.                                                           *)

\* A message that fits the receiver's capacity fits its bit stream, and is
\* not taken for a bogus length.
LEMMA CapacityFits ==
    ASSUME TypeOK, job.len <= Capacity(job.receiver)
    PROVE  nbits <= gotBits /\ ~ job.len > ImageBits \div 8
<1>1. /\ job.len \in Nat /\ Capacity(job.receiver) \in Nat
      /\ job.receiver \in {Unspecified} \cup (1 .. 100)
      /\ job.len <= Capacity(job.receiver)
    BY JobType DEF TypeOK
<1>2. nbits <= gotBits
    BY <1>1 DEF nbits, gotBits, StreamBits, HeaderBits
<1>3. /\ ImageCapacity(job.receiver) \in Nat /\ ImageBits \in Nat
      /\ ImageCapacity(job.receiver) <= ImageBits
    BY <1>1, ImageCapacityType, McuBitsType
<1>4. Capacity(job.receiver) <= ImageBits \div 8
    BY <1>3 DEF Capacity, HeaderBits
<1> QED
    BY <1>1, <1>2, <1>3, <1>4

\* The sender never goes back in its stream.
LEMMA Rising ==
    ASSUME TypeOK, \A i \in 0 .. NMcus - 1 : Filled(i), NEW x \in 0 .. NMcus
    PROVE  trace[x].bit \in Nat /\ trace[x].bit <= trace[NMcus].bit
           /\ trace[NMcus].bit \in Nat
<1> DEFINE n == NMcus - x
           T == {j \in 0 .. n : trace[x].bit <= trace[x + j].bit}
<1>1. NMcus \in Nat /\ n \in Nat /\ x \in Nat /\ x + n = NMcus
    BY SelectionAssumption
<1>2. \A i \in 0 .. NMcus : trace[i].bit \in Nat
    BY DEF TypeOK
<1>3. ASSUME NEW i \in 0 .. NMcus - 1 PROVE trace[i].bit <= trace[i + 1].bit
  <2>1. i \in 0 .. NMcus /\ i + 1 \in 0 .. NMcus
      BY <1>1
  <2>2. trace[i].bit \in Nat /\ trace[i + 1].bit \in Nat
      BY <1>2, <2>1
  <2>3. nbits \in Nat /\ NFreqs * BitsPerFreq \in Nat
      BY JobType, TimesNat, StegAssumption DEF TypeOK
  <2> QED
      BY <1>3, <2>2, <2>3 DEF Filled, Holds, Lesser
<1>4. 0 \in T
    BY <1>1, <1>2
<1>5. ASSUME NEW j \in 0 .. n - 1, j \in T PROVE j + 1 \in T
  <2>1. x + j \in 0 .. NMcus - 1 /\ j + 1 \in 0 .. n /\ (x + j) + 1 = x + (j + 1)
      BY <1>1
  <2>2. trace[x + j].bit <= trace[(x + j) + 1].bit
      BY <1>3, <2>1
  <2>3. /\ trace[x].bit \in Nat /\ trace[x + j].bit \in Nat
        /\ trace[x + (j + 1)].bit \in Nat
      BY <1>1, <1>2, <2>1
  <2>4. trace[x].bit <= trace[x + j].bit
      BY <1>5
  <2> QED
      BY <2>1, <2>2, <2>3, <2>4
<1> HIDE DEF T
<1>6. \A j \in 0 .. n : j \in T
    BY <1>1, <1>4, <1>5, SegmentInduction
<1>7. n \in T
    BY <1>1, <1>6
<1> QED
    BY <1>1, <1>2, <1>7 DEF T

\* A receiver in step reads an MCU in the order it was written in.
LEMMA ReceiverOrder ==
    ASSUME StepInv, Unstuffing, SameKey
    PROVE  NextUsed = trace[m + 1].used
<1>1. pc = "unstuffing" /\ m \in 0 .. NMcus - 1
    BY UnstuffingType DEF StepInv, Unstuffing, Mcus
<1>2. used = trace[m].used /\ k = trace[m].k /\ Ring = job.ring
    BY <1>1 DEF StepInv, ReceiverWalk, PrnInStep, Ring, SameKey
<1>3. Lawful(m)
    BY <1>1 DEF StepInv, SenderWalk
<1> QED
    BY <1>2, <1>3 DEF NextUsed, Lawful, UsedAfter

\* Reading an MCU the sender filled, whether or not the receiver's bit stream
\* still has room for it.
LEMMA ExtractHolds ==
    ASSUME PackInv, Unstuffing, Able,
           NEW n \in 0 .. MaxFreqs, NEW w \in Nat \ {0}, Extract(n, w),
           NEW b \in Nat, b = trace[m].bit, b < nbits,
           bit = Kept(b), count = b,
           \A i \in 0 .. Kept(b) - 1 : got[i] = i,
           Holds(m, n, w), Whole(b, n, w),
           NEW c, c = trace[m + 1].bit
    PROVE  /\ c = Lesser(b + n * w, nbits)
           /\ c \in Nat /\ b <= c /\ c <= nbits
           /\ \A i \in 0 .. Kept(c) - 1 : got'[i] = i
           /\ c < nbits => bit' = Kept(c) /\ count' = c
           /\ c = nbits => bit' >= Kept(nbits) /\ count' >= nbits
           /\ bit' >= HeaderBits <=> c >= HeaderBits
<1>1. TypeOK
    BY DEF PackInv, SentInv, StepInv, TypeInv
<1>2. /\ nbits \in Nat /\ gotBits \in Nat /\ bit \in Nat /\ n \in Nat
      /\ nbits >= HeaderBits /\ gotBits >= HeaderBits
    BY <1>1, JobType, SelectionAssumption DEF TypeOK
<1>3. n * w \in Nat
    BY <1>2, TimesNat
<1>4. c = Lesser(b + n * w, nbits)
    BY DEF Holds
<1>5. bit' = Lesser(bit + n * w, gotBits) /\ count' = b + n * w
    BY DEF Extract
<1>6. /\ c \in Nat /\ b <= c /\ c <= nbits
      /\ c < nbits => bit' = Kept(c) /\ count' = c
      /\ c = nbits => bit' >= Kept(nbits) /\ count' >= nbits
      /\ bit' >= HeaderBits <=> c >= HeaderBits
    BY <1>1, <1>2, <1>3, <1>4, <1>5 DEF Lesser, Kept, HeaderBits
<1>7. m \in Mcus
    BY UnstuffingType DEF PackInv, SentInv, StepInv
<1>8. NextUsed = trace[m + 1].used /\ NextUsed \in Orders
    BY <1>1, ReceiverOrder, NextType DEF PackInv, SentInv, Able
<1>9. got' = Unpack(NextUsed, n, w)
    BY DEF Extract
<1>10. ASSUME NEW i \in 0 .. Kept(c) - 1 PROVE got'[i] = i
  <2>1. /\ i \in 0 .. gotBits - 1 /\ i < nbits /\ i < b + n * w /\ i \in Nat
        /\ bit <= b /\ (bit = b \/ i < bit)
      BY <1>1, <1>2, <1>3, <1>4, <1>6 DEF Lesser, Kept
  <2>2. CASE bit <= i
    <3>1. bit = b
        BY <1>2, <2>1, <2>2
    <3>2. \A j \in 0 .. n - 1 : bit + (j + 1) * w <= nbits =>
              coef[m][NextUsed[j]] = bit + j * w
        BY <1>8, <3>1 DEF Holds
    <3> QED
        BY <1>1, <1>7, <1>8, <1>9, <2>1, <2>2, <3>1, <3>2, UnpackBits
  <2>3. CASE i < bit
    <3>1. got[i] = i
        BY <1>2, <2>1, <2>3
    <3>2. got'[i] = got[i]
      <4>1. i \in DOMAIN got /\ ~ (bit <= i)
          BY <1>1, <1>2, <2>1, <2>3 DEF TypeOK
      <4> QED
          BY <1>9, <4>1 DEF Unpack
    <3> QED
        BY <3>1, <3>2
  <2> QED
      BY <1>2, <2>1, <2>2, <2>3
<1> QED
    BY <1>4, <1>6, <1>10

\* It is enough to look at the MCU of the step.
LEMMA ReceiverStep ==
    ASSUME PackInv, Unstuffing, SentInv',
           pc' = "unstuffing" \/ ReadBack',
           Able /\ pc' = "unstuffing" =>
               \A c : c = trace[m + 1].bit => Understood(c)',
           pc' \in {"unstuffing", "done"}
    PROVE  PackInv'
<1>1. UNCHANGED <<job, density, trace>> /\ m' = m + 1
    BY DEF Unstuffing, NextMcu
<1>2. Able' = Able
    BY <1>1, PackFrame
<1>3. ASSUME pc' = "unstuffing", Able
      PROVE  Understood(trace[m].bit)'
  <2>1. PICK c : c = trace[m + 1].bit
      OBVIOUS
  <2>2. Understood(c)' /\ c = trace'[m'].bit
      BY <1>1, <1>3, <2>1
  <2> QED
      BY <2>2 DEF Understood
<1>4. ReceiverPack'
    BY <1>2, <1>3 DEF ReceiverPack
<1>5. ReadBack'
    BY DEF ReadBack
<1> QED
    BY <1>4, <1>5 DEF PackInv

\* Starting to receive establishes the receiver's part of the invariant.
LEMMA PackUnstuffBegin ==
    PackInv /\ UnstuffBegin => ReceiverPack'
<1> SUFFICES ASSUME PackInv, UnstuffBegin PROVE ReceiverPack'
    OBVIOUS
<1>2. /\ UNCHANGED <<job, density, coef, trace>>
      /\ pc = "unstuff" /\ pc' = "unstuffing"
      /\ m' = 0 /\ idx' = 0 /\ bit' = 0 /\ count' = 0
      /\ flag' = [x \in Mcus |-> TRUE]
      /\ limit' = gotBits
      /\ msgNbytes' = IF job.header THEN Unknown ELSE job.len
    BY DEF UnstuffBegin, BeginWalk
<1>4. trace'[m'].bit = 0 /\ Aligned(0)
    BY <1>2, AlignedEight DEF PackInv, SentInv, SenderPack
<1>5. FlagsReady' /\ idx' = FlagIndex(m)'
    BY <1>2 DEF FlagsReady, AtDensity, ActiveFlags, FlagIndex
<1>6. nbits' = nbits /\ gotBits' = gotBits /\ nbits \in Nat /\ nbits >= 48
      /\ gotBits \in Nat
    BY <1>2, PackFrame, JobType
    DEF PackInv, SentInv, StepInv, TypeInv, TypeOK, HeaderBits
<1>7. Aligned(0)'
    BY <1>4 DEF Aligned
<1>8. Understood(0)'
    BY <1>2, <1>5, <1>6, <1>7
    DEF Understood, Known, Kept, Lesser, HeaderBits
<1> QED
    BY <1>4, <1>8 DEF ReceiverPack, Understood

\* The receiver's position, and the MCU it is about to read.
LEMMA ReceiverFacts ==
    ASSUME PackInv, Unstuffing, Able
    PROVE  /\ Understood(trace[m].bit)
           /\ Filled(m)
           /\ TypeOK
           /\ m \in 0 .. NMcus - 1
           /\ pc = "unstuffing"
           /\ UNCHANGED <<job, density, trace>>
           /\ UNCHANGED <<nbits, gotBits, ActiveFlags>>
           /\ \A b : Kept(b)' = Kept(b)
           /\ nbits \in Nat /\ nbits >= 48
           /\ gotBits \in Nat /\ gotBits >= 48
           /\ job.header \/ nbits <= gotBits
           /\ trace[m].bit \in Nat
           /\ trace[0].bit = 0
           /\ density \in 1 .. 100
           /\ Ring = job.ring
           /\ job.len \in Nat
<1>1. pc = "unstuffing" /\ m \in 0 .. NMcus - 1
      /\ UNCHANGED <<job, density, trace>> /\ TypeOK
    BY UnstuffingType DEF PackInv, SentInv, StepInv, TypeInv, Unstuffing, Mcus
<1>2. Understood(trace[m].bit) /\ Filled(m)
      /\ trace[0].bit = 0 /\ density \in 1 .. 100
    BY <1>1 DEF PackInv, SentInv, SenderPack, ReceiverPack
<1>3. UNCHANGED <<nbits, gotBits, ActiveFlags>> /\ \A b : Kept(b)' = Kept(b)
    BY <1>1, PackFrame
<1>4. /\ nbits \in Nat /\ nbits >= 48 /\ gotBits \in Nat /\ gotBits >= 48
      /\ job.len \in Nat
      /\ job.header \/ nbits <= gotBits
    BY <1>1, CapacityFits, JobType DEF TypeOK, HeaderBits, Able
<1>5. trace[m].bit \in Nat
    BY <1>2 DEF Understood, Aligned
<1>6. Ring = job.ring
    BY <1>1 DEF Ring, Able, SameKey
<1> QED
    BY <1>1, <1>2, <1>3, <1>4, <1>5, <1>6

\* The density MCU gives the receiver the first 8 bits, and the density.
LEMMA ReceiverDensity ==
    ASSUME PacksBytes, PackInv, UnstuffDensity, Able,
           NEW c, c = trace[m + 1].bit
    PROVE  pc' = "unstuffing" /\ Understood(c)'
<1>1. Unstuffing /\ Extract(4, 2) /\ idx' = idx /\ m = 0 /\ job.header
    BY DEF UnstuffDensity, AtDensity
<1>2. /\ Understood(trace[m].bit) /\ Filled(m) /\ TypeOK
      /\ pc = "unstuffing"
      /\ UNCHANGED <<job, density, trace>>
      /\ UNCHANGED <<nbits, gotBits, ActiveFlags>>
      /\ \A x : Kept(x)' = Kept(x)
      /\ nbits \in Nat /\ nbits >= 48 /\ gotBits \in Nat /\ gotBits >= 48
      /\ trace[m].bit = 0 /\ density \in 1 .. 100 /\ Ring = job.ring
    BY <1>1, ReceiverFacts
<1>3. bit = 0 /\ count = 0 /\ idx = 0 /\ msgNbytes = Unknown /\ limit = gotBits
    BY <1>1, <1>2 DEF Understood, Known, Kept, Lesser, FlagIndex, HeaderBits
<1>4. Holds(m, 4, 2)
    BY <1>1, <1>2 DEF Filled
<1>5. Whole(0, 4, 2) /\ 4 \in 0 .. MaxFreqs
    BY <1>2, <1>3, WholeDensity, StegAssumption, SelectionAssumption
<1>6. Kept(0) = 0 /\ \A i \in 0 .. Kept(0) - 1 : got[i] = i
    BY <1>2 DEF Kept, Lesser
<1>7. /\ c = Lesser(0 + 4 * 2, nbits)
      /\ c <= nbits
      /\ \A i \in 0 .. Kept(c) - 1 : got'[i] = i
      /\ c < nbits => bit' = Kept(c) /\ count' = c
    BY <1>1, <1>2, <1>3, <1>4, <1>5, <1>6, ExtractHolds
<1>8. c = 8 /\ Kept(c) = 8 /\ bit' = 8 /\ count' = 8
    BY <1>2, <1>3, <1>7 DEF Lesser, Kept
<1>9. Intact(0, 7)
    BY <1>7, <1>8 DEF Intact
<1>10. /\ IF density > 100 THEN UNCHANGED flag /\ k' = NextK
                            ELSE SelectMcus(density)
       /\ IF density \in 1 .. 100 THEN GoOn ELSE Return(JEL_ERR_CHECKSUM)
    BY <1>9 DEF UnstuffDensity
<1>11. SelectMcus(density) /\ GoOn
    BY <1>2, <1>10
<1>12. flag' = ActiveFlags
    BY <1>1, <1>2, <1>11 DEF SelectMcus, ActiveFlags
<1>13. pc' = "unstuffing" /\ msgNbytes' = Unknown /\ limit' = gotBits
    BY <1>2, <1>3, <1>11 DEF GoOn
<1>14. m' = 1
    BY <1>1 DEF Unstuffing, NextMcu
<1>15. idx' = FlagIndex(m)' /\ FlagsReady' /\ Aligned(c)'
    BY <1>1, <1>2, <1>3, <1>8, <1>12, <1>14, AlignedEight
    DEF FlagIndex, FlagsReady, Aligned
<1> QED
    BY <1>1, <1>2, <1>7, <1>8, <1>13, <1>15 DEF Understood, Known, HeaderBits

\* An active MCU, while there is something of the message to come.
LEMMA ReceiverBits ==
    ASSUME PacksBytes, PackInv, ExtractBits, Able, trace[m].bit < nbits,
           NEW c, c = trace[m + 1].bit
    PROVE  /\ c \in Nat /\ trace[m].bit <= c /\ c <= nbits
           /\ Aligned(c)'
           /\ \A i \in 0 .. Kept(c) - 1 : got'[i] = i
           /\ c < nbits => bit' = Kept(c) /\ count' = c /\ idx' = FlagIndex(m)'
           /\ c = nbits => bit' >= Kept(nbits) /\ count' >= nbits
           /\ bit' >= HeaderBits <=> c >= HeaderBits
           /\ FlagsReady'
<1>1. /\ Unstuffing /\ Extract(NFreqs, BitsPerFreq) /\ ~ AtDensity
      /\ flag[idx] /\ idx' = idx + 1 /\ flag' = flag
    BY DEF ExtractBits
<1>2. /\ Understood(trace[m].bit) /\ Filled(m) /\ TypeOK
      /\ m \in 0 .. NMcus - 1
      /\ UNCHANGED <<job, density, trace>>
      /\ UNCHANGED <<nbits, gotBits, ActiveFlags>>
      /\ nbits \in Nat /\ trace[m].bit \in Nat
    BY <1>1, ReceiverFacts
<1> DEFINE b == trace[m].bit
<1>3. /\ bit = Kept(b) /\ count = b /\ idx = FlagIndex(m)
      /\ flag = ActiveFlags /\ Aligned(b)
      /\ \A i \in 0 .. Kept(b) - 1 : got[i] = i
    BY <1>1, <1>2 DEF Understood, FlagsReady
<1>4. Holds(m, NFreqs, BitsPerFreq)
    BY <1>1, <1>2, <1>3 DEF Filled, AtDensity
<1>5. Whole(b, NFreqs, BitsPerFreq)
    BY <1>2, <1>3, WholeBits
<1>6. NFreqs \in 0 .. MaxFreqs /\ BitsPerFreq \in Nat \ {0}
    BY StegAssumption, SelectionAssumption
<1>7. /\ c = Lesser(b + NFreqs * BitsPerFreq, nbits)
      /\ c \in Nat /\ b <= c /\ c <= nbits
      /\ \A i \in 0 .. Kept(c) - 1 : got'[i] = i
      /\ c < nbits => bit' = Kept(c) /\ count' = c
      /\ c = nbits => bit' >= Kept(nbits) /\ count' >= nbits
      /\ bit' >= HeaderBits <=> c >= HeaderBits
    BY <1>1, <1>2, <1>3, <1>4, <1>5, <1>6, ExtractHolds
<1>8. Aligned(c)
    BY <1>2, <1>3, <1>7, AlignedNext
<1>9. m' = m + 1
    BY <1>1 DEF Unstuffing, NextMcu
<1>10. idx' = FlagIndex(m)'
    BY <1>1, <1>2, <1>3, <1>9 DEF FlagIndex, AtDensity
<1>11. FlagsReady'
    BY <1>1, <1>2, <1>3 DEF FlagsReady
<1> QED
    BY <1>3, <1>7, <1>8, <1>10, <1>11 DEF Aligned

\* Reading a selected MCU keeps the invariant.
LEMMA PackUnstuffBits == PacksBytes /\ PackInv /\ UnstuffBits => PackInv'
<1> SUFFICES ASSUME PacksBytes, PackInv, UnstuffBits PROVE PackInv'
    OBVIOUS
<1>1. ExtractBits /\ Unstuffing /\ ~ HeaderComplete /\ GoOn
    BY DEF UnstuffBits, ExtractBits
<1>2. pc' = "unstuffing" /\ UNCHANGED <<msgNbytes, limit>>
    BY <1>1 DEF GoOn, Unstuffing
<1>3. SentInv'
    BY SentUnstuff DEF PackInv, Unstuff
<1>4. ASSUME Able, NEW c, c = trace[m + 1].bit
      PROVE  Understood(c)'
  <2>1. /\ Understood(trace[m].bit) /\ Filled(m)
        /\ UNCHANGED <<job, density, trace>>
        /\ UNCHANGED <<nbits, gotBits, ActiveFlags>>
        /\ \A x : Kept(x)' = Kept(x)
        /\ nbits \in Nat /\ nbits >= 48 /\ gotBits \in Nat
        /\ trace[m].bit \in Nat /\ job.len \in Nat /\ TypeOK
      BY <1>1, <1>4, ReceiverFacts
  <2>2. Known(trace[m].bit) /\ trace[m].bit <= nbits
      BY <2>1 DEF Understood
  <2>3. CASE trace[m].bit < nbits
    <3>1. /\ c \in Nat /\ trace[m].bit <= c /\ c <= nbits
          /\ Aligned(c)'
          /\ \A i \in 0 .. Kept(c) - 1 : got'[i] = i
          /\ c < nbits =>
                bit' = Kept(c) /\ count' = c /\ idx' = FlagIndex(m)'
          /\ c = nbits => bit' >= Kept(nbits) /\ count' >= nbits
          /\ bit' >= HeaderBits <=> c >= HeaderBits
          /\ FlagsReady'
        BY <1>1, <1>4, <2>3, ReceiverBits
    <3>2. job.header => (trace[m].bit < HeaderBits <=> c < HeaderBits)
      <4>1. CASE trace[m].bit < HeaderBits
          BY <1>1, <2>1, <2>2, <3>1, <4>1 DEF Known, HeaderComplete, HeaderBits
      <4>2. CASE trace[m].bit >= HeaderBits
          BY <2>1, <3>1, <4>2 DEF HeaderBits
      <4> QED
          BY <2>1, <4>1, <4>2 DEF HeaderBits
    <3>3. Known(c)'
        BY <1>2, <2>1, <2>2, <3>2 DEF Known
    <3> QED
        BY <2>1, <3>1, <3>3 DEF Understood
  <2>4. CASE trace[m].bit = nbits
    <3>1. c = nbits
        BY <1>4, <2>1, <2>4 DEF Filled
    <3>2. /\ bit >= Kept(nbits) /\ count >= nbits
          /\ FlagsReady /\ Aligned(nbits)
          /\ \A i \in 0 .. Kept(nbits) - 1 : got[i] = i
        BY <2>1, <2>4 DEF Understood
    <3>3. /\ Extract(NFreqs, BitsPerFreq) /\ ~ AtDensity /\ flag' = flag
          /\ m' = m + 1
        BY <1>1 DEF ExtractBits, Unstuffing, NextMcu
    <3>4. NFreqs * BitsPerFreq \in Nat /\ bit \in Nat /\ count \in Nat
        BY <2>1, StegAssumption, TimesNat DEF TypeOK
    <3>5. bit' >= Kept(nbits) /\ count' >= nbits
        BY <2>1, <3>2, <3>3, <3>4 DEF Extract, Lesser, Kept
    <3>6. ASSUME NEW i \in 0 .. Kept(nbits) - 1 PROVE got'[i] = i
      <4>1. ~ bit <= i /\ i \in DOMAIN got
          BY <2>1, <3>2, <3>4 DEF TypeOK, Kept, Lesser
      <4>2. got'[i] = got[i]
          BY <3>3, <4>1 DEF Extract, Unpack
      <4> QED
          BY <3>2, <4>2
    <3>7. FlagsReady'
        BY <2>1, <3>2, <3>3 DEF FlagsReady
    <3>8. Known(c)' /\ Aligned(c)'
        BY <1>2, <2>1, <2>2, <2>4, <3>1, <3>2 DEF Known, Aligned
    <3>9. ~ c < nbits' /\ c <= nbits'
        BY <2>1, <3>1
    <3> QED
        BY <2>1, <3>1, <3>5, <3>6, <3>7, <3>8, <3>9 DEF Understood
  <2> QED
      BY <2>1, <2>2, <2>3, <2>4
<1> QED
    BY <1>1, <1>2, <1>3, <1>4, ReceiverStep

\* Completing the header keeps the invariant: the length decoded is the one
\* that was sent.
LEMMA PackUnstuffHeader == PacksBytes /\ PackInv /\ UnstuffHeader => PackInv'
<1> SUFFICES ASSUME PacksBytes, PackInv, UnstuffHeader PROVE PackInv'
    OBVIOUS
<1>1. ExtractBits /\ Unstuffing /\ HeaderComplete
    BY DEF UnstuffHeader, ExtractBits
<1>2. SentInv'
    BY SentUnstuff DEF PackInv, Unstuff
<1>3. pc' \in {"unstuffing", "done"}
    BY UnstuffingStep DEF PackInv, SentInv
<1>4. CASE Able
  <2>1. PICK c : c = trace[m + 1].bit
      OBVIOUS
  <2>2. /\ Understood(trace[m].bit)
        /\ UNCHANGED <<job, density, trace>>
        /\ UNCHANGED <<nbits, gotBits, ActiveFlags>>
        /\ \A x : Kept(x)' = Kept(x)
        /\ nbits \in Nat /\ nbits >= 48
        /\ trace[m].bit \in Nat /\ job.len \in Nat /\ TypeOK
        /\ m + 1 \in 0 .. NMcus
      BY <1>1, <1>4, ReceiverFacts, SelectionAssumption
  <2>3. Known(trace[m].bit) /\ trace[m].bit <= nbits
      BY <2>2 DEF Understood
  <2>4. msgNbytes = Unknown /\ bit' >= HeaderBits
      BY <1>1 DEF HeaderComplete
  <2>5. job.header /\ trace[m].bit < HeaderBits
      BY <2>2, <2>3, <2>4 DEF Known, Unknown
  <2>6. trace[m].bit < nbits
      BY <2>2, <2>5 DEF HeaderBits
  <2>7. /\ c \in Nat /\ c <= nbits
        /\ Aligned(c)'
        /\ \A i \in 0 .. Kept(c) - 1 : got'[i] = i
        /\ c < nbits => bit' = Kept(c) /\ count' = c /\ idx' = FlagIndex(m)'
        /\ c = nbits => bit' >= Kept(nbits) /\ count' >= nbits
        /\ bit' >= HeaderBits <=> c >= HeaderBits
        /\ FlagsReady'
      BY <1>1, <1>4, <2>1, <2>6, ReceiverBits
  <2>8. c >= 48
      BY <2>4, <2>7 DEF HeaderBits
  <2>9. Intact(0, HeaderBits - 1) /\ Intact(8, 39)
    <3>1. gotBits \in Nat /\ gotBits >= 48
        BY <1>1, <1>4, ReceiverFacts
    <3>2. Kept(c) >= 48 /\ Kept(c) \in Nat
        BY <2>2, <2>7, <2>8, <3>1 DEF Kept, Lesser
    <3> QED
        BY <2>7, <3>2 DEF Intact, HeaderBits
  <2>10. ImageBits \div 8 \in Nat
      BY McuBitsType, DivFacts
  <2>11. /\ job.len = 0 => Return(0)
         /\ job.len > ImageBits \div 8 => Return(JEL_ERR_MSG_OVERFLOW)
         /\ job.len # 0 /\ ~ job.len > ImageBits \div 8 =>
                           /\ msgNbytes' = job.len
                           /\ limit' = StreamBits(job.len)
                           /\ UNCHANGED <<pc, extracted>>
    <3>1. PICK ok \in {TRUE}, n \in {job.len} :
              CASE ~ok -> Return(JEL_ERR_CHECKSUM)
                [] ok /\ n = 0 -> Return(0)
                [] ok /\ n > ImageBits \div 8 -> Return(JEL_ERR_MSG_OVERFLOW)
                [] OTHER -> /\ msgNbytes' = n
                            /\ limit' = StreamBits(n)
                            /\ UNCHANGED <<pc, extracted>>
        BY <2>9 DEF UnstuffHeader
    <3>2. ok = TRUE /\ n = job.len
        OBVIOUS
    <3>3. ~ (job.len = 0 /\ job.len > ImageBits \div 8)
        BY <2>10
    <3> QED
        BY <3>1, <3>2, <3>3
  <2>12. CASE job.len = 0 \/ job.len > ImageBits \div 8
    <3>1. /\ extracted' = IF job.len = 0 THEN 0 ELSE JEL_ERR_MSG_OVERFLOW
          /\ pc' = "done"
        BY <2>11, <2>12 DEF Return
    <3>2. trace[NMcus].bit \in Nat /\ trace[NMcus].bit >= 48
        BY <1>1, <2>1, <2>2, <2>7, <2>8, Rising
        DEF Unstuffing, PackInv, SentInv, SenderPack
    <3>3. extracted' = Result(trace[NMcus].bit)
        BY <2>5, <2>10, <2>12, <3>1, <3>2 DEF Result, HeaderBits
    <3>4. Result(trace[NMcus].bit)' = Result(trace[NMcus].bit)
        BY <2>2, CapacityFrame DEF Result
    <3>5. ~ (job.len > 0 /\ extracted' = job.len)
        BY <2>2, <2>12, <3>1 DEF JEL_ERR_MSG_OVERFLOW
    <3>6. ReadBack'
        BY <2>2, <3>3, <3>4, <3>5 DEF ReadBack
    <3> QED
        BY <1>1, <1>2, <3>1, <3>6, ReceiverStep
  <2>13. CASE job.len # 0 /\ ~ job.len > ImageBits \div 8
    <3>1. /\ msgNbytes' = job.len
          /\ limit' = StreamBits(job.len)
          /\ UNCHANGED <<pc, extracted>>
        BY <2>11, <2>13
    <3>2. Known(c)'
        BY <2>2, <2>5, <2>7, <2>8, <2>13, <3>1 DEF Known, nbits, HeaderBits
    <3>3. Understood(c)'
        BY <2>2, <2>7, <3>2 DEF Understood
    <3>4. pc' = "unstuffing"
        BY <1>1, <3>1 DEF Unstuffing
    <3>5. \A d : d = trace[m + 1].bit => Understood(d)'
        BY <2>1, <3>3
    <3> QED
        BY <1>1, <1>2, <3>4, <3>5, ReceiverStep
  <2> QED
      BY <2>12, <2>13
<1>5. CASE ~ Able
  <2>1. ~ Able'
      BY <1>1, <1>5, PackFrame DEF Unstuffing
  <2>2. ReadBack'
      BY <2>1 DEF ReadBack
  <2> QED
      BY <1>1, <1>2, <1>3, <1>5, <2>2, ReceiverStep
<1> QED
    BY <1>4, <1>5

\* An MCU that is skipped, or was not selected.
LEMMA PackUnstuffIdle ==
    PacksBytes /\ PackInv /\ (UnstuffIdle \/ UnstuffSkip) => PackInv'
<1> SUFFICES ASSUME PacksBytes, PackInv, UnstuffIdle \/ UnstuffSkip
             PROVE  PackInv'
    OBVIOUS
<1>1. /\ Unstuffing /\ GoOn
      /\ UNCHANGED <<flag, bit, count, got>>
    BY DEF UnstuffIdle, UnstuffSkip
<1>2. pc' = "unstuffing" /\ UNCHANGED <<msgNbytes, limit>> /\ m' = m + 1
    BY <1>1 DEF GoOn, Unstuffing, NextMcu
<1>3. SentInv'
    BY SentUnstuff DEF PackInv, Unstuff
<1>4. ASSUME Able, NEW c, c = trace[m + 1].bit
      PROVE  Understood(c)'
  <2>1. /\ Understood(trace[m].bit) /\ Filled(m) /\ TypeOK
        /\ UNCHANGED <<job, density, trace>>
        /\ UNCHANGED <<nbits, gotBits, ActiveFlags>>
        /\ \A x : Kept(x)' = Kept(x)
        /\ nbits \in Nat /\ nbits >= 48 /\ gotBits \in Nat /\ gotBits >= 48
        /\ job.header \/ nbits <= gotBits
        /\ trace[m].bit \in Nat /\ trace[0].bit = 0
        /\ m \in 0 .. NMcus - 1
      BY <1>1, <1>4, ReceiverFacts
  <2>2. trace[m].bit < nbits => count < limit
      BY <2>1 DEF Understood, Known, HeaderBits
  <2>3. trace[m].bit < nbits =>
            ~ flag[idx] /\ ~ AtDensity /\ idx' = idx + 1
    <3>1. CASE UnstuffIdle
        BY <3>1 DEF UnstuffIdle
    <3>2. CASE UnstuffSkip
        BY <2>1, <2>2, <3>2 DEF UnstuffSkip, TypeOK
    <3> QED
        BY <3>1, <3>2
  <2>4. ~ AtDensity
    <3>1. CASE trace[m].bit < nbits
        BY <2>3, <3>1
    <3>2. CASE ~ trace[m].bit < nbits
        BY <2>1, <3>2 DEF AtDensity
    <3> QED
        BY <3>1, <3>2
  <2>5. c = trace[m].bit
    <3>1. CASE trace[m].bit < nbits
      <4>1. idx = FlagIndex(m) /\ flag = ActiveFlags
          BY <2>1, <2>4, <3>1 DEF Understood, FlagsReady
      <4> QED
          BY <1>4, <2>1, <2>3, <2>4, <3>1, <4>1 DEF Filled, AtDensity
    <3>2. CASE ~ trace[m].bit < nbits
        BY <1>4, <2>1, <3>2 DEF Filled
    <3> QED
        BY <3>1, <3>2
  <2>6. c < nbits => idx' = FlagIndex(m)'
    <3> SUFFICES ASSUME c < nbits PROVE idx' = FlagIndex(m)'
        OBVIOUS
    <3>1. idx = FlagIndex(m) /\ idx' = idx + 1
        BY <2>1, <2>3, <2>5 DEF Understood
    <3> QED
        BY <1>2, <2>1, <2>4, <3>1 DEF FlagIndex, AtDensity
  <2>7. FlagsReady'
      BY <1>1, <2>1, <2>4 DEF Understood, FlagsReady
  <2>8. Aligned(c)' /\ Known(c)'
      BY <1>2, <2>1, <2>5 DEF Understood, Known, Aligned
  <2> QED
      BY <1>1, <2>1, <2>5, <2>6, <2>7, <2>8 DEF Understood
<1> QED
    BY <1>1, <1>2, <1>3, <1>4, ReceiverStep

\* The receiver returns what the invariant says it has.
LEMMA PackUnstuffEnd == PackInv /\ UnstuffEnd => PackInv'
<1> SUFFICES ASSUME PackInv, UnstuffEnd PROVE PackInv'
    OBVIOUS
<1>1. SentInv'
    BY SentUnstuff DEF PackInv, Unstuff
<1>2. /\ UNCHANGED <<job, density, got, trace>>
      /\ pc = "unstuffing" /\ pc' = "done" /\ m = NMcus
      /\ extracted' = IF msgNbytes = Unknown THEN Capacity(job.receiver)
                                             ELSE msgNbytes
    BY DEF UnstuffEnd
<1>3. ReceiverPack'
    BY <1>2 DEF ReceiverPack
<1> DEFINE b == trace[NMcus].bit
<1>4. ASSUME Able
      PROVE  /\ extracted' = Result(b)
             /\ \A i \in 0 .. Kept(b) - 1 : got[i] = i
  <2>1. Understood(b) /\ job.len \in Nat
      BY <1>2, <1>4, JobType
      DEF PackInv, SentInv, ReceiverPack, StepInv, TypeInv, TypeOK
  <2>2. Known(b) /\ \A i \in 0 .. Kept(b) - 1 : got[i] = i
      BY <2>1 DEF Understood
  <2>3. extracted' = Result(b)
      BY <1>2, <2>1, <2>2 DEF Known, Result, Unknown
  <2> QED
      BY <2>2, <2>3
<1>5. UNCHANGED <<Able, b, Result(b), Kept(b)>>
    BY <1>2, PackFrame, CapacityFrame DEF Result
<1>6. ReadBack'
    BY <1>2, <1>4, <1>5 DEF ReadBack
<1> QED
    BY <1>1, <1>3, <1>6 DEF PackInv, SentInv

\* Reading the density MCU keeps the invariant.
LEMMA PackUnstuffDensity == PacksBytes /\ PackInv /\ UnstuffDensity => PackInv'
<1> SUFFICES ASSUME PacksBytes, PackInv, UnstuffDensity PROVE PackInv'
    OBVIOUS
<1>1. Unstuffing /\ UNCHANGED <<job, density>>
    BY DEF UnstuffDensity, Unstuffing
<1>2. SentInv' /\ pc' \in {"unstuffing", "done"}
    BY SentUnstuff, UnstuffingStep DEF PackInv, SentInv, Unstuff
<1>3. CASE Able
    BY <1>1, <1>2, <1>3, ReceiverDensity, ReceiverStep
<1>4. CASE ~ Able
  <2>1. ReadBack'
      BY <1>1, <1>4, PackFrame DEF ReadBack
  <2> QED
      BY <1>1, <1>2, <1>4, <2>1, ReceiverStep
<1> QED
    BY <1>3, <1>4

-----------------------------------------------------------------------------
(* The theorem.                                                            *)

\* The invariant holds initially.
LEMMA PackInit == Init => PackInv
BY SentInit DEF PackInv, ReceiverPack, ReadBack, Init

\* A step that changes nothing keeps the invariant.
LEMMA PackStutter == PackInv /\ UNCHANGED vars => ReceiverPack' /\ ReadBack'
<1> SUFFICES ASSUME PackInv, UNCHANGED vars PROVE ReceiverPack' /\ ReadBack'
    OBVIOUS
<1>1. /\ UNCHANGED <<nbits, gotBits, ActiveFlags, SameKey, Able>>
      /\ \A b : Kept(b)' = Kept(b)
    BY PackFrame DEF vars
<1>2. ReceiverPack'
    BY <1>1
    DEF PackInv, ReceiverPack, Understood, Known, vars, walk, Aligned,
        FlagsReady, AtDensity, FlagIndex
<1>3. ReadBack'
    BY <1>1, CapacityFrame DEF PackInv, ReadBack, Result, vars
<1> QED
    BY <1>2, <1>3

\* A step of the sender claims nothing of the receiver.
LEMMA PackStuff == PackInv /\ Stuff => ReceiverPack' /\ ReadBack'
<1> SUFFICES ASSUME PackInv, Stuff PROVE ReceiverPack' /\ ReadBack'
    OBVIOUS
<1>1. CASE StuffOverflow
    BY <1>1
    DEF StuffOverflow, ReceiverPack, ReadBack, JEL_ERR_MSG_OVERFLOW
<1>2. CASE ~ StuffOverflow
  <2>1. pc' \in {"stuffing", "unstuff"}
      BY <1>2
      DEF Stuff, StuffBegin, StuffDensity, StuffBits, StuffIdle, StuffSkip,
          StuffEnd, Stuffing
  <2> QED
      BY <2>1 DEF ReceiverPack, ReadBack
<1> QED
    BY <1>1, <1>2

\* Every step keeps the invariant.
LEMMA PackNext == PacksBytes /\ PackInv /\ [Next]_vars => PackInv'
<1> SUFFICES ASSUME PacksBytes, PackInv, [Next]_vars PROVE PackInv'
    OBVIOUS
<1>1. SentInv'
    BY SentNext DEF PackInv
<1>2. CASE Stuff \/ UNCHANGED vars
    BY <1>1, <1>2, PackStuff, PackStutter DEF PackInv
<1>3. CASE UnstuffBegin
  <2>1. ReadBack'
      BY <1>3 DEF UnstuffBegin, ReadBack
  <2> QED
      BY <1>1, <1>3, <2>1, PackUnstuffBegin DEF PackInv
<1> QED
    BY <1>2, <1>3, PackUnstuffDensity, PackUnstuffBits, PackUnstuffHeader,
       PackUnstuffIdle, PackUnstuffEnd
    DEF Next, Unstuff

\* A receiver whose buffer is large enough has all of what went in whole.
LEMMA PackRoundTrip == PackInv => RoundTrip
<1> SUFFICES ASSUME PackInv, pc = "done", embedded >= 0, SameKey, Placed,
                    job.len <= Capacity(job.receiver)
             PROVE  extracted = job.len /\ Delivered(job.len)
    BY DEF RoundTrip
<1>1. nbits <= gotBits /\ ~ job.len > ImageBits \div 8
    BY CapacityFits DEF PackInv, SentInv, StepInv, TypeInv
<1>2. nbits \in Nat /\ nbits >= 48 /\ gotBits \in Nat /\ job.len \in Nat
    BY JobType DEF PackInv, SentInv, StepInv, TypeInv, TypeOK, HeaderBits
<1>3. /\ extracted = Result(nbits)
      /\ job.len > 0 /\ extracted = job.len =>
            \A i \in 0 .. Kept(nbits) - 1 : got[i] = i
    BY DEF PackInv, SentInv, ReadBack, Able, Placed
<1>4. extracted = job.len
    BY <1>1, <1>2, <1>3 DEF Result, HeaderBits
<1>5. Kept(nbits) = nbits
    BY <1>1, <1>2 DEF Kept, Lesser
<1>6. CASE job.len > 0
    BY <1>2, <1>3, <1>4, <1>5, <1>6 DEF Delivered, nbits, HeaderBits
<1>7. CASE job.len = 0
    BY <1>4, <1>7 DEF Delivered, StreamBits, HeaderBits
<1> QED
    BY <1>2, <1>4, <1>6, <1>7

\* If all of the stream went into the image, a receiver with the sender's
\* seed whose buffer is large enough returns the length of the message, and
\* every bit of it, whatever was sent at whatever density.
THEOREM StegRoundTrip ==
    ASSUME PacksBytes
    PROVE  Spec => []RoundTrip
<1>1. Init => PackInv
    BY PackInit
<1>2. PackInv /\ [Next]_vars => PackInv'
    BY PackNext
<1>3. PackInv => RoundTrip
    BY PackRoundTrip
<1> QED
    BY <1>1, <1>2, <1>3, PTL DEF Spec

-----------------------------------------------------------------------------
(* The selected MCUs, counted.                                             *)

Greater(a, b) == IF a > b THEN a ELSE b

\* With a seed as many MCUs are selected as were asked for, and at least the
\* first.
LEMMA SelectedCount ==
    ASSUME NEW ring \in Ring0, NEW a \in 0 .. NMcus
    PROVE  LET S == {x \in Mcus : McuFlags(TRUE, ring, a)[x]}
           IN  /\ IsFiniteSet(S)
               /\ Cardinality(S) = Greater(a, 1)
               /\ 0 \in S
<1> DEFINE list == McuList(ring)
           g == Greater(a, 1)
           D == 0 .. g - 1
           S == {x \in Mcus : McuFlags(TRUE, ring, a)[x]}
           f == [j \in D |-> list[j]]
<1>1. list \in [Mcus -> Mcus] /\ Distinct(list) /\ list[0] = 0
    BY McuListFacts
<1>2. g \in Nat /\ g >= 1 /\ D \subseteq Mcus /\ 0 \in D /\ 0 \in Mcus
    BY SelectionAssumption DEF Greater, Mcus
<1>3. S = {x \in Mcus : x = 0 \/ \E j \in 1 .. a - 1 : list[j] = x}
    BY DEF McuFlags
<1>4. \A j : j \in D <=> j = 0 \/ j \in 1 .. a - 1
    BY SelectionAssumption DEF Greater
<1> HIDE DEF list, g, D, S
<1>5. f \in [D -> S]
    BY <1>1, <1>2, <1>3, <1>4
<1>6. \A x, y \in D : f[x] = f[y] => x = y
    BY <1>1, <1>2 DEF Distinct
<1>7. \A t \in S : \E j \in D : f[j] = t
    BY <1>1, <1>3, <1>4
<1> HIDE DEF f
<1>8. ExistsBijection(D, S)
    BY <1>5, <1>6, <1>7, Fun_IsBij DEF ExistsBijection
<1>9. IsFiniteSet(D) /\ Cardinality(D) = g
    BY <1>2, FS_Interval DEF D
<1>10. IsFiniteSet(S) /\ Cardinality(S) = g
    BY <1>8, <1>9, FS_Bijection
<1>11. 0 \in S
    BY <1>2, <1>3
<1> QED
    BY <1>10, <1>11 DEF S, g

\* The flags that MCUs 1 to i - 1 go by, if there is a header.
ActiveBefore(i) == {x \in 0 .. i - 2 : ActiveFlags[x]}

\* They are as many as Channel says: the last flag is never looked at.
LEMMA ActiveCount ==
    ASSUME TypeOK, job.header, density \in 1 .. 100
    PROVE  /\ IsFiniteSet(ActiveBefore(NMcus))
           /\ Cardinality(ActiveBefore(NMcus))
                  \in C!Fillable(NMcus, job.seeded, density)
           /\ job.seeded => Cardinality(ActiveBefore(NMcus))
                                <= Greater(ActiveMcus(density), 1)
<1> DEFINE a == ActiveMcus(density)
           active == Greater(a, 1)
           S == {x \in Mcus : McuFlags(TRUE, job.ring, a)[x]}
           B == ActiveBefore(NMcus)
<1>1. job.ring \in Ring0 /\ job.seeded \in BOOLEAN /\ NMcus \in Nat /\ NMcus > 0
    BY JobType, SelectionAssumption DEF TypeOK
<1>2. a \in 0 .. NMcus
  <2>1. density * NMcus <= 100 * NMcus /\ density * NMcus \in Nat
      BY <1>1, TimesMonotone, TimesNat
  <2> DEFINE p == density * NMcus
  <2>2. p \in Nat /\ p <= 100 * NMcus
      BY <2>1
  <2> HIDE DEF p
  <2>3. p \div 100 \in 0 .. NMcus
      BY <1>1, <2>2
  <2> QED
      BY <2>3 DEF ActiveMcus, p
<1>3. C!Fillable(NMcus, job.seeded, density) =
          IF ~ job.seeded \/ active >= NMcus THEN {NMcus - 1}
          ELSE IF active = 1 THEN {1}
          ELSE {active - 1, active}
    BY DEF C!Fillable, C!Greater, Greater, ActiveMcus
<1> HIDE DEF a
<1>4. CASE ~ job.seeded
  <2>1. B = 0 .. NMcus - 2
      BY <1>1, <1>4 DEF ActiveBefore, ActiveFlags, McuFlags, Mcus
  <2>2. IsFiniteSet(B) /\ Cardinality(B) = NMcus - 1
      BY <1>1, <2>1, FS_Interval
  <2> QED
      BY <1>3, <1>4, <2>2
<1>5. CASE job.seeded
  <2>1. IsFiniteSet(S) /\ Cardinality(S) = active /\ 0 \in S
      BY <1>1, <1>2, SelectedCount
  <2>2. B = S \ {NMcus - 1}
    <3>1. job.seeded = TRUE
        BY <1>1, <1>5
    <3>2. ActiveFlags = McuFlags(TRUE, job.ring, a)
        BY <3>1 DEF ActiveFlags, a
    <3>3. Mcus \ {NMcus - 1} = 0 .. NMcus - 2
        BY <1>1 DEF Mcus
    <3> QED
        BY <3>2, <3>3 DEF ActiveBefore
  <2>3. S \subseteq Mcus
      OBVIOUS
  <2>4. active \in Nat /\ active >= 1 /\ active <= NMcus
      BY <1>1, <1>2 DEF Greater
  <2> HIDE DEF S, active
  <2>5. /\ IsFiniteSet(B)
        /\ Cardinality(B) = IF NMcus - 1 \in S THEN active - 1 ELSE active
      BY <2>1, <2>2, FS_RemoveElement
  <2>6. CASE active >= NMcus
    <3>1. IsFiniteSet(Mcus) /\ Cardinality(Mcus) = NMcus
        BY <1>1, FS_Interval DEF Mcus
    <3>2. S = Mcus
      <4>1. S \in SUBSET Mcus /\ Cardinality(S) = Cardinality(Mcus)
          BY <1>1, <2>1, <2>3, <2>4, <2>6, <3>1
      <4> QED
          BY <3>1, <4>1, FS_Subset
    <3>3. NMcus - 1 \in S
        BY <1>1, <3>2 DEF Mcus
    <3> QED
      <4>1. Cardinality(B) = NMcus - 1 /\ IsFiniteSet(B)
          BY <1>1, <2>4, <2>5, <2>6, <3>3
      <4>2. C!Fillable(NMcus, job.seeded, density) = {NMcus - 1}
          BY <1>3, <2>6 DEF active
      <4>3. Greater(ActiveMcus(density), 1) >= NMcus
          BY <2>6 DEF active, a
      <4>4. Greater(ActiveMcus(density), 1) \in Nat
          BY <2>4 DEF active, a
      <4> HIDE DEF B
      <4>5. /\ IsFiniteSet(B)
            /\ Cardinality(B) \in C!Fillable(NMcus, job.seeded, density)
            /\ Cardinality(B) <= Greater(ActiveMcus(density), 1)
          BY <1>1, <4>1, <4>2, <4>3, <4>4
      <4> QED
          BY <4>5 DEF B
  <2>7. CASE ~ active >= NMcus /\ active = 1
    <3>1. PICK e : S = {e}
        BY <2>1, <2>7, FS_Singleton
    <3>2. NMcus - 1 \notin S
        BY <1>1, <2>1, <2>7, <3>1
    <3> QED
      <4>1. Cardinality(B) = 1 /\ IsFiniteSet(B)
          BY <2>5, <2>7, <3>2
      <4>2. C!Fillable(NMcus, job.seeded, density) = {1}
          BY <1>3, <1>5, <2>7 DEF active
      <4>3. Greater(ActiveMcus(density), 1) = 1
          BY <2>7 DEF active, a
      <4> HIDE DEF B
      <4>4. /\ IsFiniteSet(B)
            /\ Cardinality(B) \in C!Fillable(NMcus, job.seeded, density)
            /\ Cardinality(B) <= Greater(ActiveMcus(density), 1)
          BY <4>1, <4>2, <4>3
      <4> QED
          BY <4>4 DEF B
  <2>8. CASE ~ active >= NMcus /\ active # 1
      BY <1>3, <1>5, <2>4, <2>5, <2>8 DEF active, a
  <2> QED
      BY <2>6, <2>7, <2>8
<1> QED
    BY <1>1, <1>4, <1>5

-----------------------------------------------------------------------------
(* How far the sender gets.                                                *)

\* The bits of MCUs 0 to i - 1, as if the stream had no end.
Filling(i) ==
    IF i = 0 THEN 0
    ELSE IF job.header THEN 8 + McuBits * Cardinality(ActiveBefore(i))
    ELSE McuBits * i

\* MCU i adds its bits.
LEMMA FillingNext ==
    ASSUME NEW i \in 0 .. NMcus - 1
    PROVE  /\ IsFiniteSet(ActiveBefore(i))
           /\ Filling(i) \in Nat
           /\ Filling(i + 1) \in Nat
           /\ Filling(i + 1) =
                Filling(i) + IF job.header
                               THEN IF i = 0 THEN 8
                                    ELSE IF ActiveFlags[i - 1] THEN McuBits
                                    ELSE 0
                               ELSE McuBits
<1>1. i \in Nat /\ McuBits \in Nat /\ i + 1 # 0
    BY SelectionAssumption, McuBitsType
<1>2. \A j \in Nat : IsFiniteSet(ActiveBefore(j))
  <2> TAKE j \in Nat
  <2>1. IsFiniteSet(0 .. j - 2) /\ ActiveBefore(j) \in SUBSET (0 .. j - 2)
      BY FS_Interval DEF ActiveBefore
  <2> QED
      BY <2>1, FS_Subset
<1> DEFINE c == Cardinality(ActiveBefore(i))
           e == Cardinality(ActiveBefore(i + 1))
<1>3. c \in Nat /\ e \in Nat
    BY <1>1, <1>2, FS_CardinalityType
<1>4. McuBits * c \in Nat /\ McuBits * e \in Nat /\ McuBits * i \in Nat
      /\ McuBits * (i + 1) = McuBits * i + McuBits
      /\ McuBits * (c + 1) = McuBits * c + McuBits
    BY <1>1, <1>3
<1>5. CASE ~ job.header
  <2>1. Filling(i) = McuBits * i
    <3>1. McuBits * 0 = 0
        BY <1>1
    <3> QED
        BY <1>5, <3>1 DEF Filling
  <2>2. Filling(i + 1) = McuBits * (i + 1)
      BY <1>1, <1>5 DEF Filling
  <2> HIDE DEF c, e
  <2> QED
      BY <1>1, <1>2, <1>4, <1>5, <2>1, <2>2
<1>6. CASE job.header /\ i = 0
  <2>1. ActiveBefore(i + 1) = {}
      BY <1>6 DEF ActiveBefore
  <2>2. e = 0 /\ McuBits * 0 = 0
      BY <1>1, <2>1, FS_EmptySet
  <2> QED
      BY <1>1, <1>2, <1>6, <2>2 DEF Filling
<1>7. CASE job.header /\ i # 0 /\ ActiveFlags[i - 1]
  <2>1. ActiveBefore(i + 1) = ActiveBefore(i) \cup {i - 1}
        /\ i - 1 \notin ActiveBefore(i)
      BY <1>1, <1>7 DEF ActiveBefore
  <2>2. e = c + 1
      BY <1>1, <1>2, <2>1, FS_AddElement
  <2>3. Filling(i) = 8 + McuBits * c /\ Filling(i + 1) = 8 + McuBits * (c + 1)
      BY <1>1, <1>7, <2>2 DEF Filling
  <2> HIDE DEF c, e
  <2> QED
      BY <1>1, <1>2, <1>4, <1>7, <2>3
<1>8. CASE job.header /\ i # 0 /\ ~ ActiveFlags[i - 1]
  <2>1. ActiveBefore(i + 1) = ActiveBefore(i)
      BY <1>1, <1>8 DEF ActiveBefore
  <2>2. Filling(i + 1) = 8 + McuBits * c /\ Filling(i) = 8 + McuBits * c
      BY <1>1, <1>8, <2>1 DEF Filling
  <2> HIDE DEF c, e
  <2> QED
      BY <1>1, <1>2, <1>4, <1>8, <2>2
<1> QED
    BY <1>5, <1>6, <1>7, <1>8

\* Filled MCU by MCU, the stream has come as far as all of them together hold.
LEMMA FillingSum ==
    ASSUME TypeOK, trace[0].bit = 0, \A i \in 0 .. NMcus - 1 : Filled(i),
           NEW x \in 0 .. NMcus
    PROVE  trace[x].bit = Lesser(Filling(x), nbits)
<1> DEFINE T == {i \in 0 .. NMcus : trace[i].bit = Lesser(Filling(i), nbits)}
<1>1. /\ NMcus \in Nat /\ nbits \in Nat /\ nbits > 0
      /\ NFreqs * BitsPerFreq = McuBits /\ McuBits \in Nat
    BY SelectionAssumption, JobType, McuBitsType
    DEF TypeOK, HeaderBits, McuBits
<1>2. 0 \in T
    BY <1>1 DEF Filling, Lesser
<1>3. ASSUME NEW i \in 0 .. NMcus - 1, i \in T PROVE i + 1 \in T
  <2> DEFINE b == trace[i].bit
  <2>1. /\ i + 1 \in 0 .. NMcus
        /\ Filled(i) /\ b = Lesser(Filling(i), nbits)
      BY <1>1, <1>3
  <2>2. /\ Filling(i) \in Nat
        /\ Filling(i + 1) \in Nat
        /\ Filling(i + 1) =
             Filling(i) + IF job.header
                            THEN IF i = 0 THEN 8
                                 ELSE IF ActiveFlags[i - 1] THEN McuBits
                                 ELSE 0
                            ELSE McuBits
      BY FillingNext
  <2>3. ~ job.header => ActiveFlags[i]
      BY <1>1 DEF ActiveFlags, Mcus
  <2>4. b >= nbits \/ b = Filling(i)
      BY <1>1, <2>1, <2>2 DEF Lesser
  <2>5. trace[i + 1].bit = Lesser(Filling(i + 1), nbits)
    <3>1. CASE b >= nbits
        BY <1>1, <2>1, <2>2, <3>1 DEF Filled, Lesser
    <3>2. CASE b < nbits /\ job.header /\ i = 0
        BY <1>1, <2>1, <2>2, <2>4, <3>2 DEF Filled, Holds, Lesser
    <3>3. CASE b < nbits /\ ~ (job.header /\ i = 0)
        BY <1>1, <2>1, <2>2, <2>3, <2>4, <3>3
        DEF Filled, Holds, Lesser, FlagIndex
    <3> QED
        BY <1>1, <2>1, <2>2, <3>1, <3>2, <3>3 DEF Lesser
  <2> QED
      BY <2>1, <2>5
<1> HIDE DEF T
<1>4. \A i \in 0 .. NMcus : i \in T
    BY <1>1, <1>2, <1>3, SegmentInduction
<1> QED
    BY <1>4 DEF T

-----------------------------------------------------------------------------
(* What the sender has decided and returned.                               *)

\* The density the sender works with.
Chosen == IF job.density = Unspecified THEN AutoDensity(nbits) ELSE job.density

\* Which messages are refused, what is returned for the others, and where the
\* ring stands between the two walks.
Returned ==
    /\ pc = "stuff" => embedded = NotYet /\ trace[NMcus].bit = 0
    /\ pc = "stuffing" => embedded = NotYet
    /\ pc \in {"stuffing", "unstuff", "unstuffing"} =>
          ~ TooLong /\ density = Chosen
    /\ pc = "unstuff" => k = trace[NMcus].k
    /\ pc \in {"unstuff", "unstuffing"} => embedded = job.len
    /\ pc = "done" => IF embedded < 0
                        THEN embedded = JEL_ERR_MSG_OVERFLOW /\ TooLong
                        ELSE embedded = job.len /\ ~ TooLong

LinkInv == SentInv /\ Returned

\* Nothing has been decided initially.
LEMMA ReturnedInit == Init => Returned
<1> SUFFICES ASSUME Init PROVE Returned
    OBVIOUS
<1>1. NMcus \in 0 .. NMcus
    BY SelectionAssumption
<1>2. pc = "stuff" /\ embedded = NotYet
    BY DEF Init
<1>3. trace[NMcus].bit = 0
    BY <1>1 DEF Init, Nowhere
<1> QED
    BY <1>2, <1>3 DEF Returned

\* What is refused and which density is used depend on the job only.
LEMMA ChosenFrame ==
    ASSUME UNCHANGED job
    PROVE  UNCHANGED <<TooLong, Chosen>>
BY DEF TooLong, Chosen, nbits, ImageCapacity, AutoDensity

\* No step changes the job.
LEMMA JobFrame == [Next]_vars => UNCHANGED job
BY DEF Next, Stuff, Unstuff, vars, StuffOverflow, StuffBegin, StuffDensity,
       StuffBits, StuffIdle, StuffSkip, StuffEnd, Stuffing, UnstuffBegin,
       UnstuffDensity, UnstuffBits, UnstuffHeader, UnstuffIdle, UnstuffSkip,
       UnstuffEnd, ExtractBits, Unstuffing

\* Every step keeps what was decided.
LEMMA ReturnedNext == LinkInv /\ [Next]_vars => Returned'
<1> SUFFICES ASSUME LinkInv, [Next]_vars PROVE Returned'
    OBVIOUS
<1>1. UNCHANGED job /\ job.len \in Nat
  <2>1. job.len \in Nat
      BY JobType DEF LinkInv, SentInv, StepInv, TypeInv, TypeOK
  <2>2. UNCHANGED job
      BY JobFrame
  <2> QED
      BY <2>1, <2>2
<1>2. UNCHANGED <<TooLong, Chosen>>
    BY <1>1, ChosenFrame
<1>3. CASE StuffOverflow
    BY <1>2, <1>3 DEF StuffOverflow, Returned, JEL_ERR_MSG_OVERFLOW
<1>4. CASE StuffBegin
    BY <1>2, <1>4 DEF StuffBegin, LinkInv, Returned, Chosen, nbits
<1>5. CASE StuffDensity \/ StuffBits \/ StuffIdle \/ StuffSkip
    BY <1>2, <1>5
    DEF StuffDensity, StuffBits, StuffIdle, StuffSkip, Stuffing, LinkInv,
        Returned
<1>6. CASE StuffEnd
  <2>1. k = trace[NMcus].k
      BY <1>6 DEF StuffEnd, LinkInv, SentInv, StepInv, SenderWalk
  <2> QED
      BY <1>1, <1>2, <1>6, <2>1 DEF StuffEnd, LinkInv, Returned, walk
<1>7. CASE Unstuff
  <2>1. /\ UNCHANGED <<density, embedded>>
        /\ pc \in {"unstuff", "unstuffing"}
        /\ pc' \in {"unstuffing", "done"}
      BY <1>7
      DEF Unstuff, UnstuffBegin, UnstuffDensity, UnstuffBits, UnstuffHeader,
          UnstuffIdle, UnstuffSkip, UnstuffEnd, ExtractBits, Unstuffing,
          GoOn, Return
  <2> QED
      BY <1>1, <1>2, <2>1 DEF LinkInv, Returned
<1>8. CASE UNCHANGED vars
    BY <1>2, <1>8 DEF LinkInv, Returned, vars, walk
<1> QED
    BY <1>3, <1>4, <1>5, <1>6, <1>7, <1>8 DEF Next, Stuff

\* The invariant holds initially.
LEMMA LinkInit == Init => LinkInv
BY SentInit, ReturnedInit DEF LinkInv

\* Every step keeps the invariant.
LEMMA LinkNext == LinkInv /\ [Next]_vars => LinkInv'
BY SentNext, ReturnedNext DEF LinkInv

-----------------------------------------------------------------------------
(* What Channels takes from Channel.                                       *)

\* The sender leaves in the channel as many bits as Channel says.
LEMMA LinkStored == LinkInv => StoredAsComputed
<1> SUFFICES ASSUME LinkInv, pc = "unstuff", job.header
             PROVE  /\ ~ C!Overflows(NMcus, job.density, job.len)
                    /\ density = C!StreamDensity(NMcus, job.density, job.len)
                    /\ trace[NMcus].bit \in
                          C!Stored(NMcus, job.seeded, density, job.len)
    BY DEF StoredAsComputed
<1>1. TypeOK /\ ~ TooLong /\ density = Chosen
    BY DEF LinkInv, SentInv, StepInv, TypeInv, Returned
<1>2. ~ C!Overflows(NMcus, job.density, job.len)
    BY <1>1
    DEF C!Overflows, TooLong, C!ImageCapacity, ImageCapacity, C!ImageBits,
        ImageBits, C!StreamBits, StreamBits, nbits, C!HeaderBits, HeaderBits,
        C!Unspecified, Unspecified
<1>3. density = C!StreamDensity(NMcus, job.density, job.len)
    BY <1>1
    DEF Chosen, C!StreamDensity, AutoDensity, C!ImageBits, ImageBits,
        C!StreamBits, StreamBits, nbits, C!HeaderBits, HeaderBits,
        C!Unspecified, Unspecified
<1>4. /\ trace[0].bit = 0 /\ density \in 1 .. 100
      /\ \A i \in 0 .. NMcus - 1 : Filled(i)
    BY DEF LinkInv, SentInv, SenderPack
<1>5. NMcus \in 0 .. NMcus /\ NMcus # 0
    BY SelectionAssumption
<1> DEFINE a == Cardinality(ActiveBefore(NMcus))
<1>6. a \in C!Fillable(NMcus, job.seeded, density)
    BY <1>1, <1>4, ActiveCount
<1>7. trace[NMcus].bit = Lesser(8 + McuBits * a, nbits)
    BY <1>1, <1>4, <1>5, FillingSum DEF Filling
<1>8. Lesser(8 + McuBits * a, nbits) = C!Lesser(nbits, 8 + McuBits * a)
  <2>1. a \in Nat /\ McuBits \in Nat /\ nbits \in Nat
      BY <1>1, <1>4, ActiveCount, FS_CardinalityType, McuBitsType, JobType
      DEF TypeOK
  <2> DEFINE p == McuBits * a
  <2>2. p \in Nat
      BY <2>1
  <2> HIDE DEF p, a
  <2> QED
      BY <2>1, <2>2 DEF Lesser, C!Lesser, p
<1>9. nbits = C!StreamBits(job.len)
    BY DEF nbits, StreamBits, C!StreamBits, HeaderBits, C!HeaderBits
<1>10. trace[NMcus].bit \in C!Stored(NMcus, job.seeded, density, job.len)
    BY <1>6, <1>7, <1>8, <1>9 DEF C!Stored
<1> QED
    BY <1>2, <1>3, <1>10

\* The receiver returns what Channel says, and has the bytes it calls
\* readable.
LEMMA PackFound == PackInv => FoundAsComputed
<1> DEFINE stored == trace[NMcus].bit
           room == Capacity(job.receiver)
<1> SUFFICES ASSUME PackInv, pc = "done", embedded >= 0, job.header, SameKey
             PROVE  /\ extracted = C!Found(NMcus, job.len, stored, room)
                    /\ extracted = job.len =>
                          \A i \in 0 .. job.len - 1 :
                              C!Readable(i, stored, room) => ByteRight(i)
    BY DEF FoundAsComputed
<1>1. TypeOK
    BY DEF PackInv, SentInv, StepInv, TypeInv
<1>2. /\ job.len \in Nat /\ room \in Nat /\ gotBits = 48 + 8 * room
      /\ stored \in Nat
  <2>1. NMcus \in 0 .. NMcus
      BY SelectionAssumption
  <2> QED
      BY <1>1, <2>1, JobType DEF TypeOK, gotBits, StreamBits, HeaderBits
<1>3. /\ extracted = Result(stored)
      /\ job.len > 0 /\ extracted = job.len =>
            \A i \in 0 .. Kept(stored) - 1 : got[i] = i
    BY DEF PackInv, ReadBack, Able
<1>4. extracted = C!Found(NMcus, job.len, stored, room)
    BY <1>3
    DEF Result, C!Found, C!MaxBytes, C!ImageBits, ImageBits, C!HeaderBits,
        HeaderBits, C!JEL_ERR_MSG_OVERFLOW, JEL_ERR_MSG_OVERFLOW
<1>5. ASSUME extracted = job.len, NEW i \in 0 .. job.len - 1,
             C!Readable(i, stored, room),
             NEW b \in HeaderBits + 8 * i .. HeaderBits + 8 * i + 7
      PROVE  got[b] = b
  <2>1. 48 + 8 * (i + 1) <= stored /\ i < room
      BY <1>5 DEF C!Readable, C!StreamBits, C!HeaderBits
  <2>2. b \in 48 + 8 * i .. 48 + 8 * i + 7
      BY <1>5 DEF HeaderBits
  <2> HIDE DEF stored, room
  <2>3. b < stored /\ b < gotBits /\ b \in Nat
      BY <1>2, <1>5, <2>1, <2>2
  <2>4. b \in 0 .. Kept(stored) - 1
      BY <1>2, <2>3 DEF Kept, Lesser
  <2>5. job.len > 0
      BY <1>2, <1>5
  <2> QED
      BY <1>3, <1>5, <2>4, <2>5
<1> QED
    BY <1>4, <1>5 DEF ByteRight

-----------------------------------------------------------------------------
(* Where the ring is left.                                                 *)

\* Remainders add up.
LEMMA ModPlus ==
    ASSUME NEW x \in Nat, NEW b \in Nat, NEW n \in Nat \ {0}
    PROVE  ((x % n) + b) % n = (x + b) % n
<1> DEFINE q == x \div n
           r == x % n
<1>1. q \in Nat /\ r \in 0 .. n - 1 /\ x = n * q + r
    BY DivFacts
<1> HIDE DEF q, r
<1> DEFINE y == r + b
           z == x + b
           s == y % n
           p == y \div n
           t == z \div n
           u == z % n
<1>10. y \in Nat /\ z \in Nat
    BY <1>1
<1> HIDE DEF y, z
<1>11. p \in Nat /\ s \in 0 .. n - 1 /\ y = n * p + s
    BY <1>10, DivFacts
<1>12. t \in Nat /\ u \in 0 .. n - 1 /\ z = n * t + u
    BY <1>10, DivFacts
<1> HIDE DEF s, p, t, u
<1>2. p \in Nat /\ s \in 0 .. n - 1 /\ r + b = n * p + s
    BY <1>11 DEF y
<1>3. t \in Nat /\ u \in 0 .. n - 1 /\ x + b = n * t + u
    BY <1>12 DEF z
<1> DEFINE d == q + p
<1>4. d \in Nat /\ n * d = n * q + n * p
    BY <1>1, <1>2
<1> HIDE DEF d
<1>5. n * d + s = n * t + u
  <2>1. n * q \in Nat /\ n * p \in Nat /\ n * d \in Nat /\ n * t \in Nat
      BY <1>1, <1>2, <1>3, <1>4
  <2> QED
      BY <1>1, <1>2, <1>3, <1>4, <2>1
<1>6. \A a, c \in Nat : a < c => n * a + n <= n * c
  <2> TAKE a, c \in Nat
  <2> HAVE a < c
  <2>1. (a + 1) * n <= c * n
      BY TimesMonotone
  <2> QED
      BY <2>1
<1>7. n * d \in Nat /\ n * t \in Nat
    BY <1>3, <1>4
<1>8. d = t
    BY <1>2, <1>3, <1>4, <1>5, <1>6, <1>7
<1>9. s = u
    BY <1>2, <1>3, <1>5, <1>7, <1>8
<1> QED
    BY <1>9 DEF s, r, u, y, z

\* So do calls of jelprn_next.
LEMMA AdvanceSum ==
    ASSUME NEW r \in 0 .. NList, NEW a \in Nat, NEW b \in Nat
    PROVE  Advance(Advance(r, a), b) = Advance(r, a + b)
<1>1. NList \in Nat \ {0}
    BY SelectionAssumption
<1>2. CASE a = 0 \/ b = 0
    BY <1>2 DEF Advance
<1>3. CASE a # 0 /\ b # 0
  <2> DEFINE x == r + a - 1
             y == x % NList
  <2>1. x \in Nat /\ y \in Nat
      BY <1>1, <1>3
  <2>2. (y + b) % NList = (x + b) % NList
      BY <1>1, <2>1, ModPlus
  <2>3. Advance(r, a) = y + 1 /\ Advance(r, a + b) = ((r + (a + b) - 1) % NList) + 1
      BY <1>1, <1>3 DEF Advance
  <2>4. r + (a + b) - 1 = x + b
      BY <1>1, <1>3
  <2>5. Advance(y + 1, b) = (((y + 1) + b - 1) % NList) + 1
      BY <1>3 DEF Advance
  <2>6. (y + 1) + b - 1 = y + b
      BY <2>1
  <2> HIDE DEF x, y
  <2> QED
      BY <2>2, <2>3, <2>4, <2>5, <2>6
<1> QED
    BY <1>2, <1>3

\* After the sender's walk the ring stands where the selection of the MCUs and
\* the MCUs after the first put it.
LEMMA LinkRing == LinkInv => RingForgets
<1> DEFINE s == SelectIndex(TRUE, 0)
           w == MaxFreqs - 1
<1> SUFFICES ASSUME LinkInv, pc = "unstuff", job.header, job.seeded
             PROVE  k = Advance(s, (NMcus - 1) * w)
    BY DEF RingForgets
<1>1. /\ TypeOK /\ k = trace[NMcus].k
      /\ \A i \in 0 .. NMcus - 1 : Lawful(i)
    BY DEF LinkInv, SentInv, StepInv, TypeInv, SenderWalk, Returned
<1>2. NMcus \in Nat /\ NMcus - 1 \in Nat /\ w \in Nat /\ job.seeded = TRUE /\ NList \in Nat \ {0}
    BY <1>1, JobType, SelectionAssumption DEF TypeOK
<1>3. s \in 0 .. NList
    BY <1>2, SelectionAssumption DEF SelectIndex, Advance
<1>4. \A r : SelectIndex(TRUE, r) = s
    BY DEF SelectIndex
<1> HIDE DEF s, w
<1>5. \A i \in Nat : i * w \in Nat /\ (i + 1) * w = i * w + w
    BY <1>2
<1> DEFINE T == {i \in 0 .. NMcus - 1 : trace[i + 1].k = Advance(s, i * w)}
<1>6. 0 \in T
  <2>1. Lawful(0)
      BY <1>1, <1>2
  <2>2. trace[0 + 1].k = s
      BY <1>2, <1>4, <2>1 DEF Lawful, KAfter
  <2>3. 0 * w = 0 /\ 0 + 1 = 1
      BY <1>2
  <2> QED
      BY <1>2, <2>2, <2>3 DEF Advance
<1>7. ASSUME NEW i \in 0 .. NMcus - 2, i \in T PROVE i + 1 \in T
  <2>1. i + 1 \in 0 .. NMcus - 1 /\ i + 1 # 0 /\ i \in Nat
      BY <1>2, <1>7
  <2>2. trace[(i + 1) + 1].k = Advance(trace[i + 1].k, w)
      BY <1>1, <1>2, <2>1 DEF Lawful, KAfter, w
  <2>3. Advance(Advance(s, i * w), w) = Advance(s, i * w + w)
      BY <1>2, <1>3, <1>5, <2>1, AdvanceSum
  <2> QED
      BY <1>5, <1>7, <2>1, <2>2, <2>3
<1> HIDE DEF T
<1>8. \A i \in 0 .. NMcus - 1 : i \in T
  <2>1. \A i \in 0 .. (NMcus - 1) - 1 : i \in T => i + 1 \in T
      BY <1>2, <1>7
  <2> QED
      BY <1>2, <1>6, <2>1, SegmentInduction
<1>9. NMcus - 1 \in T /\ (NMcus - 1) + 1 = NMcus
    BY <1>2, <1>8
<1> QED
    BY <1>1, <1>9 DEF T

\* What Channels composes is what the walks do: the bits that go in, what the
\* receiver returns and has, and where the ring is left, for every image,
\* density, seed and message, if a byte is a whole number of frequencies.
THEOREM StegWalksAsComputed ==
    ASSUME PacksBytes
    PROVE  Spec => []WalksAsComputed
<1>1. Init => LinkInv /\ PackInv
    BY LinkInit, PackInit
<1>2. LinkInv /\ PackInv /\ [Next]_vars => LinkInv' /\ PackInv'
    BY LinkNext, PackNext
<1>3. LinkInv /\ PackInv => WalksAsComputed
    BY LinkStored, PackFound, LinkRing DEF WalksAsComputed
<1> QED
    BY <1>1, <1>2, <1>3, PTL DEF Spec

-----------------------------------------------------------------------------
(* The capacity.                                                           *)

\* MCU 0 holds 8 bits whatever the packing, and of the MCUs selected one may
\* never be reached: with at most 4 bits in an MCU, or 8, nothing is lost by
\* this.  (With 5, 6, 7 or more than 8, a message within the capacity may be
\* cut.)
HeaderPays == McuBits <= 4 \/ McuBits = 8

\* Whole bytes below a bound in bits.
LEMMA ByteBound ==
    ASSUME NEW n \in Nat, NEW c \in Nat
    PROVE  n <= (c \div 8) - 6 <=> 48 + 8 * n <= c
OBVIOUS

\* The overflow check in bits is the one in bytes.
LEMMA LinkOverflow == LinkInv => OverflowAgrees
<1> SUFFICES ASSUME LinkInv,
                    pc = "unstuff" \/ embedded = JEL_ERR_MSG_OVERFLOW
             PROVE  embedded = JEL_ERR_MSG_OVERFLOW <=>
                       /\ job.density = Unspecified
                       /\ job.len > Capacity(Unspecified)
    BY DEF OverflowAgrees
<1>1. TypeOK /\ job.len \in Nat /\ nbits = 48 + 8 * job.len
    BY JobType
    DEF LinkInv, SentInv, StepInv, TypeInv, TypeOK, nbits, StreamBits,
        HeaderBits
<1>2. Unspecified \in {Unspecified} \cup (1 .. 100)
    OBVIOUS
<1>3. ImageCapacity(Unspecified) \in Nat
    BY <1>2, ImageCapacityType
<1>4. Capacity(Unspecified) = (ImageCapacity(Unspecified) \div 8) - 6
    BY <1>3 DEF Capacity, HeaderBits
<1> DEFINE c == ImageCapacity(Unspecified)
<1>5. c \in Nat /\ Capacity(Unspecified) = (c \div 8) - 6
    BY <1>3, <1>4
<1>6. TooLong <=> job.density = Unspecified /\ 48 + 8 * job.len > c
    BY <1>1 DEF TooLong
<1> HIDE DEF c
<1>7. job.len <= (c \div 8) - 6 <=> 48 + 8 * job.len <= c
    BY <1>1, <1>5, ByteBound
<1>8. (c \div 8) - 6 \in Int
    BY <1>5
<1>9. TooLong <=> job.density = Unspecified /\ job.len > Capacity(Unspecified)
    BY <1>1, <1>5, <1>6, <1>7, <1>8
<1>10. embedded = JEL_ERR_MSG_OVERFLOW <=> TooLong
  <2>1. CASE pc = "unstuff"
      BY <1>1, <2>1 DEF LinkInv, Returned, JEL_ERR_MSG_OVERFLOW
  <2>2. CASE pc # "unstuff"
    <3>1. embedded = -10
        BY <2>2 DEF JEL_ERR_MSG_OVERFLOW
    <3>2. pc = "done"
        BY <1>1, <2>2, <3>1
        DEF LinkInv, Returned, NotYet, TypeOK
    <3> QED
        BY <3>1, <3>2 DEF LinkInv, Returned, JEL_ERR_MSG_OVERFLOW
  <2> QED
      BY <2>1, <2>2
<1> QED
    BY <1>9, <1>10

\* The density computed from a message is enough for it.
LEMMA AutoEnough ==
    ASSUME TypeOK, ~ TooLong, density = Chosen, job.density = Unspecified
    PROVE  100 * nbits <= density * ImageBits
<1>1. nbits \in Nat /\ nbits > 0 /\ ImageBits \in Nat \ {0}
    BY JobType, McuBitsType DEF TypeOK, HeaderBits
<1>2. nbits <= ImageBits
    BY <1>1, ImageCapacityType DEF TooLong
<1> DEFINE a == 100 * nbits + ImageBits - 1
           c == a \div ImageBits
<1>3. density = IF c < 100 THEN c + 1 ELSE c
    BY DEF Chosen, AutoDensity
<1>4. a \in Nat /\ 100 * nbits = a + 1 - ImageBits
    BY <1>1
<1> HIDE DEF a
<1> DEFINE r == a % ImageBits
           p == ImageBits * c
<1>5. /\ c \in Nat /\ r \in 0 .. ImageBits - 1
      /\ a = ImageBits * c + r
    BY <1>1, <1>4, DivFacts
<1> HIDE DEF c, r
<1>6. p \in Nat /\ p = c * ImageBits /\ (c + 1) * ImageBits = p + ImageBits
    BY <1>1, <1>5
<1>7. a = p + r
    BY <1>5
<1> HIDE DEF p
<1>8. 100 * nbits <= p
    BY <1>1, <1>4, <1>5, <1>6, <1>7
<1>9. CASE c < 100
  <2>1. density * ImageBits = p + ImageBits
      BY <1>3, <1>6, <1>9
  <2> QED
      BY <1>1, <1>2, <1>6, <1>8, <2>1
<1>10. CASE ~ c < 100
  <2>1. density * ImageBits = p
      BY <1>3, <1>6, <1>10
  <2> QED
      BY <1>2, <1>8, <2>1
<1> QED
    BY <1>9, <1>10

\* The density is enough for a message within the capacity.
LEMMA DensityEnough ==
    ASSUME TypeOK, ~ TooLong, density = Chosen, density \in 1 .. 100,
           job.len <= Capacity(job.density)
    PROVE  /\ 100 * nbits <= density * ImageBits
           /\ nbits <= ImageBits
<1>1. /\ job.len \in Nat /\ nbits = 48 + 8 * job.len
      /\ job.density \in {Unspecified} \cup (1 .. 100)
      /\ ImageBits \in Nat \ {0}
    BY JobType, McuBitsType DEF TypeOK, nbits, StreamBits, HeaderBits
<1>2. ImageCapacity(job.density) \in Nat
      /\ ImageCapacity(job.density) <= ImageBits
    BY <1>1, ImageCapacityType
<1>3. nbits <= ImageCapacity(job.density)
  <2> DEFINE c == ImageCapacity(job.density)
  <2>1. c \in Nat /\ job.len <= (c \div 8) - 6
      BY <1>2 DEF Capacity, HeaderBits
  <2> HIDE DEF c
  <2>2. 48 + 8 * job.len <= c
      BY <1>1, <2>1, ByteBound
  <2> QED
      BY <1>1, <2>2 DEF c
<1>4. nbits <= ImageBits
    BY <1>1, <1>2, <1>3
<1>5. CASE job.density \in 1 .. 99
  <2> DEFINE p == density * ImageBits
  <2>1. density = job.density
      BY <1>5 DEF Chosen, Unspecified
  <2>2. p \in Nat /\ nbits <= p \div 100
      BY <1>1, <1>3, <1>5, <2>1 DEF ImageCapacity
  <2> HIDE DEF p
  <2>3. 100 * nbits <= p
      BY <1>1, <2>2
  <2> QED
      BY <1>4, <2>3 DEF p
<1>6. CASE job.density = 100
  <2>1. density = 100
      BY <1>6 DEF Chosen, Unspecified
  <2> QED
      BY <1>1, <1>4, <2>1
<1>7. CASE job.density = Unspecified
    BY <1>4, <1>7, AutoEnough
<1> QED
    BY <1>1, <1>4, <1>5, <1>6, <1>7

\* A message within the capacity is in the image as a whole.
LEMMA LinkFits == HeaderPays /\ LinkInv => FitsCapacity
<1> SUFFICES ASSUME HeaderPays, LinkInv, pc = "unstuff",
                    job.len <= Capacity(job.density)
             PROVE  trace[NMcus].bit = nbits
    BY DEF FitsCapacity, Placed
<1>1. TypeOK /\ ~ TooLong /\ density = Chosen
    BY DEF LinkInv, SentInv, StepInv, TypeInv, Returned
<1>2. /\ trace[0].bit = 0 /\ density \in 1 .. 100
      /\ \A i \in 0 .. NMcus - 1 : Filled(i)
    BY DEF LinkInv, SentInv, SenderPack
<1>3. /\ NMcus \in Nat \ {0} /\ NMcus \in 0 .. NMcus
      /\ McuBits \in Nat \ {0} /\ job.len \in Nat
      /\ nbits = 48 + 8 * job.len /\ nbits \in Nat
    BY <1>1, JobType, SelectionAssumption, McuBitsType
    DEF TypeOK, nbits, StreamBits, HeaderBits
<1>4. 100 * nbits <= density * ImageBits /\ nbits <= ImageBits
    BY <1>1, <1>2, DensityEnough
<1>5. trace[NMcus].bit = Lesser(Filling(NMcus), nbits)
    BY <1>1, <1>2, <1>3, FillingSum
<1>6. CASE ~ job.header
  <2>1. Filling(NMcus) = ImageBits
      BY <1>3, <1>6 DEF Filling, ImageBits
  <2> QED
      BY <1>3, <1>4, <1>5, <2>1, McuBitsType DEF Lesser
<1>7. CASE job.header
  <2> DEFINE c == Cardinality(ActiveBefore(NMcus))
             e == density * NMcus
             a == e \div 100
             r == e % 100
  <2>1. c \in C!Fillable(NMcus, job.seeded, density)
        /\ IsFiniteSet(ActiveBefore(NMcus))
      BY <1>1, <1>2, <1>7, ActiveCount
  <2>2. e \in Nat /\ e <= 100 * NMcus
      BY <1>2, <1>3, TimesMonotone
  <2>3. C!Fillable(NMcus, job.seeded, density) =
            LET active == C!Greater(a, 1)
            IN  IF ~ job.seeded \/ active >= NMcus THEN {NMcus - 1}
                ELSE IF active = 1 THEN {1}
                ELSE {active - 1, active}
      BY DEF C!Fillable
  <2>4. density * ImageBits = McuBits * e
    <3>1. density * (McuBits * NMcus) = McuBits * (density * NMcus)
        BY <1>2, <1>3
    <3> QED
        BY <3>1 DEF ImageBits
  <2>5. c \in Nat
      BY <2>1, FS_CardinalityType
  <2> HIDE DEF c, e
  <2>6. a \in Nat /\ r \in 0 .. 99 /\ e = 100 * a + r /\ a <= NMcus
      BY <1>3, <2>2
  <2> HIDE DEF a, r
  <2>7. c >= a - 1
      BY <1>3, <2>1, <2>3, <2>5, <2>6 DEF C!Greater
  <2> DEFINE p == McuBits * a
             q == McuBits * c
             s == McuBits * r
  <2>8. /\ p \in Nat /\ q \in Nat /\ s \in Nat
        /\ q >= p - McuBits
        /\ McuBits * e = 100 * p + s
    <3>1. McuBits * (100 * a + r) = 100 * (McuBits * a) + McuBits * r
        BY <1>3, <2>6
    <3>2. a * McuBits <= (c + 1) * McuBits
        BY <1>3, <2>5, <2>6, <2>7, TimesMonotone
    <3>3. (c + 1) * McuBits = McuBits * c + McuBits /\ a * McuBits = McuBits * a
        BY <1>3, <2>5, <2>6
    <3>4. p \in Nat /\ q \in Nat /\ s \in Nat
        BY <1>3, <2>5, <2>6
    <3> HIDE DEF p, q, s
    <3>5. a * McuBits = p /\ (c + 1) * McuBits = q + McuBits
        BY <3>3 DEF p, q
    <3>6. McuBits * e = 100 * p + s
        BY <2>6, <3>1 DEF p, s
    <3> QED
        BY <1>3, <3>2, <3>4, <3>5, <3>6
  <2>9. nbits <= 8 + q
    <3>1. CASE McuBits <= 4
      <4>1. McuBits \in {1, 2, 3, 4}
          BY <1>3, <3>1
      <4>2. s <= 4 * 99
          BY <2>6, <4>1
      <4> HIDE DEF p, q, s
      <4>3. 100 * nbits <= 100 * p + 396
          BY <1>3, <1>4, <2>4, <2>8, <4>2
      <4> QED
          BY <1>3, <2>8, <3>1, <4>3
    <3>2. CASE McuBits = 8
      <4>1. s <= 8 * 99 /\ p = 8 * a
          BY <2>6, <3>2
      <4> HIDE DEF p, q, s
      <4>2. 100 * nbits <= 100 * p + 792
          BY <1>3, <1>4, <2>4, <2>8, <4>1
      <4>3. nbits <= p + 7
          BY <1>3, <2>8, <4>2
      <4> QED
          BY <1>3, <2>6, <2>8, <3>2, <4>1, <4>3
    <3> QED
        BY <3>1, <3>2 DEF HeaderPays
  <2>10. Filling(NMcus) = 8 + q
      BY <1>3, <1>7 DEF Filling, c
  <2> HIDE DEF q
  <2> QED
      BY <1>3, <1>5, <2>8, <2>9, <2>10 DEF Lesser
<1> QED
    BY <1>6, <1>7

\* What jel_capacity promises and what ijel_stuff_message accepts and stores
\* agree, for every image size, density, selection of MCUs and message.
THEOREM StegCapacityKept ==
    ASSUME HeaderPays
    PROVE  Spec => []CapacityKept
<1>1. Init => LinkInv
    BY LinkInit
<1>2. LinkInv /\ [Next]_vars => LinkInv'
    BY LinkNext
<1>3. LinkInv => CapacityKept
    BY LinkFits, LinkOverflow DEF CapacityKept
<1> QED
    BY <1>1, <1>2, <1>3, PTL DEF Spec

-----------------------------------------------------------------------------
(* The MCUs that are modified.                                             *)

\* With a header an MCU is modified only if it is the first, or follows one
\* that is selected.
Modified ==
    /\ pc = "stuff" => density = Unspecified /\ Touched = {}
    /\ density # Unspecified =>
          /\ ~ TooLong /\ density = Chosen
          /\ job.header => \A x \in Touched : x = 0 \/ ActiveFlags[x - 1]

TouchInv == LinkInv /\ Modified

\* No MCU is modified initially.
LEMMA ModifiedInit == Init => Modified
BY DEF Init, Modified, Touched

\* The MCUs modified after a step that writes to MCU m at most.
LEMMA TouchedStep ==
    ASSUME \A x \in Mcus : x # m => coef'[x] = coef[x]
    PROVE  \A x \in Touched' : x \in Touched \/ x = m
BY DEF Touched

\* An MCU is written to only where the density says.
LEMMA ModifiedStuffing ==
    ASSUME TouchInv, StuffDensity \/ StuffBits \/ StuffIdle \/ StuffSkip
    PROVE  Modified'
<1>1. /\ m \in Mcus /\ pc = "stuffing" /\ pc' = "stuffing"
      /\ UNCHANGED <<job, density>> /\ TypeOK
    BY StuffingType
    DEF TouchInv, LinkInv, SentInv, StepInv, TypeInv, StuffDensity, StuffBits,
        StuffIdle, StuffSkip, Stuffing
<1>2. UNCHANGED <<ActiveFlags, TooLong, Chosen>>
    BY <1>1, PackFrame, ChosenFrame
<1>3. density # Unspecified /\ ~ TooLong /\ density = Chosen
    BY <1>1
    DEF TouchInv, LinkInv, SentInv, SenderPack, Returned, Unspecified
<1>4. job.header => \A x \in Touched : x = 0 \/ ActiveFlags[x - 1]
    BY <1>3 DEF TouchInv, Modified
<1>5. /\ job.header => \A x \in Touched' : x = 0 \/ ActiveFlags[x - 1]
  <2> SUFFICES ASSUME job.header, NEW x \in Touched'
               PROVE  x = 0 \/ ActiveFlags[x - 1]
      OBVIOUS
  <2>1. CASE StuffIdle \/ StuffSkip
    <3>1. x \in Touched
        BY <2>1 DEF StuffIdle, StuffSkip, Touched
    <3> QED
        BY <1>4, <3>1
  <2>2. CASE StuffDensity \/ StuffBits
    <3>1. \A y \in Mcus : y # m => coef'[y] = coef[y]
        BY <1>1, <2>2 DEF StuffDensity, StuffBits, Insert, TypeOK
    <3>2. x \in Touched \/ x = m
        BY <3>1, TouchedStep
    <3>3. m = 0 \/ ActiveFlags[m - 1]
      <4>1. CASE StuffDensity
          BY <4>1 DEF StuffDensity, AtDensity
      <4>2. CASE StuffBits
        <5>1. /\ flag[idx] /\ ~ AtDensity /\ count < nbits /\ m # 0
              /\ m \in Nat
            BY <1>1, <4>2, SelectionAssumption
            DEF StuffBits, AtDensity, Mcus
        <5>2. count = bit /\ flag = ActiveFlags
            BY <1>1, <5>1
            DEF TouchInv, LinkInv, SentInv, StepInv, TypeInv, Counted,
                SenderPack, FlagsReady
        <5>3. idx = m - 1
            BY <1>1, <5>1, <5>2
            DEF TouchInv, LinkInv, SentInv, SenderPack, FlagIndex
        <5> QED
            BY <5>1, <5>2, <5>3
      <4> QED
          BY <2>2, <4>1, <4>2
    <3> QED
        BY <1>4, <3>2, <3>3
  <2> QED
      BY <2>1, <2>2
<1> QED
    BY <1>1, <1>2, <1>3, <1>5 DEF Modified

\* Every step keeps to the MCUs the density says.
LEMMA ModifiedNext == TouchInv /\ [Next]_vars => Modified'
<1> SUFFICES ASSUME TouchInv, [Next]_vars PROVE Modified'
    OBVIOUS
<1>1. CASE StuffDensity \/ StuffBits \/ StuffIdle \/ StuffSkip
    BY <1>1, ModifiedStuffing
<1>2. CASE StuffBegin
  <2>1. /\ Touched = {} /\ UNCHANGED <<job, coef>> /\ pc' = "stuffing"
        /\ ~ TooLong /\ density' = Chosen
      BY <1>2 DEF StuffBegin, TouchInv, Modified, Chosen, nbits
  <2>2. Touched' = {} /\ UNCHANGED <<TooLong, Chosen>>
      BY <2>1, ChosenFrame DEF Touched
  <2> QED
      BY <2>1, <2>2 DEF Modified
<1>3. CASE StuffOverflow \/ StuffEnd \/ Unstuff \/ UNCHANGED vars
  <2>1. /\ UNCHANGED <<job, density, coef>>
        /\ pc' = "stuff" => pc = "stuff"
      BY <1>3
      DEF StuffOverflow, StuffEnd, Unstuff, UnstuffBegin, UnstuffDensity,
          UnstuffBits, UnstuffHeader, UnstuffIdle, UnstuffSkip, UnstuffEnd,
          ExtractBits, Unstuffing, GoOn, Return, vars
  <2>2. UNCHANGED <<Touched, ActiveFlags, TooLong, Chosen>>
      BY <2>1, PackFrame, ChosenFrame DEF Touched
  <2> QED
      BY <2>1, <2>2 DEF TouchInv, Modified
<1> QED
    BY <1>1, <1>2, <1>3 DEF Next, Stuff

\* A stream has at least 48 bits: the density gives it more than one MCU if
\* an MCU has fewer than them.
LEMMA ActiveSome ==
    ASSUME McuBits <= 48, TypeOK, density \in 1 .. 100, ~ TooLong,
           density = Chosen
    PROVE  ActiveMcus(density) \in Nat /\ ActiveMcus(density) >= 1
<1>1. /\ job.density \in {Unspecified} \cup (1 .. 100)
      /\ Capacity(job.density) >= 0
      /\ McuBits \in Nat \ {0} /\ NMcus \in Nat \ {0} /\ ImageBits \in Nat
    BY JobType, McuBitsType, SelectionAssumption DEF TypeOK, Jobs
<1>2. 100 * 48 <= density * ImageBits
  <2>1. CASE job.density = Unspecified
    <3>1. density * ImageBits \in Nat
        BY <1>1
    <3>2. 48 <= nbits /\ nbits \in Nat
        BY JobType DEF TypeOK, HeaderBits
    <3>3. 100 * nbits <= density * ImageBits
        BY <2>1, AutoEnough
    <3> DEFINE p == density * ImageBits
    <3> HIDE DEF p
    <3>4. 100 * 48 <= p
        BY <3>1, <3>2, <3>3 DEF p
    <3> QED
        BY <3>4 DEF p
  <2>2. CASE job.density \in 1 .. 100
    <3>1. density = job.density
        BY <2>2 DEF Chosen, Unspecified
    <3>2. ImageCapacity(density) \in Nat
        BY <1>1, <2>2, <3>1, ImageCapacityType
    <3>3. 48 <= ImageCapacity(density)
        BY <1>1, <3>1, <3>2 DEF Capacity, HeaderBits
    <3> DEFINE p == density * ImageBits
    <3>4. p \in Nat
        BY <1>1
    <3>5. density = 100 => p = 100 * ImageBits
        OBVIOUS
    <3>6. ImageCapacity(density) = IF density < 100 THEN p \div 100
                                                    ELSE ImageBits
        BY DEF ImageCapacity
    <3> HIDE DEF p
    <3>7. 100 * 48 <= p
        BY <1>1, <3>2, <3>3, <3>4, <3>5, <3>6
    <3> QED
        BY <3>7 DEF p
  <2> QED
      BY <1>1, <2>1, <2>2
<1> DEFINE e == density * NMcus
<1>3. e \in Nat /\ density * ImageBits = e * McuBits
  <2>1. density * (McuBits * NMcus) = (density * NMcus) * McuBits
      BY <1>1
  <2> QED
      BY <1>1, <2>1 DEF ImageBits
<1> HIDE DEF e
<1>4. e * McuBits <= e * 48
  <2>1. McuBits * e <= 48 * e
      BY <1>1, <1>3, TimesMonotone
  <2>2. e * McuBits = McuBits * e /\ e * 48 = 48 * e
      BY <1>1, <1>3
  <2> QED
      BY <2>1, <2>2
<1>5. e >= 100
  <2>1. e * McuBits \in Nat
      BY <1>1, <1>3
  <2> QED
      BY <1>2, <1>3, <1>4, <2>1
<1> QED
    BY <1>3, <1>5 DEF ActiveMcus, e

\* The MCUs modified are no more than the density asks for, and the first.
LEMMA TouchBound == McuBits <= 48 /\ TouchInv => DensityBound
<1> SUFFICES ASSUME McuBits <= 48, TouchInv, job.seeded, job.header,
                    density # Unspecified
             PROVE  Cardinality(Touched) <= ActiveMcus(density) + 1
    BY DEF DensityBound
<1>1. TypeOK /\ ~ TooLong /\ density = Chosen /\ density \in 1 .. 100
      /\ \A x \in Touched : x = 0 \/ ActiveFlags[x - 1]
    BY DEF TouchInv, Modified, LinkInv, SentInv, StepInv, TypeInv, TypeOK
<1> DEFINE a == ActiveMcus(density)
           B == ActiveBefore(NMcus)
           next == [x \in B |-> x + 1]
           A == {next[x] : x \in B}
<1>2. a \in Nat /\ a >= 1
    BY <1>1, ActiveSome
<1>3. IsFiniteSet(B) /\ Cardinality(B) <= a
  <2>1. IsFiniteSet(B) /\ Cardinality(B) <= Greater(a, 1)
      BY <1>1, ActiveCount
  <2> HIDE DEF a, B
  <2> QED
      BY <1>2, <2>1 DEF Greater
<1>4. B \subseteq Nat
    BY DEF ActiveBefore
<1>5. Touched \subseteq A \cup {0}
  <2> SUFFICES ASSUME NEW x \in Touched, x # 0 PROVE x \in A
      OBVIOUS
  <2>1. x \in 1 .. NMcus - 1 /\ ActiveFlags[x - 1]
      BY <1>1, SelectionAssumption DEF Touched, Mcus
  <2>2. x - 1 \in B /\ (x - 1) + 1 = x
      BY <2>1, SelectionAssumption DEF ActiveBefore
  <2> QED
      BY <2>2
<1> HIDE DEF a, B
<1>6. IsFiniteSet(A) /\ Cardinality(A) <= Cardinality(B)
  <2>1. next \in [B -> A] /\ \A y \in A : \E x \in B : next[x] = y
      OBVIOUS
  <2> HIDE DEF next, A
  <2>2. next \in Surjection(B, A)
      BY <2>1, Fun_IsSurj
  <2> QED
      BY <1>3, <2>2, FS_Surjection
<1> HIDE DEF next, A
<1>7. /\ IsFiniteSet(A \cup {0})
      /\ Cardinality(A \cup {0}) <= Cardinality(A) + 1
  <2>1. /\ IsFiniteSet(A \cup {0})
        /\ Cardinality(A \cup {0}) = Cardinality(A)
           \/ Cardinality(A \cup {0}) = Cardinality(A) + 1
      BY <1>6, FS_AddElement
  <2>2. Cardinality(A) \in Nat
      BY <1>6, FS_CardinalityType
  <2> QED
      BY <2>1, <2>2
<1>8. Cardinality(Touched) <= Cardinality(A \cup {0})
    BY <1>5, <1>7, FS_Subset
<1>9. /\ Cardinality(Touched) \in Nat /\ Cardinality(A) \in Nat
      /\ Cardinality(B) \in Nat /\ Cardinality(A \cup {0}) \in Nat
    BY <1>3, <1>5, <1>6, <1>7, FS_CardinalityType, FS_Subset
<1> QED
    BY <1>2, <1>3, <1>6, <1>7, <1>8, <1>9 DEF a

\* With a seed no more MCUs are modified than the density asks for, besides
\* the first, for every image, ring and message, if an MCU has no more bits
\* than a header.
THEOREM StegDensityBound ==
    ASSUME McuBits <= 48
    PROVE  Spec => []DensityBound
<1>1. Init => TouchInv
    BY LinkInit, ModifiedInit DEF TouchInv
<1>2. TouchInv /\ [Next]_vars => TouchInv'
    BY LinkNext, ModifiedNext DEF TouchInv
<1>3. TouchInv => DensityBound
    BY TouchBound
<1> QED
    BY <1>1, <1>2, <1>3, PTL DEF Spec

-----------------------------------------------------------------------------
(* The promise.                                                            *)

\* The parts of the refinement mapping.
Phase ==
    CASE Sending -> "sending"
      [] pc \in {"unstuff", "unstuffing"} -> "hidden"
      [] pc = "done" /\ embedded < 0 -> "refused"
      [] OTHER -> "found"
Entire == ~ Sending /\ Placed
Correct ==
    /\ pc = "done"
    /\ extracted = job.len
    /\ job.len <= Capacity(job.receiver)
    /\ Delivered(job.len)

\* What the invariants say where an exchange changes its phase.
PromiseInv == LinkInv /\ PackInv

\* Everything the promise speaks of is still to come.
LEMMA PromiseInit == Init => L!Init
<1> SUFFICES ASSUME Init PROVE L!Init
    OBVIOUS
<1>1. pc = "stuff" /\ Sending
    BY DEF Init, Sending
<1>2. job.len \in Nat /\ Capacity(job.density) \in Nat
  <2>1. job \in Jobs
      BY DEF Init
  <2>2. Capacity(job.density) >= 0 /\ Capacity(job.density) \in Int
      BY <2>1, JobType, CapacityType DEF Jobs
  <2> QED
      BY <2>1, <2>2, JobType
<1>3. Phase = "sending"
    BY <1>1 DEF Phase
<1>4. ~ Entire /\ ~ Correct
    BY <1>1 DEF Entire, Correct
<1> QED
    BY <1>2, <1>3, <1>4 DEF L!Init, Phase, Entire, Correct

\* The job fixes what is sent, what there is room for, and who can read it.
LEMMA PromiseFrame ==
    ASSUME UNCHANGED job
    PROVE  UNCHANGED <<job.len, Capacity(job.density),
                       SameKey /\ job.len <= Capacity(job.receiver)>>
BY DEF Capacity, ImageCapacity, SameKey

\* While the message is being put into the image nothing is promised yet.
LEMMA PromiseSending ==
    ASSUME LinkInv, [Next]_vars, Sending, Sending'
    PROVE  UNCHANGED L!vars
<1>1. UNCHANGED job
    BY JobFrame
<1>2. Phase = "sending" /\ Phase' = "sending"
    BY DEF Phase, Sending
<1>3. ~ Entire /\ ~ Correct /\ ~ Entire' /\ ~ Correct'
    BY DEF Entire, Correct, Sending
<1> QED
    BY <1>1, <1>2, <1>3, PromiseFrame DEF L!vars, Phase, Entire, Correct

\* A message is refused only if it is longer than the capacity.
LEMMA PromiseRefuse ==
    ASSUME LinkInv, LinkInv', StuffOverflow
    PROVE  L!Refuse
<1>1. /\ pc = "stuff" /\ pc' = "done" /\ TooLong
      /\ embedded' = JEL_ERR_MSG_OVERFLOW
      /\ UNCHANGED <<job, extracted, trace>>
    BY DEF StuffOverflow
<1>2. Phase = "sending" /\ Phase' = "refused"
    BY <1>1 DEF Phase, Sending, JEL_ERR_MSG_OVERFLOW
<1>3. job.len > Capacity(job.density)
  <2>1. OverflowAgrees'
      BY LinkOverflow, PTL
  <2>2. Capacity(Unspecified)' = Capacity(Unspecified)
      BY DEF Capacity, ImageCapacity
  <2> QED
      BY <1>1, <2>1, <2>2 DEF OverflowAgrees
<1>4. ~ Entire /\ ~ Correct
    BY <1>1 DEF Entire, Correct, Sending
<1>5. ~ Entire'
  <2>1. trace[NMcus].bit = 0 /\ nbits > 0
      BY <1>1, JobType, SMTT(30)
      DEF LinkInv, Returned, SentInv, StepInv, TypeInv, TypeOK, HeaderBits
  <2> QED
      BY <1>1, <2>1 DEF Entire, Placed, nbits
<1>6. ~ Correct'
  <2>1. extracted = NotYet /\ job.len \in Nat
      BY <1>1, JobType
      DEF LinkInv, SentInv, StepInv, SenderWalk, TypeInv, TypeOK
  <2> QED
      BY <1>1, <2>1 DEF Correct, NotYet
<1> QED
    BY <1>1, <1>2, <1>3, <1>4, <1>5, <1>6, PromiseFrame
    DEF L!Refuse, Phase, Entire, Correct

\* A message within the capacity is hidden whole.
LEMMA PromiseHide ==
    ASSUME HeaderPays, LinkInv', StuffEnd
    PROVE  L!Hide
<1>1. pc = "stuffing" /\ pc' = "unstuff" /\ UNCHANGED job
    BY DEF StuffEnd
<1>2. Phase = "sending" /\ Phase' = "hidden"
    BY <1>1 DEF Phase, Sending
<1>3. Entire' \in BOOLEAN
    BY DEF Entire
<1>4. job.len <= Capacity(job.density) => Entire'
  <2>1. FitsCapacity'
      BY LinkFits, PTL
  <2>2. UNCHANGED <<job.len, Capacity(job.density)>>
      BY <1>1, PromiseFrame
  <2> QED
      BY <1>1, <2>1, <2>2 DEF FitsCapacity, Entire, Sending
<1>5. ~ Correct /\ ~ Correct'
    BY <1>1 DEF Correct
<1> QED
    BY <1>1, <1>2, <1>3, <1>4, <1>5, PromiseFrame
    DEF L!Hide, Phase, Entire, Correct

\* A receiver that is able finds what was hidden whole.
LEMMA PromiseFind ==
    ASSUME LinkInv, PackInv', Unstuff
    PROVE  L!Find \/ UNCHANGED L!vars
<1>1. /\ UNCHANGED <<job, embedded, trace>>
      /\ pc \in {"unstuff", "unstuffing"}
      /\ pc' \in {"unstuffing", "done"}
    BY DEF Unstuff, UnstuffBegin, UnstuffDensity, UnstuffBits, UnstuffHeader,
           UnstuffIdle, UnstuffSkip, UnstuffEnd, ExtractBits, Unstuffing,
           GoOn, Return
<1>2. Phase = "hidden" /\ ~ Correct
    BY <1>1 DEF Phase, Sending, Correct
<1>3. Entire' = Entire
    BY <1>1 DEF Entire, Sending, Placed, nbits
<1>4. CASE pc' = "unstuffing"
  <2>1. Phase' = "hidden" /\ ~ Correct'
      BY <1>4 DEF Phase, Sending, Correct
  <2> QED
      BY <1>1, <1>2, <1>3, <2>1, PromiseFrame
      DEF L!vars, Phase, Entire, Correct
<1>5. CASE pc' = "done"
  <2>1. embedded' \in Nat
      BY <1>1, JobType
      DEF LinkInv, Returned, SentInv, StepInv, TypeInv, TypeOK
  <2>2. Phase' = "found"
      BY <1>5, <2>1 DEF Phase, Sending
  <2>3. Correct' \in BOOLEAN
      BY DEF Correct
  <2>4. (SameKey /\ job.len <= Capacity(job.receiver)) /\ Entire => Correct'
    <3>1. RoundTrip'
        BY PackRoundTrip, PTL
    <3>2. SameKey' = SameKey /\ Capacity(job.receiver)' = Capacity(job.receiver)
        BY <1>1, CapacityFrame DEF SameKey
    <3> QED
        BY <1>1, <1>3, <1>5, <2>1, <3>1, <3>2 DEF RoundTrip, Entire, Correct
  <2> QED
      BY <1>1, <1>2, <1>3, <2>2, <2>3, <2>4, PromiseFrame
      DEF L!Find, Phase, Entire, Correct
<1> QED
    BY <1>1, <1>4, <1>5

\* Every step of the walks is a step of the promise, or changes nothing of it.
LEMMA PromiseNext ==
    ASSUME HeaderPays, PromiseInv, PromiseInv', [Next]_vars
    PROVE  [L!Next]_L!vars
<1>1. CASE StuffOverflow
    BY <1>1, PromiseRefuse DEF PromiseInv, L!Next
<1>2. CASE StuffBegin \/ StuffDensity \/ StuffBits \/ StuffIdle \/ StuffSkip
  <2>1. Sending /\ Sending'
      BY <1>2
      DEF StuffBegin, StuffDensity, StuffBits, StuffIdle, StuffSkip, Stuffing,
          Sending
  <2> QED
      BY <2>1, PromiseSending DEF PromiseInv
<1>3. CASE StuffEnd
    BY <1>3, PromiseHide DEF PromiseInv, L!Next
<1>4. CASE Unstuff
    BY <1>4, PromiseFind DEF PromiseInv, L!Next
<1>5. CASE UNCHANGED vars
  <2>1. UNCHANGED <<Phase, Entire, Correct>>
      BY <1>5, CapacityFrame
      DEF vars, Phase, Entire, Correct, Sending, Placed, nbits, Delivered
  <2> QED
      BY <1>5, <2>1, PromiseFrame DEF vars, L!vars, Phase, Entire, Correct
<1> QED
    BY <1>1, <1>2, <1>3, <1>4, <1>5 DEF Next, Stuff

\* Seen as one exchange the two walks implement what jel.h promises, for
\* every image, seed, density and message.
THEOREM StegKeepsPromise ==
    ASSUME PacksBytes, HeaderPays
    PROVE  Spec => KeepsPromise
<1>1. Init => PromiseInv
    BY LinkInit, PackInit DEF PromiseInv
<1>2. PromiseInv /\ [Next]_vars => PromiseInv'
    BY LinkNext, PackNext DEF PromiseInv
<1>3. PromiseInv /\ PromiseInv' /\ [Next]_vars => [L!Next]_L!vars
    BY PromiseNext
<1>4. Init => L!Init
    BY PromiseInit
<1> QED
    BY <1>1, <1>2, <1>3, <1>4, PTL DEF Spec, L!Spec, KeepsPromise
=============================================================================
