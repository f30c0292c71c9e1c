--------------------------- MODULE PrnCache_proofs --------------------------
(***************************************************************************)
(* The rings of PrnCache for every set of ring sizes and any number of     *)
(* images: both sides fill equal rings, no PRN is used for two images, and *)
(* a ring is gone round as Steg says.                                      *)
(***************************************************************************)
EXTENDS PrnCache, SequenceTheorems, WellFoundedInduction, TLAPS

-----------------------------------------------------------------------------
(* Induction over an initial segment of the naturals, as a fact about      *)
(* sets: the theorems of the library take an operator as parameter.        *)

\* A set that contains 0, and with each number the next, contains them all.
LEMMA SegmentInduction ==
    ASSUME NEW n \in Nat, NEW T,
           0 \in T,
           \A i \in 0 .. n - 1 : i \in T => i + 1 \in T
    PROVE  \A i \in 0 .. n : i \in T
<1> DEFINE Rest == {i \in 0 .. n : i \notin T}
           Less == {s \in Nat \X Nat : s[1] < s[2]}
<1> SUFFICES ASSUME Rest # {} PROVE FALSE
    OBVIOUS
<1>1. IsWellFoundedOn(Less, Nat)
    BY NatLessThanWellFounded, Zenon DEF OpToRel
<1>2. Rest \subseteq Nat
    OBVIOUS
<1> HIDE DEF Rest, Less
<1>3. PICK x \in Rest : \A y \in Rest : ~ (<<y, x>> \in Less)
    BY <1>1, <1>2, WFMin
<1>4. x \in 0 .. n /\ x \notin T /\ x # 0
    BY DEF Rest
<1>5. x - 1 \in 0 .. n - 1 /\ x - 1 \in Nat /\ x \in Nat
    BY <1>4
<1>6. x - 1 \notin T
    BY <1>4, <1>5
<1>7. x - 1 \in Rest
    BY <1>5, <1>6 DEF Rest
<1>8. <<x - 1, x>> \in Less
    BY <1>5 DEF Less
<1> QED
    BY <1>3, <1>7, <1>8

\* p[i] is the sum of the first i entries of f: how far the generator has gone
\* when rings of these sizes have been filled.
Sums(p, f) ==
    /\ p \in [0 .. Len(f) -> Nat]
    /\ p[0] = 0
    /\ \A i \in 1 .. Len(f) : p[i] = p[i - 1] + f[i]

\* Sums of a sequence and of one it begins.
LEMMA SumsPrefix ==
    ASSUME NEW f \in Seq(Nat), NEW g \in Seq(Nat), Len(f) <= Len(g),
           \A i \in 1 .. Len(f) : f[i] = g[i],
           NEW p, Sums(p, f), NEW q, Sums(q, g)
    PROVE  \A i \in 0 .. Len(f) : p[i] = q[i]
<1> DEFINE T == {i \in 0 .. Len(f) : p[i] = q[i]}
<1>1. 0 \in T
  BY DEF Sums
<1>2. ASSUME NEW i \in 0 .. Len(f) - 1, i \in T
      PROVE  i + 1 \in T
  <2>1. i + 1 \in 1 .. Len(f) /\ i + 1 \in 1 .. Len(g) /\ (i + 1) - 1 = i
    BY <1>2
  <2>2. p[i + 1] = p[i] + f[i + 1]
    BY <2>1 DEF Sums
  <2>3. q[i + 1] = q[i] + g[i + 1]
    BY <2>1 DEF Sums
  <2> QED
    BY <1>2, <2>1, <2>2, <2>3
<1>3. Len(f) \in Nat
  OBVIOUS
<1> HIDE DEF T
<1>4. \A i \in 0 .. Len(f) : i \in T
  BY <1>1, <1>2, <1>3, SegmentInduction
<1> QED
  BY <1>4 DEF T

\* Sums do not fall.
LEMMA SumsRise ==
    ASSUME NEW g \in Seq(Nat), NEW q, Sums(q, g), NEW a \in 0 .. Len(g)
    PROVE  \A i \in a .. Len(g) : q[a] <= q[i]
<1> DEFINE T == {j \in 0 .. Len(g) - a : q[a] <= q[a + j]}
           n == Len(g) - a
<1>1. n \in Nat
  OBVIOUS
<1>2. 0 \in T
  BY DEF Sums
<1>3. ASSUME NEW j \in 0 .. n - 1, j \in T
      PROVE  j + 1 \in T
  <2>1. /\ a + (j + 1) \in 1 .. Len(g) /\ (a + (j + 1)) - 1 = a + j
        /\ a + j \in 0 .. Len(g)
    BY <1>3
  <2>2. q[a + (j + 1)] = q[a + j] + g[a + (j + 1)]
    BY <2>1 DEF Sums
  <2>3. q[a + j] \in Nat /\ g[a + (j + 1)] \in Nat /\ q[a] \in Nat
    <3>1. q \in [0 .. Len(g) -> Nat] /\ a \in 0 .. Len(g)
      BY DEF Sums
    <3>2. g[a + (j + 1)] \in Nat
      BY <2>1
    <3> QED
      BY <2>1, <3>1, <3>2
  <2> QED
    BY <1>3, <2>1, <2>2, <2>3
<1> HIDE DEF T
<1>4. \A j \in 0 .. n : j \in T
  BY <1>1, <1>2, <1>3, SegmentInduction
<1>5. TAKE i \in a .. Len(g)
<1>6. i - a \in 0 .. n /\ a + (i - a) = i
  OBVIOUS
<1> QED
  BY <1>4, <1>6 DEF T

\* One ring more.
LEMMA SumsAppend ==
    ASSUME NEW f \in Seq(Nat), NEW n \in Nat, NEW p, Sums(p, f)
    PROVE  \E q : /\ Sums(q, Append(f, n))
                  /\ q[Len(f)] = p[Len(f)]
                  /\ q[Len(f) + 1] = p[Len(f)] + n
<1> DEFINE l == Len(f)
           q == [i \in 0 .. l + 1 |-> IF i <= l THEN p[i] ELSE p[l] + n]
<1>1. l \in Nat /\ Len(Append(f, n)) = l + 1
  OBVIOUS
<1>2. q \in [0 .. l + 1 -> Nat]
  BY <1>1, SMTT(30) DEF Sums
<1>3. q[0] = 0 /\ q[l] = p[l] /\ q[l + 1] = p[l] + n
  BY <1>1 DEF Sums
<1>4. ASSUME NEW i \in 1 .. l + 1
      PROVE  q[i] = q[i - 1] + Append(f, n)[i]
  <2>1. CASE i <= l
    BY <1>1, <2>1 DEF Sums
  <2>2. CASE i = l + 1
    BY <1>1, <1>3, <2>2
  <2> QED
    BY <1>1, <2>1, <2>2
<1>5. Sums(q, Append(f, n))
  BY <1>1, <1>2, <1>3, <1>4 DEF Sums
<1> HIDE DEF q
<1> QED
  BY <1>3, <1>5

\* Quotient and remainder.
LEMMA DivFacts ==
    ASSUME NEW n \in Nat \ {0}, NEW a \in Nat
    PROVE  /\ a = n * (a \div n) + (a % n)
           /\ a \div n \in Nat
           /\ a % n \in 0 .. n - 1
  BY Z3

\* A number has one remainder.
LEMMA Unique ==
    ASSUME NEW n \in Nat \ {0}, NEW d \in Int, NEW e \in Int, NEW r \in 0 .. n - 1, NEW s \in 0 .. n - 1, n * d + r = n * e + s
    PROVE  r = s
<1>1. n * (d - e) = s - r
  OBVIOUS
<1>2. CASE d = e
  BY <1>1, <1>2
<1>3. CASE d - e >= 1
  <2>1. n * (d - e) >= n
    BY <1>3
  <2> QED
    BY <1>1, <2>1
<1>4. CASE d - e <= -1
  <2>1. n * (d - e) <= -n
    BY <1>4
  <2> QED
    BY <1>1, <2>1
<1> QED
  BY <1>2, <1>3, <1>4

\* The place after a place of the ring.
LEMMA NextPlace ==
    ASSUME NEW n \in Nat \ {0}, NEW a \in Nat
    PROVE  (a + 1) % n = IF a % n = n - 1 THEN 0 ELSE (a % n) + 1
<1>1. /\ a = n * (a \div n) + (a % n)
      /\ a \div n \in Nat
      /\ a % n \in 0 .. n - 1
  BY DivFacts
<1>2. /\ a + 1 = n * ((a + 1) \div n) + ((a + 1) % n)
      /\ (a + 1) \div n \in Nat
      /\ (a + 1) % n \in 0 .. n - 1
  <2>1. a + 1 \in Nat
    OBVIOUS
  <2> QED
    BY <2>1, DivFacts
<1>3. CASE a % n = n - 1
  <2>1. a + 1 = n * ((a \div n) + 1) + 0
    BY <1>1, <1>3
  <2> QED
    BY <1>2, <1>3, <2>1, Unique
<1>4. CASE a % n # n - 1
  <2>1. a + 1 = n * (a \div n) + ((a % n) + 1) /\ (a % n) + 1 \in 0 .. n - 1
    BY <1>1, <1>4
  <2> QED
    BY <1>1, <1>2, <1>4, <2>1, Unique
<1> QED
  BY <1>3, <1>4

-----------------------------------------------------------------------------
(* What is true of the generators and the rings in every state.            *)

\* A ring that was filled when an image was started: it goes on where the rings
\* filled before it, since the seeding, have left the generator.
Started(o) ==
    /\ o.size \in Sizes
    /\ Len(o.filled) > 0
    /\ \E p : /\ Sums(p, o.filled)
              /\ o.ring = [list |-> Fill(p[Len(o.filled) - 1],
                                         o.filled[Len(o.filled)]),
                           k |-> 0]

\* Where the generator of side s is.
Position(s) == \E p : Sums(p, filled[s]) /\ seed16v[s] = p[Len(filled[s])]

\* The invariant: rings exist while a side is busy, and go on from where the
\* generator was.
PrnInv ==
    /\ TypeOK
    /\ \A s \in Sides : ~busy[s] => cache[s] = NoCache
    /\ \A s \in Sides : Position(s)
    /\ \A s \in Sides : busy[s] => Started(opened[s])
                                   /\ cache[s].list = opened[s].ring.list
    /\ \A i \in 1 .. Len(sent) : Started(sent[i])
    /\ busy["receiver"] => received \in 1 .. Len(sent)

\* Sizes of rings are naturals.
LEMMA SizesNat ==
    ASSUME NEW f \in Seq(Sizes)
    PROVE  f \in Seq(Nat)
<1>1. Sizes \subseteq Nat
  BY PrnCacheAssumption
<1> QED
  BY <1>1, SeqMonotonic

\* A ring is a list of n naturals.
LEMMA FillType ==
    ASSUME NEW p \in Nat, NEW n \in Nat
    PROVE  Fill(p, n) \in Seq(Nat) /\ Len(Fill(p, n)) = n
BY DEF Fill

\* A ring of an image has at least one entry.
LEMMA StartedRing ==
    ASSUME NEW o \in Openings, Started(o)
    PROVE  Len(o.ring.list) > 0
<1>1. o.filled \in Seq(Sizes) /\ Len(o.filled) \in 1 .. Len(o.filled)
  BY DEF Started, Openings
<1>2. o.filled \in Seq(Nat) /\ o.filled[Len(o.filled)] \in Sizes
  BY <1>1, SizesNat
<1>3. PICK p : /\ Sums(p, o.filled)
               /\ o.ring = [list |-> Fill(p[Len(o.filled) - 1],
                                         o.filled[Len(o.filled)]), k |-> 0]
  BY DEF Started
<1> DEFINE n == Len(o.filled)
<1>4. n - 1 \in 0 .. n
  BY <1>1
<1>5. p[n - 1] \in Nat /\ o.filled[n] \in Nat \ {0}
  BY <1>2, <1>3, <1>4, PrnCacheAssumption DEF Sums
<1>6. o.ring.list = Fill(p[n - 1], o.filled[n])
  BY <1>3
<1>7. Len(Fill(p[n - 1], o.filled[n])) = o.filled[n]
  <2> HIDE DEF n
  <2> QED
    BY <1>5, FillType
<1>8. o.filled[n] > 0
  BY <1>5
<1> QED
  BY <1>6, <1>7, <1>8

\* An idle side has no ring, so a new one is filled.
LEMMA OpenFills ==
    ASSUME PrnInv, NEW s \in Sides, NEW size \in Sizes, Open(s, size)
    PROVE  /\ ~busy[s]
           /\ busy' = [busy EXCEPT ![s] = TRUE]
           /\ filled' = [filled EXCEPT ![s] = Append(@, size)]
           /\ seed16v' = [seed16v EXCEPT ![s] = @ + size]
           /\ cache' = [cache EXCEPT ![s] =
                          [list |-> Fill(seed16v[s], size), k |-> 0]]
           /\ opened' = [opened EXCEPT ![s] =
                           [ring |-> [list |-> Fill(seed16v[s], size), k |-> 0],
                            filled |-> Append(filled[s], size), size |-> size]]
           /\ drawn' = [drawn EXCEPT ![s] = [from |-> 0, prns |-> <<>>]]
<1>1. ~busy[s] /\ cache[s] = NoCache
  BY DEF Open, PrnInv
<1>2. cache \in [Sides -> Rings] /\ filled \in [Sides -> Seq(Sizes)]
  BY DEF PrnInv, TypeOK
<1>3. /\ cache' = [cache EXCEPT ![s] =
                       [list |-> Fill(seed16v[s], size), k |-> 0]]
      /\ seed16v' = [seed16v EXCEPT ![s] = @ + size]
      /\ filled' = [filled EXCEPT ![s] = Append(@, size)]
  BY <1>1 DEF Open
<1>4. cache'[s] = [list |-> Fill(seed16v[s], size), k |-> 0]
  BY <1>2, <1>3
<1>5. filled'[s] = Append(filled[s], size)
  BY <1>2, <1>3
<1>6. cache'[s].k = 0
  BY <1>4
<1>7. /\ busy' = [busy EXCEPT ![s] = TRUE]
      /\ opened' = [opened EXCEPT ![s] =
                      [ring |-> cache'[s], filled |-> filled'[s], size |-> size]]
      /\ drawn' = [drawn EXCEPT ![s] = [from |-> cache'[s].k, prns |-> <<>>]]
  BY DEF Open
<1> QED
  BY <1>1, <1>3, <1>4, <1>5, <1>6, <1>7, Zenon

\* What a side is, and has, when it has started an image.
LEMMA OpenStarts ==
    ASSUME PrnInv, NEW s \in Sides, NEW size \in Sizes, Open(s, size)
    PROVE  /\ Position(s)'
           /\ Started(opened'[s])
           /\ cache'[s].list = opened'[s].ring.list
           /\ seed16v' \in [Sides -> Nat]
           /\ cache' \in [Sides -> Rings]
           /\ busy' \in [Sides -> BOOLEAN]
           /\ opened' \in [Sides -> Openings]
           /\ drawn' \in [Sides -> [from : Nat, prns : Seq(Nat)]]
           /\ filled' \in [Sides -> Seq(Sizes)]
<1> DEFINE f == filled[s]
           ring == [list |-> Fill(seed16v[s], size), k |-> 0]
<1>a. /\ busy' = [busy EXCEPT ![s] = TRUE]
      /\ filled' = [filled EXCEPT ![s] = Append(f, size)]
      /\ seed16v' = [seed16v EXCEPT ![s] = seed16v[s] + size]
      /\ cache' = [cache EXCEPT ![s] = ring]
      /\ opened' = [opened EXCEPT ![s] =
                      [ring |-> ring, filled |-> Append(f, size), size |-> size]]
      /\ drawn' = [drawn EXCEPT ![s] = [from |-> 0, prns |-> <<>>]]
  BY OpenFills
<1>b. /\ busy \in [Sides -> BOOLEAN] /\ filled \in [Sides -> Seq(Sizes)]
      /\ seed16v \in [Sides -> Nat] /\ cache \in [Sides -> Rings]
      /\ opened \in [Sides -> Openings]
      /\ drawn \in [Sides -> [from : Nat, prns : Seq(Nat)]]
  BY DEF PrnInv, TypeOK
<1>1. /\ f \in Seq(Sizes) /\ f \in Seq(Nat) /\ size \in Nat /\ seed16v[s] \in Nat
      /\ Len(f) \in Nat
  BY PrnCacheAssumption, SizesNat DEF PrnInv, TypeOK
<1>2. PICK p : Sums(p, f) /\ seed16v[s] = p[Len(f)]
  BY DEF PrnInv, Position
<1>3. PICK q : /\ Sums(q, Append(f, size))
               /\ q[Len(f)] = p[Len(f)]
               /\ q[Len(f) + 1] = p[Len(f)] + size
  BY <1>1, <1>2, SumsAppend
<1>4. /\ Append(f, size) \in Seq(Sizes)
      /\ Len(Append(f, size)) = Len(f) + 1
      /\ Append(f, size)[Len(f) + 1] = size
      /\ Len(Append(f, size)) - 1 = Len(f)
  BY <1>1
<1>5. filled'[s] = Append(f, size) /\ seed16v'[s] = seed16v[s] + size
  BY <1>a, <1>b
<1>6. Position(s)'
  <2>1. Sums(q, filled'[s]) /\ seed16v'[s] = q[Len(filled'[s])]
    BY <1>2, <1>3, <1>4, <1>5
  <2> QED
    BY <2>1 DEF Position
<1>7. opened'[s] = [ring |-> ring, filled |-> Append(f, size), size |-> size]
  BY <1>a, <1>b
<1>8. Started(opened'[s])
  <2>1. /\ opened'[s].filled = Append(f, size) /\ opened'[s].ring = ring
        /\ opened'[s].size = size
    BY <1>7
  <2>2. ring = [list |-> Fill(q[Len(f)], size), k |-> 0]
    BY <1>2, <1>3
  <2> QED
    BY <1>1, <1>3, <1>4, <2>1, <2>2 DEF Started
<1>9. ring \in Rings
  BY <1>1, FillType DEF Rings
<1>10. [ring |-> ring, filled |-> Append(f, size), size |-> size] \in Openings
  BY <1>1, <1>4, <1>9 DEF Openings
<1>11. seed16v' \in [Sides -> Nat] /\ busy' \in [Sides -> BOOLEAN]
  BY <1>1, <1>a, <1>b
<1>12. cache' \in [Sides -> Rings] /\ opened' \in [Sides -> Openings]
  <2> HIDE DEF ring
  <2> QED
    BY <1>9, <1>10, <1>a, <1>b
<1>13. drawn' \in [Sides -> [from : Nat, prns : Seq(Nat)]]
  BY <1>a, <1>b
<1>14. filled' \in [Sides -> Seq(Sizes)]
  BY <1>4, <1>a, <1>b
<1>15. cache'[s].list = opened'[s].ring.list
  BY <1>7, <1>a, <1>b
<1> QED
  BY <1>6, <1>8, <1>11, <1>12, <1>13, <1>14, <1>15

\* The conjuncts of the invariant that speak of one side.
SideInv(s) ==
    /\ ~busy[s] => cache[s] = NoCache
    /\ Position(s)
    /\ busy[s] => Started(opened[s]) /\ cache[s].list = opened[s].ring.list

\* Starting an image keeps the invariant.
LEMMA OpenKeeps ==
    ASSUME PrnInv, NEW s \in Sides, NEW size \in Sizes, Open(s, size),
           UNCHANGED sent, received' \in 0 .. Len(sent),
           IF s = "receiver" THEN received' \in 1 .. Len(sent)
                             ELSE received' = received
    PROVE  PrnInv'
<1>1. TypeOK'
  <2>1. sent \in Seq(Openings)
    BY DEF PrnInv, TypeOK
  <2> QED
    BY <2>1, OpenStarts DEF TypeOK
<1>2. ASSUME NEW t \in Sides, t # s
      PROVE  SideInv(t)'
  <2>1. /\ busy \in [Sides -> BOOLEAN] /\ filled \in [Sides -> Seq(Sizes)]
        /\ seed16v \in [Sides -> Nat] /\ cache \in [Sides -> Rings]
        /\ opened \in [Sides -> Openings]
    BY DEF PrnInv, TypeOK
  <2>2. /\ busy'[t] = busy[t] /\ filled'[t] = filled[t]
        /\ seed16v'[t] = seed16v[t] /\ cache'[t] = cache[t]
        /\ opened'[t] = opened[t]
    BY <1>2, <2>1, OpenFills
  <2> QED
    BY <2>2 DEF PrnInv, SideInv, Position
<1>3. SideInv(s)'
  <2>1. busy'[s] = TRUE
    BY OpenFills DEF PrnInv, TypeOK
  <2> QED
    BY <2>1, OpenStarts DEF SideInv
<1>4. busy'["receiver"] => received' \in 1 .. Len(sent')
  <2>1. CASE s = "receiver"
    BY <2>1
  <2>2. CASE s # "receiver"
    <3>1. busy'["receiver"] = busy["receiver"]
      BY <2>2, OpenFills DEF PrnInv, TypeOK, Sides
    <3> QED
      BY <2>2, <3>1 DEF PrnInv
  <2> QED
    BY <2>1, <2>2
<1>5. \A i \in 1 .. Len(sent') : Started(sent'[i])
  BY DEF PrnInv
<1>6. \A t \in Sides : SideInv(t)'
  BY <1>2, <1>3
<1> QED
  BY <1>1, <1>4, <1>5, <1>6 DEF PrnInv, SideInv

\* A new seed begins a new series.
LEMMA SeedKeeps ==
    ASSUME PrnInv, NEW s \in Sides, Seed(s)
    PROVE  PrnInv'
<1>1. /\ filled \in [Sides -> Seq(Sizes)] /\ seed16v \in [Sides -> Nat]
      /\ filled' = [filled EXCEPT ![s] = <<>>]
      /\ seed16v' = [seed16v EXCEPT ![s] = 0]
      /\ UNCHANGED <<cache, busy, opened, drawn, sent, received>>
  BY DEF PrnInv, TypeOK, Seed
<1>2. TypeOK'
  <2>1. filled' \in [Sides -> Seq(Sizes)] /\ seed16v' \in [Sides -> Nat]
    BY <1>1
  <2> QED
    BY <1>1, <2>1 DEF PrnInv, TypeOK
<1>3. ASSUME NEW t \in Sides
      PROVE  Position(t)'
  <2>1. CASE t = s
    <3> DEFINE p == [i \in 0 .. 0 |-> 0]
    <3>1. filled'[t] = <<>> /\ seed16v'[t] = 0
      BY <1>1, <2>1
    <3>2. Sums(p, <<>>) /\ p[Len(<<>>)] = 0
      BY DEF Sums
    <3> HIDE DEF p
    <3> QED
      BY <3>1, <3>2 DEF Position
  <2>2. CASE t # s
    <3>1. filled'[t] = filled[t] /\ seed16v'[t] = seed16v[t]
      BY <1>1, <2>2
    <3> QED
      BY <3>1 DEF PrnInv, Position
  <2> QED
    BY <2>1, <2>2
<1> QED
  BY <1>1, <1>2, <1>3 DEF PrnInv

\* Draws and resets move the read index only.
LEMMA ReadKeeps ==
    ASSUME PrnInv, NEW s \in Sides, Draw(s) \/ Reset(s)
    PROVE  PrnInv'
<1>1. /\ cache \in [Sides -> Rings]
      /\ drawn \in [Sides -> [from : Nat, prns : Seq(Nat)]]
  BY DEF PrnInv, TypeOK
<1>2. /\ busy[s] /\ UNCHANGED <<seed16v, busy, opened, filled, sent, received>>
  BY DEF Draw, Reset
<1>3. /\ cache' \in [Sides -> Rings]
      /\ \A t \in Sides : t # s => cache'[t] = cache[t]
      /\ \A t \in Sides : cache'[t].list = cache[t].list
  <2>1. CASE Draw(s)
    <3> DEFINE k == IF cache[s].k >= Len(cache[s].list) THEN 0 ELSE cache[s].k
    <3>1. cache' = [cache EXCEPT ![s].k = k + 1]
      BY <2>1 DEF Draw
    <3>2. k + 1 \in Nat
      BY <1>1 DEF Rings
    <3> HIDE DEF k
    <3> QED
      BY <1>1, <3>1, <3>2 DEF Rings
  <2>2. CASE Reset(s)
    BY <1>1, <2>2, ZenonT(30) DEF Reset, Rings
  <2> QED
    BY <2>1, <2>2
<1>4. drawn' \in [Sides -> [from : Nat, prns : Seq(Nat)]]
  <2>1. CASE Draw(s)
    <3> DEFINE l == cache[s].list
               k == IF cache[s].k >= Len(l) THEN 0 ELSE cache[s].k
    <3>1. drawn' = [drawn EXCEPT ![s].prns = Append(@, l[k + 1])]
      BY <2>1 DEF Draw
    <3>2. Len(l) > 0
      BY <1>2, StartedRing DEF PrnInv, TypeOK
    <3>3. l \in Seq(Nat) /\ k + 1 \in 1 .. Len(l)
      BY <1>1, <3>2 DEF Rings
    <3>4. l[k + 1] \in Nat
      BY <3>3
    <3>5. Append(drawn[s].prns, l[k + 1]) \in Seq(Nat)
      BY <1>1, <3>4
    <3> HIDE DEF l, k
    <3>6. [drawn[s] EXCEPT !.prns = Append(@, l[k + 1])]
             \in [from : Nat, prns : Seq(Nat)]
      BY <1>1, <3>5
    <3> QED
      BY <1>1, <3>1, <3>6
  <2>2. CASE Reset(s)
    BY <1>1, <2>2 DEF Reset
  <2> QED
    BY <2>1, <2>2
<1>5. TypeOK'
  BY <1>2, <1>3, <1>4 DEF PrnInv, TypeOK
<1>6. \A t \in Sides : Position(t)'
  BY <1>2 DEF PrnInv, Position
<1>7. ASSUME NEW t \in Sides
      PROVE  SideInv(t)'
  <2>1. CASE busy[t]
    <3>1. busy'[t] /\ opened'[t] = opened[t] /\ cache'[t].list = cache[t].list
      <4>1. busy' = busy /\ opened' = opened
        BY <1>2
      <4>2. cache'[t].list = cache[t].list
        BY <1>3
      <4> QED
        BY <2>1, <4>1, <4>2
    <3>2. Started(opened'[t])
      BY <2>1, <3>1 DEF PrnInv
    <3> QED
      BY <1>6, <2>1, <3>1, <3>2 DEF PrnInv, SideInv
  <2>2. CASE ~busy[t]
    <3>1. ~busy'[t] /\ cache'[t] = cache[t]
      BY <1>2, <1>3, <2>2
    <3> QED
      BY <1>6, <2>2, <3>1 DEF PrnInv, SideInv
  <2> QED
    BY <2>1, <2>2
<1>8. /\ \A i \in 1 .. Len(sent') : Started(sent'[i])
      /\ busy'["receiver"] => received' \in 1 .. Len(sent')
  BY <1>2 DEF PrnInv
<1> QED
  BY <1>5, <1>7, <1>8 DEF PrnInv, SideInv

\* The image is sent, or given up, and the ring freed.
LEMMA CloseKeeps ==
    ASSUME PrnInv, NEW s \in Sides, Close(s) \/ (s = "sender" /\ Abort)
    PROVE  PrnInv'
<1>1. /\ cache \in [Sides -> Rings] /\ busy \in [Sides -> BOOLEAN]
      /\ opened \in [Sides -> Openings] /\ sent \in Seq(Openings)
      /\ received \in 0 .. Len(sent)
  BY DEF PrnInv, TypeOK
<1>2. /\ busy[s] /\ UNCHANGED <<seed16v, opened, drawn, filled, received>>
      /\ busy' = [busy EXCEPT ![s] = FALSE]
      /\ cache' = [cache EXCEPT ![s] = NoCache]
      /\ sent' = sent \/ sent' = Append(sent, opened[s])
  BY DEF Close, Abort
<1>3. NoCache \in Rings
  BY DEF NoCache, Rings
<1>4. /\ sent' \in Seq(Openings) /\ Len(sent') >= Len(sent)
      /\ \A i \in 1 .. Len(sent') :
            sent'[i] = IF i <= Len(sent) THEN sent[i] ELSE opened[s]
  <2>1. CASE sent' = sent
    BY <1>1, <2>1
  <2>2. CASE sent' = Append(sent, opened[s])
    <3>1. opened[s] \in Openings
      BY <1>1
    <3> QED
      BY <1>1, <2>2, <3>1
  <2> QED
    BY <1>2, <2>1, <2>2
<1>5. Started(opened[s])
  BY <1>2 DEF PrnInv
<1>6. \A i \in 1 .. Len(sent') : Started(sent'[i])
  <2>1. TAKE i \in 1 .. Len(sent')
  <2>2. CASE i <= Len(sent)
    <3>1. i \in 1 .. Len(sent) /\ sent'[i] = sent[i]
      BY <1>1, <1>4, <2>2
    <3> QED
      BY <3>1 DEF PrnInv
  <2>3. CASE ~(i <= Len(sent))
    BY <1>4, <1>5, <2>3
  <2> QED
    BY <2>2, <2>3
<1>7. TypeOK'
  BY <1>1, <1>2, <1>3, <1>4 DEF PrnInv, TypeOK
<1>8. \A t \in Sides : Position(t)'
  BY <1>2 DEF PrnInv, Position
<1>9. \A t \in Sides : /\ ~busy'[t] => cache'[t] = NoCache
                       /\ busy'[t] => /\ Started(opened'[t])
                                     /\ cache'[t].list = opened'[t].ring.list
  BY <1>1, <1>2 DEF PrnInv
<1>10. busy'["receiver"] => received' \in 1 .. Len(sent')
  <2>1. busy'["receiver"] => busy["receiver"]
    BY <1>1, <1>2 DEF Sides
  <2> QED
    BY <1>1, <1>2, <1>4, <2>1 DEF PrnInv
<1> QED
  BY <1>6, <1>7, <1>8, <1>9, <1>10 DEF PrnInv

\* Every ring begins where the rings filled since the seeding have left the
\* generator, on both sides and in every image that was sent.
THEOREM PrnInvariant == Spec => []PrnInv
<1>1. Init => PrnInv
  <2> SUFFICES ASSUME Init PROVE PrnInv
    OBVIOUS
  <2>1. NoCache \in Rings /\ Idle \in Openings
    BY DEF NoCache, Rings, Idle, Openings
  <2>2. TypeOK
    <3>1. opened \in [Sides -> Openings] /\ cache \in [Sides -> Rings]
      BY <2>1 DEF Init
    <3> QED
      BY <3>1 DEF Init, TypeOK
  <2>3. ASSUME NEW s \in Sides
        PROVE  Position(s)
    <3> DEFINE p == [i \in 0 .. 0 |-> 0]
    <3>1. filled[s] = <<>> /\ seed16v[s] = 0
      BY DEF Init
    <3>2. Sums(p, <<>>) /\ p[Len(<<>>)] = 0
      BY DEF Sums
    <3> HIDE DEF p
    <3> QED
      BY <3>1, <3>2 DEF Position
  <2> QED
    BY <2>2, <2>3 DEF Init, PrnInv, Sides
<1>2. ASSUME PrnInv, [Next]_vars
      PROVE  PrnInv'
  <2> USE <1>2
  <2>1. CASE OpenToEmbed
    <3>1. PICK size \in Sizes : Open("sender", size)
      BY <2>1 DEF OpenToEmbed
    <3>2. UNCHANGED <<sent, received>> /\ received \in 0 .. Len(sent)
      BY <2>1 DEF OpenToEmbed, PrnInv, TypeOK
    <3> QED
      BY <3>1, <3>2, OpenKeeps DEF Sides
  <2>2. CASE OpenToExtract
    <3> DEFINE next == received + 1
    <3>1. /\ received < Len(sent) /\ received' = next /\ UNCHANGED sent
          /\ Open("receiver", sent[next].size)
      BY <2>2 DEF OpenToExtract
    <3>2. next \in 1 .. Len(sent) /\ next \in 0 .. Len(sent)
      BY <3>1 DEF PrnInv, TypeOK
    <3>3. sent[next].size \in Sizes
      BY <3>2 DEF PrnInv, Started
    <3> HIDE DEF next
    <3> QED
      BY <3>1, <3>2, <3>3, OpenKeeps DEF Sides
  <2>3. CASE Lose
    <3>1. /\ UNCHANGED <<seed16v, cache, busy, opened, drawn, filled, sent>>
          /\ ~busy["receiver"] /\ received' \in 0 .. Len(sent')
      BY <2>3 DEF Lose, PrnInv, TypeOK
    <3> QED
      BY <3>1 DEF PrnInv, TypeOK, Position
  <2>4. CASE Abort
    BY <2>4, CloseKeeps DEF Sides
  <2>5. CASE \E s \in Sides : Seed(s) \/ Draw(s) \/ Reset(s) \/ Close(s)
    BY <2>5, SeedKeeps, ReadKeeps, CloseKeeps
  <2>6. CASE UNCHANGED vars
    BY <2>6 DEF vars, PrnInv, TypeOK, Position
  <2> QED
    BY <1>2, <2>1, <2>2, <2>3, <2>4, <2>5, <2>6 DEF Next
<1> QED
  BY <1>1, <1>2, PTL DEF Spec

-----------------------------------------------------------------------------
\* Two sides with equal histories start an image with equal rings (InStep;
\* jel.c, jelprn_create, jelprn_reload).
THEOREM PrnInStepOnce == Spec => []InStep
<1>1. PrnInv => InStep
  <2> SUFFICES ASSUME PrnInv, busy["receiver"],
                      Image.filled = opened["receiver"].filled
               PROVE  Image.ring = opened["receiver"].ring
    BY DEF InStep
  <2> DEFINE o == opened["receiver"]
             f == o.filled
             n == Len(f)
  <2>1. Started(Image) /\ Started(o)
    BY DEF PrnInv, Image, Sides
  <2>2. o \in Openings
    BY DEF PrnInv, TypeOK, Sides
  <2>3. f \in Seq(Nat) /\ n \in 1 .. n /\ n - 1 \in 0 .. n
    BY <2>1, <2>2, SizesNat DEF Started, Openings
  <2>4. PICK p : Sums(p, f) /\ Image.ring = [list |-> Fill(p[n - 1], f[n]), k |-> 0]
    BY <2>1 DEF Started
  <2>5. PICK q : Sums(q, f) /\ o.ring = [list |-> Fill(q[n - 1], f[n]), k |-> 0]
    BY <2>1 DEF Started
  <2> HIDE DEF f, n
  <2>6. p[n - 1] = q[n - 1]
    <3>1. n <= n /\ n = Len(f)
      BY <2>3 DEF n
    <3> QED
      BY <2>3, <2>4, <2>5, <3>1, SumsPrefix
  <2> QED
    BY <2>4, <2>5, <2>6
<1> QED
  BY <1>1, PrnInvariant, PTL

\* The generator is past a ring when it fills a later one.
LEMMA RingsApart ==
    ASSUME NEW f \in Seq(Nat), NEW g \in Seq(Nat), Len(f) > 0, Len(f) < Len(g),
           \A k \in 1 .. Len(f) : f[k] = g[k],
           NEW p, Sums(p, f), NEW q, Sums(q, g)
    PROVE  /\ p[Len(f) - 1] \in Nat /\ q[Len(g) - 1] \in Nat
           /\ f[Len(f)] \in Nat /\ g[Len(g)] \in Nat
           /\ p[Len(f) - 1] + f[Len(f)] <= q[Len(g) - 1]
<1> DEFINE n == Len(f)
           m == Len(g)
<1>1. /\ n \in 0 .. n /\ n \in 1 .. n /\ n \in 0 .. m /\ n - 1 \in 0 .. n
      /\ m - 1 \in n .. m /\ m - 1 \in 0 .. m /\ m \in 1 .. m /\ n <= m
  OBVIOUS
<1>2. \A k \in 0 .. Len(f) : p[k] = q[k]
  BY <1>1, SumsPrefix
<1>3. \A k \in n .. m : q[n] <= q[k]
  BY <1>1, SumsRise
<1>4. p[n] = q[n] /\ q[n] <= q[m - 1]
  BY <1>1, <1>2, <1>3
<1>5. p[n] = p[n - 1] + f[n]
  BY <1>1 DEF Sums
<1>6. p \in [0 .. n -> Nat] /\ q \in [0 .. m -> Nat]
  BY DEF Sums
<1>7. f[n] \in Nat /\ g[m] \in Nat
  BY <1>1
<1>8. p[n - 1] \in Nat /\ q[m - 1] \in Nat
  BY <1>1, <1>6
<1>9. p[n - 1] + f[n] <= q[m - 1]
  BY <1>4, <1>5
<1> QED
  BY <1>7, <1>8, <1>9

\* The entries of two rings are numbers of two parts of the series.
LEMMA StartedApart ==
    ASSUME NEW a \in Openings, NEW b \in Openings, Started(a), Started(b),
           Len(a.filled) < Len(b.filled),
           a.filled = SubSeq(b.filled, 1, Len(a.filled)),
           NEW x \in DOMAIN a.ring.list, NEW y \in DOMAIN b.ring.list
    PROVE  a.ring.list[x] # b.ring.list[y]
<1>1. PICK f \in Seq(Nat) : f = a.filled
  BY SizesNat DEF Openings
<1>2. PICK g \in Seq(Nat) : g = b.filled
  BY SizesNat DEF Openings
<1>3. PICK p : /\ Sums(p, f)
               /\ a.ring = [list |-> Fill(p[Len(f) - 1], f[Len(f)]), k |-> 0]
  BY <1>1 DEF Started
<1>4. PICK q : /\ Sums(q, g)
               /\ b.ring = [list |-> Fill(q[Len(g) - 1], g[Len(g)]), k |-> 0]
  BY <1>2 DEF Started
<1>5. Len(f) > 0 /\ Len(f) < Len(g)
  BY <1>1, <1>2 DEF Started
<1>6. \A k \in 1 .. Len(f) : f[k] = g[k]
  <2>1. f = SubSeq(g, 1, Len(f))
    BY <1>1, <1>2
  <2> QED
    BY <1>5, <2>1
<1> DEFINE u == p[Len(f) - 1]
           c == f[Len(f)]
           v == q[Len(g) - 1]
           d == g[Len(g)]
<1>7. u \in Nat /\ v \in Nat /\ c \in Nat /\ d \in Nat /\ u + c <= v
  BY <1>3, <1>4, <1>5, <1>6, RingsApart
<1>8. a.ring.list = Fill(u, c) /\ b.ring.list = Fill(v, d)
  BY <1>3, <1>4
<1> HIDE DEF u, v, c, d
<1>9. /\ x \in 1 .. c /\ a.ring.list[x] = u + x
      /\ y \in 1 .. d /\ b.ring.list[y] = v + y
  BY <1>8 DEF Fill
<1> QED
  BY <1>7, <1>9

\* The rings of two images, of which one was started after the other without
\* a new seed between, have no PRN in common (NoPrnTwice; jel.c, jelprn_create,
\* which goes on from the generator state of the configuration).
THEOREM PrnNeverTwice == Spec => []NoPrnTwice
<1>1. PrnInv => NoPrnTwice
  <2> SUFFICES ASSUME PrnInv, NEW i \in 1 .. Len(sent), NEW j \in 1 .. Len(sent),
                      Len(sent[i].filled) < Len(sent[j].filled),
                      sent[i].filled = SubSeq(sent[j].filled, 1, Len(sent[i].filled)),
                      NEW x \in DOMAIN sent[i].ring.list,
                      NEW y \in DOMAIN sent[j].ring.list
               PROVE  sent[i].ring.list[x] # sent[j].ring.list[y]
    BY DEF NoPrnTwice
  <2>1. Started(sent[i]) /\ Started(sent[j])
    BY DEF PrnInv
  <2>2. sent[i] \in Openings /\ sent[j] \in Openings
    BY DEF PrnInv, TypeOK
  <2> QED
    BY <2>1, <2>2, StartedApart
<1> QED
  BY <1>1, PrnInvariant, PTL

-----------------------------------------------------------------------------
(* Round the ring.                                                         *)

\* The entry that the call after c calls reads.
LEMMA NextEntry ==
    ASSUME NEW n \in Nat \ {0}, NEW c \in Nat, NEW k,
           k = IF c = 0 THEN 0 ELSE ((c - 1) % n) + 1
    PROVE  /\ (IF k >= n THEN 0 ELSE k) = c % n
           /\ c % n \in 0 .. n - 1
<1>1. c % n \in 0 .. n - 1
  BY DivFacts
<1>2. CASE c = 0
  <2>1. 0 = n * (0 \div n) + (0 % n) /\ 0 \div n \in Int /\ 0 % n \in 0 .. n - 1
    BY DivFacts
  <2>2. n * (0 \div n) + (0 % n) = n * 0 + 0
    BY <2>1
  <2>3. 0 % n = 0
    BY <2>1, <2>2, Unique
  <2> QED
    BY <1>1, <1>2, <2>3
<1>3. CASE c # 0
  <2>1. c - 1 \in Nat /\ (c - 1) + 1 = c
    BY <1>3
  <2>2. c % n = IF (c - 1) % n = n - 1 THEN 0 ELSE ((c - 1) % n) + 1
    BY <2>1, NextPlace
  <2>3. (c - 1) % n \in 0 .. n - 1
    BY <2>1, DivFacts
  <2> QED
    BY <1>1, <1>3, <2>2, <2>3
<1> QED
  BY <1>2, <1>3

\* RingGoesRound for one side, in the terms of jelprn_next: a series begins at
\* entry 0, since a ring does and a reset goes back to it.
Round(s) ==
    LET n == Len(cache[s].list)
        c == Len(drawn[s].prns)
    IN  /\ drawn[s].from = 0
        /\ cache[s].k = IF c = 0 THEN 0 ELSE ((c - 1) % n) + 1
        /\ \A i \in 1 .. c :
              drawn[s].prns[i] = cache[s].list[((i - 1) % n) + 1]

RoundInv == \A s \in Sides : busy[s] => Round(s)

\* One more call.
LEMMA DrawRound ==
    ASSUME PrnInv, NEW s \in Sides, Draw(s), Round(s)
    PROVE  Round(s)'
<1> DEFINE l == cache[s].list
           n == Len(l)
           d == drawn[s].prns
           c == Len(d)
           k == IF cache[s].k >= n THEN 0 ELSE cache[s].k
<1>1. /\ cache \in [Sides -> Rings]
      /\ drawn \in [Sides -> [from : Nat, prns : Seq(Nat)]]
  BY DEF PrnInv, TypeOK
<1>2. l \in Seq(Nat) /\ d \in Seq(Nat) /\ c \in Nat
  BY <1>1 DEF Rings
<1>3. n \in Nat \ {0}
  <2>1. Len(l) > 0
    BY StartedRing DEF Draw, PrnInv, TypeOK
  <2> QED
    BY <1>2, <2>1
<1>4. /\ drawn[s].from = 0
      /\ cache[s].k = IF c = 0 THEN 0 ELSE ((c - 1) % n) + 1
      /\ \A i \in 1 .. c : d[i] = l[((i - 1) % n) + 1]
  BY DEF Round
<1>5. /\ drawn' = [drawn EXCEPT ![s].prns = Append(@, l[k + 1])]
      /\ cache' = [cache EXCEPT ![s].k = k + 1]
  BY DEF Draw
<1>6. k = c % n /\ c % n \in 0 .. n - 1
  <2> HIDE DEF c, n
  <2> QED
    BY <1>2, <1>3, <1>4, NextEntry
<1>7. /\ drawn'[s].from = 0 /\ drawn'[s].prns = Append(d, l[(c % n) + 1])
      /\ cache'[s].list = l /\ cache'[s].k = (c % n) + 1
  <2> HIDE DEF k
  <2> QED
    BY <1>1, <1>4, <1>5, <1>6, ZenonT(30) DEF Rings
<1> DEFINE e == l[(c % n) + 1]
<1>8. e \in Nat
  <2>1. n = Len(l)
    OBVIOUS
  <2>2. (c % n) + 1 \in 1 .. n
    <3> HIDE DEF n, c
    <3> QED
      BY <1>3, <1>6
  <2> HIDE DEF n, c, l
  <2> QED
    BY <1>2, <2>1, <2>2 DEF e
<1>9. /\ Len(Append(d, e)) = c + 1 /\ (c + 1) - 1 = c /\ c + 1 # 0
      /\ \A i \in 1 .. c : Append(d, e)[i] = d[i]
      /\ Append(d, e)[c + 1] = e
  <2> HIDE DEF d, e
  <2> QED
    BY <1>2, <1>8
<1>10. \A i \in 1 .. c + 1 : Append(d, e)[i] = l[((i - 1) % n) + 1]
  <2>1. TAKE i \in 1 .. c + 1
  <2>2. CASE i \in 1 .. c
    BY <1>4, <1>9, <2>2
  <2>3. CASE i = c + 1
    <3>1. i - 1 = c
      BY <1>9, <2>3
    <3> QED
      BY <1>9, <2>3, <3>1
  <2>4. i \in 1 .. c \/ i = c + 1
    <3> HIDE DEF c
    <3> QED
      BY <1>2
  <2> QED
    BY <2>2, <2>3, <2>4
<1> HIDE DEF c, d, e, l
<1> QED
  BY <1>7, <1>9, <1>10 DEF Round, e, n

\* However often a side goes round its ring, it reads what Steg says it reads
\* (RingGoesRound; jel.c, jelprn_next).
THEOREM PrnGoesRound == Spec => []RingGoesRound
<1>1. Init => RoundInv
  BY DEF Init, RoundInv
<1>2. ASSUME PrnInv, RoundInv, [Next]_vars
      PROVE  RoundInv'
  <2> USE <1>2
  <2> SUFFICES ASSUME NEW t \in Sides, busy'[t]
               PROVE  Round(t)'
    BY DEF RoundInv
  <2>0. /\ busy \in [Sides -> BOOLEAN] /\ cache \in [Sides -> Rings]
        /\ drawn \in [Sides -> [from : Nat, prns : Seq(Nat)]]
    BY DEF PrnInv, TypeOK
  <2>1. ASSUME busy[t], cache'[t] = cache[t], drawn'[t] = drawn[t]
        PROVE  Round(t)'
    <3>1. Round(t)
      BY <2>1 DEF RoundInv
    <3> QED
      BY <2>1, <3>1 DEF Round
  <2>2. ASSUME NEW s \in Sides, NEW size \in Sizes, Open(s, size)
        PROVE  Round(t)'
    <3>1. CASE t = s
      <4>1. /\ drawn'[t] = [from |-> 0, prns |-> <<>>] /\ cache'[t].k = 0
        BY <2>0, <2>2, <3>1, OpenFills
      <4> QED
        BY <4>1 DEF Round
    <3>2. CASE t # s
      BY <2>0, <2>1, <2>2, <3>2, OpenFills
    <3> QED
      BY <3>1, <3>2
  <2>3. CASE OpenToEmbed
    BY <2>2, <2>3 DEF OpenToEmbed, Sides
  <2>4. CASE OpenToExtract
    <3> DEFINE next == received + 1
    <3>1. /\ received < Len(sent) /\ Open("receiver", sent[next].size)
      BY <2>4 DEF OpenToExtract
    <3>2. next \in 1 .. Len(sent)
      BY <3>1 DEF PrnInv, TypeOK
    <3>3. sent[next].size \in Sizes
      BY <3>2 DEF PrnInv, Started
    <3> HIDE DEF next
    <3> QED
      BY <2>2, <3>1, <3>3 DEF Sides
  <2>5. CASE Lose
    BY <2>1, <2>5 DEF Lose
  <2>6. ASSUME NEW s \in Sides, Close(s) \/ (s = "sender" /\ Abort)
        PROVE  Round(t)'
    <3>1. /\ busy' = [busy EXCEPT ![s] = FALSE]
          /\ cache' = [cache EXCEPT ![s] = NoCache] /\ drawn' = drawn
      BY <2>6 DEF Close, Abort
    <3>2. t # s /\ busy[t]
      BY <2>0, <3>1
    <3> QED
      BY <2>0, <2>1, <3>1, <3>2
  <2>7. ASSUME NEW s \in Sides, Draw(s)
        PROVE  Round(t)'
    <3>1. busy[t]
      BY <2>7 DEF Draw
    <3>2. CASE t = s
      BY <2>7, <3>1, <3>2, DrawRound DEF RoundInv
    <3>3. CASE t # s
      BY <2>0, <2>1, <2>7, <3>1, <3>3 DEF Draw
    <3> QED
      BY <3>2, <3>3
  <2>8. ASSUME NEW s \in Sides, Reset(s)
        PROVE  Round(t)'
    <3>1. busy[t]
      BY <2>8 DEF Reset
    <3>2. CASE t = s
      <4>1. drawn'[t] = [from |-> 0, prns |-> <<>>] /\ cache'[t].k = 0
        BY <2>0, <2>8, <3>2 DEF Reset, Rings
      <4> QED
        BY <4>1 DEF Round
    <3>3. CASE t # s
      BY <2>0, <2>1, <2>8, <3>1, <3>3 DEF Reset
    <3> QED
      BY <3>2, <3>3
  <2>9. ASSUME NEW s \in Sides, Seed(s)
        PROVE  Round(t)'
    BY <2>1, <2>9 DEF Seed
  <2>10. CASE UNCHANGED vars
    BY <2>1, <2>10 DEF vars
  <2>11. CASE Abort
    BY <2>6, <2>11 DEF Sides
  <2> QED
    BY <1>2, <2>3, <2>4, <2>5, <2>6, <2>7, <2>8, <2>9, <2>10, <2>11 DEF Next
<1>3. PrnInv /\ RoundInv => RingGoesRound
  <2> SUFFICES ASSUME PrnInv, NEW s \in Sides, Round(s), busy[s]
               PROVE  LET c == cache[s]
                          n == Len(c.list)
                          ring == [i \in 0 .. n - 1 |-> c.list[i + 1]]
                          d == drawn[s]
                      IN  /\ c.k = Closed(n)!Advance(d.from, Len(d.prns))
                          /\ \A i \in 1 .. Len(d.prns) :
                                d.prns[i] = Closed(n)!PrnAt(ring, d.from, i)
    BY DEF RoundInv, RingGoesRound
  <2> DEFINE c == cache[s]
             n == Len(c.list)
             ring == [i \in 0 .. n - 1 |-> c.list[i + 1]]
             d == drawn[s]
  <2>1. /\ cache \in [Sides -> Rings]
        /\ drawn \in [Sides -> [from : Nat, prns : Seq(Nat)]]
    BY DEF PrnInv, TypeOK
  <2>2. n \in Nat \ {0}
    <3>1. Len(c.list) > 0
      BY StartedRing DEF PrnInv, TypeOK
    <3> QED
      BY <2>1, <3>1 DEF Rings
  <2>3. Len(d.prns) \in Nat
    BY <2>1
  <2>4. c.k = Closed(n)!Advance(d.from, Len(d.prns))
    BY <2>3 DEF Round, Closed!Advance
  <2>5. ASSUME NEW i \in 1 .. Len(d.prns)
        PROVE  d.prns[i] = Closed(n)!PrnAt(ring, d.from, i)
    <3>1. d.from = 0 /\ d.prns[i] = c.list[((i - 1) % n) + 1]
      BY DEF Round
    <3>2. i - 1 \in Nat /\ 0 + i - 1 = i - 1
      BY <2>3
    <3>3. (i - 1) % n \in 0 .. n - 1
      BY <2>2, <3>2, DivFacts
    <3>4. ring[(i - 1) % n] = c.list[((i - 1) % n) + 1]
      BY <3>3
    <3> HIDE DEF ring, n, c, d
    <3> QED
      BY <3>1, <3>2, <3>4 DEF Closed!PrnAt
  <2> QED
    BY <2>4, <2>5
<1> QED
  BY <1>1, <1>2, <1>3, PrnInvariant, PTL DEF Spec
=============================================================================
