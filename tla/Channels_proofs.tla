-------------------------- MODULE Channels_proofs ---------------------------
(***************************************************************************)
(* Proofs about jel_embed and jel_extract over the channels of an image:   *)
(* the split of the message, the ring that goes from one channel to the    *)
(* next, and the message put together again.  They hold for every image,   *)
(* choice of components, density and message.                              *)
(***************************************************************************)
EXTENDS Channels, TLAPS

-----------------------------------------------------------------------------
(* Arithmetic.                                                             *)

\* Multiplication by a natural is monotone.
LEMMA Monotone ==
    ASSUME NEW a \in Nat, NEW b \in Nat, NEW c \in Nat, a <= b
    PROVE  c * a <= c * b
<1>1. PICK d \in Nat : b = a + d
  <2> b - a \in Nat /\ b = a + (b - a)
      OBVIOUS
  <2> QED
      OBVIOUS
<1>2. c * b = c * a + c * d
    BY <1>1
<1>3. c * a \in Nat /\ c * d \in Nat
    OBVIOUS
<1> QED
    BY <1>2, <1>3

\* A multiple that is not larger has a factor that is not larger.
LEMMA Cancel ==
    ASSUME NEW a \in Nat, NEW b \in Nat, NEW c \in Nat, NEW t \in Nat,
           t * a <= t * b + c, c < t
    PROVE  a <= b
<1> SUFFICES ASSUME a > b
             PROVE  FALSE
    OBVIOUS
<1>1. t * (b + 1) <= t * a
    BY Monotone
<1>2. t * (b + 1) = t * b + t
    OBVIOUS
<1>3. t * a \in Nat /\ t * b \in Nat
    OBVIOUS
<1> QED
    BY <1>1, <1>2, <1>3

\* The share of a channel, rounded down.
LEMMA ShareFacts ==
    ASSUME NEW a \in Nat, NEW n \in Nat, NEW t \in Nat \ {0}, a <= t, n <= t
    PROVE  LET s == (a * n) \div t
           IN  /\ s \in Nat
               /\ s <= a
               /\ t * s <= a * n
               /\ a * n < t * s + t
<1> DEFINE p == a * n
           s == p \div t
           r == p % t
<1>1. p \in Nat
    OBVIOUS
<1>2. p <= a * t /\ a * t = t * a /\ t * a \in Nat
    BY Monotone
<1> HIDE DEF p
<1>3. s \in Nat /\ r \in 0 .. t - 1 /\ p = t * s + r
    BY <1>1
<1> HIDE DEF s, r
<1>4. t * s \in Nat /\ t * s <= p /\ p < t * s + t
    BY <1>3
<1>5. s <= a
  <2>1. t * s <= t * a + 0
      BY <1>1, <1>2, <1>4
  <2> QED
      BY <1>3, <2>1, Cancel
<1> QED
    BY <1>3, <1>4, <1>5 DEF p, s

-----------------------------------------------------------------------------
(* The job.                                                                *)

\* What the settings of an exchange are.
LEMMA JobFacts ==
    ASSUME job \in Jobs
    PROVE  /\ job.mcus \in Images
           /\ job.mcus \in [Chans -> Nat \ {0}]
           /\ Len(job.use) \in 1 .. 3
           /\ Used(job.use) = 0 .. Len(job.use) - 1
           /\ Used(job.use) \subseteq Chans
           /\ \A c \in Used(job.use) :
                 /\ job.use[c + 1] \in Chans
                 /\ Mcus(job, c) \in Nat \ {0}
                 /\ Capacity(Mcus(job, c), job.density) > 0
           /\ job.len \in 0 .. MaxLen
           /\ job.len \in Nat
           /\ job.seeded \in BOOLEAN
           /\ job.sameKey \in BOOLEAN
           /\ job.density \in {Unspecified} \cup (1 .. 100)
           /\ job.receiver \in {Unspecified, job.density}
           /\ job.density \in Int
           /\ job.receiver \in Int
<1>1. /\ job.mcus \in Images /\ job.use \in Uses /\ job.len \in 0 .. MaxLen
      /\ job.seeded \in BOOLEAN /\ job.sameKey \in BOOLEAN
      /\ job.density \in Densities \cup {Unspecified}
      /\ job.receiver \in {Unspecified, job.density}
      /\ \A c \in Used(job.use) : Capacity(Mcus(job, c), job.density) > 0
    BY DEF Jobs
<1>2. job.mcus \in [Chans -> Nat \ {0}]
    BY <1>1, ChannelsAssumption DEF Chans
<1>3. /\ Len(job.use) \in 1 .. 3
      /\ \A i \in 1 .. Len(job.use) : job.use[i] \in 0 .. 2
  <2> DEFINE use == job.use
  <2>1. CASE \E a \in 0 .. 2 : job.use = <<a>>
      BY <2>1
  <2>2. CASE \E a, b \in 0 .. 2 : job.use = <<a, b>>
      BY <2>2
  <2>3. CASE \E a, b, c \in 0 .. 2 : job.use = <<a, b, c>>
      BY <2>3
  <2> QED
      BY <1>1, <2>1, <2>2, <2>3, ChannelsAssumption, SMTT(30)
<1>4. /\ Used(job.use) = 0 .. Len(job.use) - 1
      /\ Used(job.use) \subseteq Chans
      /\ \A c \in Used(job.use) : job.use[c + 1] \in Chans
    BY <1>3 DEF Used, Chans
<1>5. \A c \in Used(job.use) : Mcus(job, c) \in Nat \ {0}
    BY <1>2, <1>4 DEF Mcus
<1>6. /\ job.density \in {Unspecified} \cup (1 .. 100)
      /\ job.density \in Int /\ job.receiver \in Int
  <2>1. Densities \subseteq 1 .. 100 /\ Unspecified \in Int
      BY ChannelsAssumption DEF Unspecified
  <2>2. \A d \in Densities : d \in 1 .. 100 /\ d \in Int
      BY <2>1
  <2>3. job.density \in {Unspecified} \cup (1 .. 100) /\ job.density \in Int
      BY <1>1, <2>1, <2>2
  <2> QED
      BY <1>1, <2>1, <2>3
<1> QED
    BY <1>1, <1>2, <1>3, <1>4, <1>5, <1>6, ChannelsAssumption

\* The channels in use come one after the other.
LEMMA UsedFacts ==
    ASSUME job \in Jobs, NEW c \in Used(job.use)
    PROVE  /\ c \in Chans /\ c \in Nat /\ c < 3
           /\ \/ c = 0
              \/ /\ c - 1 \in Used(job.use) /\ c - 1 \in Chans
                 /\ c - 1 < c /\ c - 1 # Last
<1> DEFINE n == Len(job.use)
<1>1. n \in 1 .. 3
    BY JobFacts
<1>2. Used(job.use) = 0 .. n - 1 /\ Last = n - 1
    BY DEF Used, Last
<1> HIDE DEF n
<1>3. c \in 0 .. n - 1
    BY <1>2
<1>4. c \in Chans /\ c \in Nat /\ c < 3
    BY <1>1, <1>3 DEF Chans
<1>5. c # 0 => /\ c - 1 \in 0 .. n - 1 /\ c - 1 \in Chans
               /\ c - 1 < c /\ c - 1 # n - 1
    BY <1>1, <1>3 DEF Chans
<1> QED
    BY <1>2, <1>4, <1>5

\* The bytes of an image, and the capacity of a channel.
LEMMA CapacityNumber ==
    ASSUME NEW n \in Nat, NEW d \in Int
    PROVE  /\ ImageBits(n) \in Nat
           /\ MaxBytes(n) \in Nat
           /\ ImageCapacity(n, d) \in Int
           /\ ImageCapacity(n, d) <= ImageBits(n)
           /\ Capacity(n, d) \in Int
           /\ Capacity(n, d) <= MaxBytes(n)
<1> DEFINE b == ImageBits(n)
           p == d * b
           r == IF d > 0 /\ d < 100 THEN p \div 100 ELSE b
<1>1. b \in Nat /\ p \in Int
    BY ChannelAssumption DEF ImageBits
<1>2. d > 0 /\ d < 100 => p <= 100 * b
  <2> HAVE d > 0 /\ d < 100
  <2>1. b * d <= b * 100
      BY <1>1, Monotone
  <2> QED
      BY <1>1, <2>1
<1>3. ImageCapacity(n, d) = r
    BY DEF ImageCapacity
<1> HIDE DEF p
<1>4. r \in Int /\ r <= b
  <2> HIDE DEF b
  <2> QED
      BY <1>1, <1>2
<1> HIDE DEF r
<1>5. /\ Capacity(n, d) = (r \div 8) - 6
      /\ MaxBytes(n) = b \div 8
    BY <1>3 DEF Capacity, HeaderBits, MaxBytes
<1>6. b \div 8 \in Nat /\ (r \div 8) - 6 \in Int /\ (r \div 8) - 6 <= b \div 8
  <2> HIDE DEF b
  <2> QED
      BY <1>1, <1>4
<1> QED
    BY <1>1, <1>3, <1>4, <1>5, <1>6

\* The capacities both sides work with.
SenderCaps == Capacities(job, job.density)
ReceiverCaps == Capacities(job, job.receiver)

\* The sender's capacities are what the split is by.
LEMMA SenderCapsFacts ==
    ASSUME job \in Jobs
    PROVE  /\ SenderCaps \in [Chans -> Nat]
           /\ \A c \in Used(job.use) : SenderCaps[c] > 0
           /\ \A c \in Chans \ Used(job.use) : SenderCaps[c] = 0
           /\ Total(SenderCaps) \in Nat \ {0}
           /\ Total(SenderCaps) = SenderCaps[0] + SenderCaps[1] + SenderCaps[2]
<1>1. \A c \in Used(job.use) :
          Capacity(Mcus(job, c), job.density) \in Int
  <2>1. job.density \in Int /\ \A c \in Used(job.use) : Mcus(job, c) \in Nat
      BY JobFacts
  <2> QED
      BY <2>1, CapacityNumber
<1>2. /\ SenderCaps \in [Chans -> Nat]
      /\ \A c \in Used(job.use) : SenderCaps[c] > 0
      /\ \A c \in Chans \ Used(job.use) : SenderCaps[c] = 0
    BY <1>1, JobFacts DEF SenderCaps, Capacities
<1>3. 0 \in Used(job.use)
  <2>1. Len(job.use) \in 1 .. 3
      BY JobFacts
  <2> QED
      BY <2>1, SMTT(30) DEF Used
<1> QED
    BY <1>2, <1>3 DEF Total, Chans

\* The receiver's are not more than there are bytes.
LEMMA ReceiverCapsFacts ==
    ASSUME job \in Jobs
    PROVE  /\ ReceiverCaps \in [Chans -> Int]
           /\ \A c \in Used(job.use) : ReceiverCaps[c] <= MaxBytes(Mcus(job, c))
           /\ \A c \in Chans \ Used(job.use) : ReceiverCaps[c] = 0
<1>1. /\ job.receiver \in Int /\ Used(job.use) \subseteq Chans
      /\ \A c \in Used(job.use) : Mcus(job, c) \in Nat
    BY JobFacts
<1>2. \A c \in Used(job.use) :
          /\ Capacity(Mcus(job, c), job.receiver) \in Int
          /\ Capacity(Mcus(job, c), job.receiver) <= MaxBytes(Mcus(job, c))
    BY <1>1, CapacityNumber
<1> QED
    BY <1>1, <1>2 DEF ReceiverCaps, Capacities

\* The message, split.
Shares == Split(job.len, SenderCaps)

\* The shares add up to the message, or to what fits of it; each is within
\* the capacity of its channel, but for the byte of the first of three.
LEMMA SharesFacts ==
    ASSUME job \in Jobs
    PROVE  /\ Shares \in [Chans -> Nat]
           /\ Total(Shares) = Lesser(job.len, Total(SenderCaps))
           /\ Shares[1] <= SenderCaps[1]
           /\ Shares[2] <= SenderCaps[2]
           /\ Shares[0] <= SenderCaps[0] + (Last \div 2)
           /\ \A c \in Chans \ Used(job.use) : Shares[c] = 0
<1> DEFINE cap == SenderCaps
           t == Total(cap)
           n == Lesser(job.len, t)
           share == [c \in Chans |-> (cap[c] * n) \div t]
           s1 == (cap[1] * n) \div t
           s2 == (cap[2] * n) \div t
<1>1. /\ cap \in [Chans -> Nat] /\ t \in Nat \ {0}
      /\ t = cap[0] + cap[1] + cap[2]
      /\ \A c \in Used(job.use) : cap[c] > 0
      /\ \A c \in Chans \ Used(job.use) : cap[c] = 0
    BY SenderCapsFacts
<1>2. /\ Len(job.use) \in 1 .. 3 /\ job.len \in Nat
      /\ Used(job.use) = 0 .. Len(job.use) - 1
    BY JobFacts
<1>3. 0 \in Chans /\ 1 \in Chans /\ 2 \in Chans /\ Chans = {0, 1, 2}
    BY DEF Chans
<1> HIDE DEF cap, t
<1>4. n \in Nat /\ n <= t /\ n <= job.len
    BY <1>1, <1>2 DEF Lesser
<1>5. Shares = IF Len(job.use) = 1
                 THEN [c \in Chans |-> IF c = 0 THEN n ELSE 0]
                 ELSE [share EXCEPT ![0] = n - share[1] - share[2]]
    BY DEF Shares, Split, cap, t
<1> HIDE DEF n
<1>6. CASE Len(job.use) = 1
  <2>1. /\ cap[1] = 0 /\ cap[2] = 0 /\ Last \div 2 = 0
      BY <1>1, <1>2, <1>3, <1>6 DEF Last
  <2>2. Shares = [c \in Chans |-> IF c = 0 THEN n ELSE 0]
      BY <1>5, <1>6
  <2> QED
      BY <1>1, <1>2, <1>3, <1>4, <1>6, <2>1, <2>2 DEF Total, n, t, cap
<1>7. CASE Len(job.use) # 1
  <2> DEFINE p0 == cap[0] * n
             p1 == cap[1] * n
             p2 == cap[2] * n
             e1 == t * s1
             e2 == t * s2
  <2>1. /\ s1 \in Nat /\ s1 <= cap[1] /\ e1 <= p1 /\ p1 < e1 + t
        /\ s2 \in Nat /\ s2 <= cap[2] /\ e2 <= p2 /\ p2 < e2 + t
    <3>1. cap[1] \in Nat /\ cap[2] \in Nat /\ cap[1] <= t /\ cap[2] <= t
        BY <1>1, <1>3
    <3> QED
        BY <1>1, <1>4, <3>1, ShareFacts
  <2>2. p0 \in Nat /\ p1 \in Nat /\ p2 \in Nat /\ t * n = p0 + p1 + p2
      BY <1>1, <1>3, <1>4
  <2>3. p0 <= cap[0] * t /\ cap[0] * t \in Nat /\ cap[0] * t = t * cap[0]
      BY <1>1, <1>3, <1>4, Monotone
  <2>4. share[1] = s1 /\ share[2] = s2 /\ share \in [Chans -> Nat]
    <3>1. \A c \in Chans : (cap[c] * n) \div t \in Nat
      <4> TAKE c \in Chans
      <4> DEFINE p == cap[c] * n
      <4>1. p \in Nat
          BY <1>1, <1>4
      <4> HIDE DEF p
      <4> QED
          BY <1>1, <4>1 DEF p
    <3> QED
        BY <1>3, <3>1
  <2>5. cap[2] = 0 => s2 = 0
      BY <2>1
  <2> HIDE DEF s1, s2, share
  <2>6. e1 \in Nat /\ e2 \in Nat
      BY <1>1, <2>1
  <2>7. s1 + s2 <= n
    <3>1. t * (s1 + s2) = e1 + e2
        BY <1>1, <2>1
    <3>2. t * (s1 + s2) <= t * n + 0
        BY <2>1, <2>2, <2>6, <3>1
    <3> DEFINE s == s1 + s2
    <3>3. s \in Nat
        BY <2>1
    <3>4. t * s <= t * n + 0
        BY <3>2
    <3> HIDE DEF s
    <3>5. s <= n
        BY <1>1, <1>4, <3>3, <3>4, Cancel
    <3> QED
        BY <3>5 DEF s
  <2> DEFINE n0 == n - s1 - s2
  <2>8. n0 \in Nat /\ t * n = t * n0 + e1 + e2 /\ t * n0 \in Nat
    <3>1. n0 \in Nat /\ n = n0 + s1 + s2
        BY <1>4, <2>1, <2>7
    <3> HIDE DEF n0
    <3> QED
        BY <1>1, <2>1, <3>1
  <2> HIDE DEF n0
  <2>9. n0 <= cap[0] + (Last \div 2)
    <3> DEFINE c0 == cap[0]
               q == t * c0
    <3>1. c0 \in Nat /\ q \in Nat /\ p0 <= q
        BY <1>1, <1>3, <2>3
    <3>2. CASE Len(job.use) = 2
      <4>1. cap[2] = 0 /\ Last \div 2 = 0
          BY <1>1, <1>2, <1>3, <3>2 DEF Last
      <4>2. p2 = 0
          BY <1>4, <4>1
      <4> HIDE DEF p0, p1, p2, e1, e2, q
      <4>3. t * n0 <= q + (t - 1) /\ t - 1 \in Nat
          BY <1>1, <2>1, <2>2, <2>6, <2>8, <3>1, <4>2
      <4>4. n0 <= c0
        <5> HIDE DEF c0
        <5> QED
            BY <1>1, <2>8, <3>1, <4>3, Cancel DEF q
      <4> QED
          BY <3>1, <4>1, <4>4
    <3>3. CASE Len(job.use) = 3
      <4>1. Last \div 2 = 1
          BY <3>3 DEF Last
      <4>2. t * (c0 + 1) = q + t /\ c0 + 1 \in Nat
          BY <1>1, <3>1
      <4> HIDE DEF p0, p1, p2, e1, e2, q
      <4>3. t * n0 <= (q + t) + (t - 1) /\ t - 1 \in Nat
          BY <1>1, <2>1, <2>2, <2>6, <2>8, <3>1
      <4>4. n0 <= c0 + 1
        <5> HIDE DEF c0
        <5> DEFINE c1 == c0 + 1
        <5>1. t * n0 <= t * c1 + (t - 1) /\ c1 \in Nat
            BY <4>2, <4>3
        <5> HIDE DEF c1
        <5>2. t - 1 \in Nat /\ t - 1 < t /\ t \in Nat /\ n0 \in Nat
            BY <1>1, <2>8
        <5>3. n0 <= c1
            BY <5>1, <5>2, Cancel
        <5> QED
            BY <5>3 DEF c1
      <4> QED
          BY <3>1, <4>1, <4>4
    <3> QED
        BY <1>2, <1>7, <3>2, <3>3
  <2>10. Shares = [share EXCEPT ![0] = n0]
      BY <1>5, <1>7, <2>4 DEF n0
  <2>11. /\ Shares \in [Chans -> Nat]
         /\ Shares[0] = n0 /\ Shares[1] = s1 /\ Shares[2] = s2
      BY <1>3, <2>4, <2>8, <2>10
  <2>12. Total(Shares) = n
      BY <1>4, <2>1, <2>8, <2>11 DEF Total, n0
  <2>13. \A c \in Chans \ Used(job.use) : Shares[c] = 0
    <3>1. 0 \in Used(job.use) /\ 1 \in Used(job.use)
      <4>1. Len(job.use) \in {2, 3}
          BY <1>2, <1>7
      <4> QED
          BY <4>1, SMTT(30) DEF Used
    <3>2. \A c \in Chans \ Used(job.use) : c = 2 /\ cap[2] = 0
        BY <1>1, <1>3, <3>1
    <3> QED
        BY <2>5, <2>11, <3>2
  <2> QED
      BY <2>1, <2>9, <2>11, <2>12, <2>13 DEF cap, n, t
<1> QED
    BY <1>6, <1>7

-----------------------------------------------------------------------------
(* What goes into a channel.                                               *)

\* MCU 0 takes the 8 bits of the density whatever the packing, and of the MCUs
\* selected one may never be reached: with at most 4 bits in an MCU, or 8,
\* nothing is lost by this.  (With 5, 6, 7 or more than 8, a piece within the
\* capacity may be cut.)
HeaderPays == McuBits <= 4 \/ McuBits = 8

\* A piece within the capacity has no more bits than the channel, and no more
\* than the density leaves of it.
LEMMA DensityEnough ==
    ASSUME NEW n \in Nat \ {0}, NEW d \in {Unspecified} \cup (1 .. 100),
           NEW len \in Nat, len <= Capacity(n, d)
    PROVE  LET e == StreamDensity(n, d, len)
           IN  /\ e \in Nat
               /\ StreamBits(len) <= ImageBits(n)
               /\ 100 * StreamBits(len) <= e * ImageBits(n)
<1> DEFINE b == ImageBits(n)
           r == ImageCapacity(n, d)
           k == StreamBits(len)
           a == 100 * k + b - 1
           c == a \div b
           p == d * b
<1>1. d \in Int /\ r \in Int /\ b \in Nat /\ r <= b
    BY CapacityNumber DEF Unspecified
<1>2. k = 48 + 8 * len /\ k \in Nat \ {0}
    BY DEF StreamBits, HeaderBits
<1>3. Capacity(n, d) = (r \div 8) - 6
    BY DEF Capacity, HeaderBits
<1>4. r = IF d > 0 /\ d < 100 THEN p \div 100 ELSE b
    BY DEF ImageCapacity
<1>5. StreamDensity(n, d, len) =
          IF d # Unspecified THEN d ELSE IF c < 100 THEN c + 1 ELSE c
    BY DEF StreamDensity
<1>6. p \in Int
    BY <1>1
<1> HIDE DEF b, r, k
<1>7. k <= r /\ k <= b /\ b \in Nat \ {0}
    BY <1>1, <1>2, <1>3
<1>8. CASE d \in 1 .. 99
  <2> HIDE DEF p
  <2>1. 100 * k <= p
      BY <1>2, <1>4, <1>6, <1>7, <1>8
  <2> QED
      BY <1>5, <1>7, <1>8, <2>1 DEF b, k, p, Unspecified
<1>9. CASE d = 100
    BY <1>2, <1>5, <1>7, <1>9 DEF b, k, Unspecified
<1>10. CASE d = Unspecified
  <2> DEFINE q == b * c
             x == a % b
  <2>1. a \in Nat /\ 100 * k = a + 1 - b
      BY <1>2, <1>7
  <2> HIDE DEF a
  <2>2. c \in Nat /\ x \in 0 .. b - 1 /\ a = q + x
      BY <1>7, <2>1
  <2> HIDE DEF c, x
  <2>3. q \in Nat /\ c * b = q /\ (c + 1) * b = q + b
      BY <1>7, <2>2
  <2> HIDE DEF q
  <2>4. 100 * k <= q
      BY <1>2, <1>7, <2>1, <2>2, <2>3
  <2>5. 100 * k <= c * b /\ 100 * k <= (c + 1) * b
    <3>1. c * b \in Nat /\ c * b = q /\ (c + 1) * b = q + b
        BY <1>7, <2>2, <2>3
    <3> QED
        BY <1>2, <1>7, <2>3, <2>4, <3>1
  <2> DEFINE y == IF c < 100 THEN c + 1 ELSE c
  <2>6. y \in Nat /\ 100 * k <= y * b
      BY <2>2, <2>5
  <2>7. StreamDensity(n, d, len) = y
      BY <1>5, <1>10
  <2> HIDE DEF y
  <2> QED
      BY <1>7, <2>6, <2>7 DEF b, k
<1> QED
    BY <1>8, <1>9, <1>10

\* So it is stored whole, whichever MCUs the shuffle has selected.
LEMMA StoredWhole ==
    ASSUME HeaderPays,
           NEW n \in Nat \ {0}, NEW d \in {Unspecified} \cup (1 .. 100),
           NEW len \in Nat, len <= Capacity(n, d), NEW seeded \in BOOLEAN,
           NEW s \in Stored(n, seeded, StreamDensity(n, d, len), len)
    PROVE  s = StreamBits(len)
<1> DEFINE k == StreamBits(len)
           e == StreamDensity(n, d, len)
           m == e * n
           a == m \div 100
           r == m % 100
           M == McuBits
<1>1. /\ e \in Nat /\ k \in Nat /\ k = 8 * (6 + len)
      /\ k <= ImageBits(n) /\ 100 * k <= e * ImageBits(n)
  <2>1. /\ e \in Nat /\ k <= ImageBits(n)
        /\ 100 * k <= e * ImageBits(n)
      BY DensityEnough
  <2>2. k \in Nat /\ k = 8 * (6 + len)
      BY DEF StreamBits, HeaderBits
  <2> QED
      BY <2>1, <2>2
<1>2. M \in {1, 2, 3, 4, 8}
    BY ChannelAssumption DEF HeaderPays
<1>3. PICK f \in Fillable(n, seeded, e) : s = Lesser(k, 8 + M * f)
    BY DEF Stored
<1>4. Fillable(n, seeded, e) =
          LET active == Greater(a, 1)
          IN  IF ~seeded \/ active >= n THEN {n - 1}
              ELSE IF active = 1 THEN {1}
              ELSE {active - 1, active}
    BY DEF Fillable
<1>5. ImageBits(n) = M * n /\ m \in Nat
    BY <1>1, <1>2 DEF ImageBits
<1>6. e * (M * n) = M * m
    BY <1>1, <1>2
<1> HIDE DEF k, e, m
<1>7. a \in Nat /\ r \in 0 .. 99 /\ m = 100 * a + r
    BY <1>5
<1> HIDE DEF a, r
<1>8. f \in Nat /\ (f = n - 1 \/ f >= a - 1)
    BY <1>3, <1>4, <1>7 DEF Greater
<1>9. k <= M * n /\ 100 * k <= M * m
    BY <1>1, <1>5, <1>6
<1>10. k <= 8 + M * f
  <2>1. CASE f = n - 1
      BY <1>1, <1>2, <1>9, <2>1
  <2>2. CASE f >= a - 1
    <3>1. CASE M = 8
      <4>1. 100 * k <= 800 * a + 8 * 99
        <5>1. M * m = 8 * m
            BY <3>1
        <5>2. 100 * k <= 8 * m
            BY <1>9, <5>1
        <5> QED
            BY <1>1, <1>7, <5>2
      <4>2. k <= 8 * a
        <5> DEFINE z == 6 + len
        <5>1. z \in Nat /\ k = 8 * z
            BY <1>1
        <5> HIDE DEF z
        <5>2. z <= a
            BY <1>7, <4>1, <5>1
        <5> QED
            BY <1>7, <5>1, <5>2
      <4>3. M * f = 8 * f
          BY <3>1
      <4>4. k <= 8 + 8 * f
          BY <1>1, <1>7, <1>8, <2>2, <4>2
      <4> QED
          BY <4>3, <4>4
    <3>2. CASE M # 8
      <4>1. 100 * k <= 100 * (M * a) + 396
          BY <1>1, <1>2, <1>7, <1>9, <3>2
      <4>2. M * a <= M * f + M
          BY <1>2, <1>7, <1>8, <2>2
      <4> QED
          BY <1>1, <1>2, <1>7, <1>8, <3>2, <4>1, <4>2
    <3> QED
        BY <3>1, <3>2
  <2> QED
      BY <1>8, <2>1, <2>2
<1>11. M * f \in Nat
    BY <1>2, <1>8
<1> QED
    BY <1>1, <1>3, <1>10, <1>11 DEF Lesser, k

-----------------------------------------------------------------------------
(* The inductive invariant.                                                *)

\* Where the ring of a side that has done all channels before c stands.
RingOf(c) == IF c = 0 \/ ~job.seeded THEN Start ELSE Mcus(job, c - 1)

\* A channel the sender has dealt with.
Written(c) ==
    \/ nwedge[c] = JEL_ERR_MSG_OVERFLOW
    \/ /\ nwedge[c] = Shares[c]
       /\ image[c].from = From(Shares, c)
       /\ image[c].len = Shares[c]
       /\ c = 0 \/ nwedge[c - 1] >= 0 \/ ~job.seeded
             => image[c].ring = RingOf(c)
       /\ /\ HeaderPays
          /\ c = 0 \/ job.density # Unspecified
          /\ Shares[c] <= SenderCaps[c]
          => Whole(c)

\* The sender has dealt with the channels before n.
SentUpTo(n) ==
    \A c \in Chans :
        IF c \in Used(job.use) /\ c < n THEN Written(c)
                                        ELSE nwedge[c] = 0

\* Conditions under which EndToEnd promises the message.
Good ==
    /\ AllWhole
    /\ InKey
    /\ NoGap
    /\ \A c \in Used(job.use) : image[c].len <= ReceiverCaps[c]

\* The buffer has room for the largest image: some image has a component that
\* is not smaller than any other.
LargestImage ==
    \E i \in Images, c \in Chans :
        \A k \in Images, x \in Chans : MaxBytes(k[x]) <= MaxBytes(i[c])

\* The receiver has the piece of channel c.
Heard(c) ==
    /\ clen[c] = Shares[c]
    /\ lengths[c] = IF Shares[c] > 0 THEN Shares[c] ELSE ReceiverCaps[c]
    /\ \A i \in 0 .. Shares[c] - 1 :
          buffer[From(ReceiverCaps, c) + i] = From(Shares, c) + i

\* Types, as far as they are needed.
Typed ==
    /\ job \in Jobs
    /\ pc \in {"embed", "stuff", "extract", "unstuff", "done"}
    /\ chan \in 0 .. Len(job.use)
    /\ DOMAIN nwedge = Chans
    /\ DOMAIN image = Chans
    /\ DOMAIN lengths = Chans
    /\ DOMAIN clen = Chans
    /\ DOMAIN buffer = Places

\* What the sender has done.
SendInv ==
    /\ pc = "embed" => SentUpTo(0)
    /\ pc = "stuff" =>
          /\ SentUpTo(chan)
          /\ capacity = SenderCaps
          /\ lengths = Shares
          /\ chan = 0 \/ job.density # Unspecified => density = job.density
          /\ chan = 0 \/ nwedge[chan - 1] >= 0 \/ ~job.seeded
                => ring = RingOf(chan)
    /\ pc = "extract" => capacity = SenderCaps
    /\ pc \in {"extract", "unstuff", "done"} =>
          /\ SentUpTo(3)
          /\ AllWhole => embedded = Total(nwedge)

\* What the receiver has.
ReceiveInv ==
    /\ pc \in {"embed", "stuff", "extract"} => \A c \in Chans : clen[c] = 0
    /\ pc = "unstuff" =>
          /\ capacity = ReceiverCaps
          /\ chan = 0 \/ clen[chan - 1] > 0 \/ ~job.seeded
                => ring = RingOf(chan)
          /\ \A c \in Chans : c \notin Used(job.use) \/ c >= chan
                => clen[c] = 0 /\ lengths[c] = ReceiverCaps[c]
          /\ LargestImage /\ Good =>
                \A c \in Used(job.use) : c < chan => Heard(c)
    /\ pc = "done" => capacity = ReceiverCaps /\ (LargestImage => EndToEnd)

ChannelsInv == Typed /\ SendInv /\ ReceiveInv

-----------------------------------------------------------------------------
(* The job never changes, nor does what depends on it only.                *)

\* What is computed from the job alone stays.
LEMMA JobFrame ==
    ASSUME job' = job
    PROVE  /\ SenderCaps' = SenderCaps
           /\ ReceiverCaps' = ReceiverCaps
           /\ Shares' = Shares
           /\ \A c : RingOf(c)' = RingOf(c)
           /\ Last' = Last
           /\ InKey' = InKey
<1>1. SenderCaps' = SenderCaps /\ ReceiverCaps' = ReceiverCaps
    BY DEF SenderCaps, ReceiverCaps, Capacities, Used, Mcus
<1>2. Shares' = Shares
    BY <1>1 DEF Shares, Split
<1>3. \A c : RingOf(c)' = RingOf(c)
    BY DEF RingOf, Mcus
<1> QED
    BY <1>1, <1>2, <1>3 DEF Last, InKey

\* A channel stays dealt with if its entries stay.
LEMMA WrittenFrame ==
    ASSUME job' = job, NEW c,
           nwedge'[c] = nwedge[c], image'[c] = image[c],
           c = 0 \/ nwedge'[c - 1] = nwedge[c - 1],
           Written(c)
    PROVE  Written(c)'
<1>1. /\ SenderCaps' = SenderCaps /\ Shares' = Shares
      /\ RingOf(c)' = RingOf(c)
    BY JobFrame
<1>2. Whole(c)' = Whole(c)
    BY DEF Whole
<1>3. From(Shares, c)' = From(Shares, c)
    BY <1>1 DEF From
<1> HIDE DEF Shares, SenderCaps
<1> QED
    BY <1>1, <1>2, <1>3 DEF Written

\* All of it stays when the sender does nothing.
LEMMA SentFrame ==
    ASSUME UNCHANGED <<job, nwedge, image>>, NEW n, SentUpTo(n)
    PROVE  SentUpTo(n)'
<1> SUFFICES ASSUME NEW c \in Chans
             PROVE  IF c \in Used(job.use) /\ c < n THEN Written(c)'
                                                    ELSE nwedge'[c] = 0
    BY DEF SentUpTo
<1>1. IF c \in Used(job.use) /\ c < n THEN Written(c) ELSE nwedge[c] = 0
    BY DEF SentUpTo
<1> QED
    BY <1>1, WrittenFrame

\* The invariant holds initially.
LEMMA InvInit == Init => ChannelsInv
<1> SUFFICES ASSUME Init
             PROVE  ChannelsInv
    OBVIOUS
<1>1. Len(job.use) \in 1 .. 3 /\ job \in Jobs
    BY JobFacts DEF Init
<1>2. Typed
    BY <1>1 DEF Init, Typed
<1>3. SendInv
  <2>1. Used(job.use) = 0 .. Len(job.use) - 1
      BY DEF Used
  <2>2. SentUpTo(0)
      BY <1>1, <2>1 DEF Init, SentUpTo
  <2> QED
      BY <2>2 DEF Init, SendInv
<1>4. ReceiveInv
    BY DEF Init, ReceiveInv
<1> QED
    BY <1>2, <1>3, <1>4 DEF ChannelsInv

\* No step changes the job.
LEMMA JobStays == [Next]_vars => job' = job
BY DEF Next, EmbedBegin, StuffOverflow, StuffChannel, Stuffing, EmbedEnd,
       ExtractBegin, UnstuffFound, UnstuffMisread, Unstuffing, ExtractEnd, vars

\* The types stay.
LEMMA TypedNext == Typed /\ [Next]_vars => Typed'
<1> SUFFICES ASSUME Typed, [Next]_vars
             PROVE  Typed'
    OBVIOUS
<1>1. /\ job' = job
      /\ Len(job.use) \in 1 .. 3
      /\ chan \in Used(job.use) => chan + 1 \in 0 .. Len(job.use)
    BY JobStays, JobFacts DEF Typed, Used
<1>2. \A c, d : Capacities(c, d) = [x \in Chans |-> Capacities(c, d)[x]]
    BY DEF Capacities
<1>3. \A n, cap : DOMAIN Split(n, cap) = Chans
    BY DEF Split
<1> USE DEF Typed
<1>4. CASE EmbedBegin
    BY <1>1, <1>3, <1>4 DEF EmbedBegin
<1>5. CASE StuffOverflow
    BY <1>1, <1>5 DEF StuffOverflow, Stuffing
<1>6. CASE StuffChannel
    BY <1>1, <1>6 DEF StuffChannel, Stuffing
<1>7. CASE EmbedEnd
    BY <1>1, <1>7 DEF EmbedEnd
<1>8. CASE ExtractBegin
    BY <1>1, <1>2, <1>8 DEF ExtractBegin
<1>9. CASE UnstuffFound
    BY <1>1, <1>9 DEF UnstuffFound, Unstuffing, Deliver, GiveUp
<1>10. CASE UnstuffMisread
    BY <1>1, <1>10 DEF UnstuffMisread, Unstuffing, Deliver, GiveUp
<1>11. CASE ExtractEnd
    BY <1>1, <1>11 DEF ExtractEnd, Move
<1>12. CASE UNCHANGED vars
    BY <1>1, <1>12 DEF vars
<1> QED
    BY <1>4, <1>5, <1>6, <1>7, <1>8, <1>9, <1>10, <1>11, <1>12 DEF Next

-----------------------------------------------------------------------------
(* The sender.                                                             *)

\* Both ways of stuffing a channel deal with it.
LEMMA StuffWrites ==
    ASSUME ChannelsInv, StuffOverflow \/ StuffChannel,
           NEW c, c = chan
    PROVE  /\ c \in Used(job.use)
           /\ DOMAIN nwedge' = Chans
           /\ \A x \in Chans :
                 x # c => nwedge'[x] = nwedge[x] /\ image'[x] = image[x]
           /\ Written(c)'
<1>1. /\ job \in Jobs /\ job' = job /\ pc = "stuff" /\ c \in Used(job.use)
      /\ c \in Chans /\ c \in Nat
      /\ DOMAIN nwedge = Chans /\ DOMAIN image = Chans
    BY JobFacts
    DEF ChannelsInv, Typed, StuffOverflow, StuffChannel, Stuffing, Used
<1>2. /\ SentUpTo(c)
      /\ lengths = Shares
      /\ c = 0 \/ job.density # Unspecified => density = job.density
      /\ c = 0 \/ nwedge[c - 1] >= 0 \/ ~job.seeded => ring = RingOf(c)
    BY <1>1 DEF ChannelsInv, SendInv
<1>3. /\ SenderCaps' = SenderCaps /\ Shares' = Shares
      /\ RingOf(c)' = RingOf(c)
    BY <1>1, JobFrame
<1>4. /\ \A x \in Chans : x # c => nwedge'[x] = nwedge[x] /\ image'[x] = image[x]
      /\ DOMAIN nwedge' = Chans
    BY <1>1 DEF StuffOverflow, StuffChannel
<1>5. Written(c)'
  <2>1. CASE StuffOverflow
    <3>1. nwedge'[c] = JEL_ERR_MSG_OVERFLOW
        BY <1>1, <2>1 DEF StuffOverflow
    <3> QED
        BY <3>1 DEF Written
  <2>2. CASE StuffChannel
    <3> DEFINE n == Mcus(job, c)
               len == Shares[c]
               d == StreamDensity(n, density, len)
    <3>1. PICK s \in Stored(n, job.seeded, d, len) :
              image'[c] = [from |-> From(Shares, c), len |-> len,
                           stored |-> s, ring |-> ring]
        BY <1>1, <1>2, <2>2 DEF StuffChannel
    <3>2. nwedge'[c] = len
        BY <1>1, <1>2, <2>2 DEF StuffChannel
    <3>3. /\ n \in Nat \ {0} /\ len \in Nat /\ job.seeded \in BOOLEAN
          /\ job.density \in {Unspecified} \cup (1 .. 100)
        BY <1>1, JobFacts, SharesFacts
    <3>4. SenderCaps[c] = Capacity(n, job.density)
        BY <1>1 DEF SenderCaps, Capacities
    <3>5. ASSUME HeaderPays, c = 0 \/ job.density # Unspecified,
                 len <= SenderCaps[c]
          PROVE  s = StreamBits(len)
      <4>1. s \in Stored(n, job.seeded, StreamDensity(n, job.density, len), len)
          BY <1>2, <3>5
      <4> HIDE DEF n, len, d
      <4> QED
          BY <3>3, <3>4, <3>5, <4>1, StoredWhole
    <3>6. Whole(c)' <=> s = StreamBits(len)
        BY <3>1 DEF Whole
    <3>7. From(Shares, c)' = From(Shares, c)
        BY <1>3 DEF From
    <3>8. /\ image'[c].from = From(Shares, c) /\ image'[c].len = len
          /\ image'[c].ring = ring
        BY <3>1
    <3>9. c = 0 \/ (nwedge[c - 1] >= 0)' \/ ~job.seeded
             => image'[c].ring = RingOf(c)
      <4>1. c = 0 \/ nwedge'[c - 1] = nwedge[c - 1]
          BY <1>1, <1>4 DEF Chans
      <4> QED
          BY <1>2, <3>8, <4>1
    <3> HIDE DEF n, d
    <3> QED
        BY <1>1, <1>3, <3>2, <3>5, <3>6, <3>7, <3>8, <3>9 DEF Written
  <2> QED
      BY <2>1, <2>2
<1> QED
    BY <1>1, <1>4, <1>5

\* So there is one channel more that is dealt with.
LEMMA StuffSent ==
    ASSUME ChannelsInv, StuffOverflow \/ StuffChannel, NEW c, c = chan
    PROVE  SentUpTo(c + 1)'
<1>1. /\ job' = job /\ c \in Nat /\ SentUpTo(c)
    BY JobFacts
    DEF ChannelsInv, Typed, SendInv, StuffOverflow, StuffChannel, Stuffing
<1>2. /\ c \in Used(job.use)
      /\ \A x \in Chans : x # c => nwedge'[x] = nwedge[x] /\ image'[x] = image[x]
      /\ Written(c)'
    BY StuffWrites
<1> SUFFICES ASSUME NEW x \in Chans
             PROVE  IF x \in Used(job.use) /\ x < c + 1 THEN Written(x)'
                                                        ELSE nwedge'[x] = 0
    BY <1>1 DEF SentUpTo
<1>3. x \in Int
    BY DEF Chans
<1>4. CASE x = c
    BY <1>1, <1>2, <1>4
<1>5. CASE x # c
  <2>1. IF x \in Used(job.use) /\ x < c THEN Written(x) ELSE nwedge[x] = 0
      BY <1>1 DEF SentUpTo
  <2>2. /\ nwedge'[x] = nwedge[x] /\ image'[x] = image[x]
        /\ x < c + 1 <=> x < c
      BY <1>1, <1>2, <1>3, <1>5
  <2>3. x < c => x = 0 \/ nwedge'[x - 1] = nwedge[x - 1]
      BY <1>1, <1>2, <1>3 DEF Chans
  <2>4. CASE x \in Used(job.use) /\ x < c
      BY <1>1, <2>1, <2>2, <2>3, <2>4, WrittenFrame
  <2> QED
      BY <2>1, <2>2, <2>4
<1> QED
    BY <1>4, <1>5

\* The split is done, and the sender begins.
LEMMA SendBegin == ChannelsInv /\ EmbedBegin => SendInv'
<1> SUFFICES ASSUME ChannelsInv, EmbedBegin
             PROVE  SendInv'
    OBVIOUS
<1>1. /\ UNCHANGED <<job, nwedge, image>>
      /\ pc' = "stuff" /\ chan' = 0
      /\ capacity' = SenderCaps /\ lengths' = Shares
      /\ density' = job.density /\ ring' = Start
    BY DEF EmbedBegin, Shares, SenderCaps
<1>2. SentUpTo(0)
    BY DEF ChannelsInv, SendInv, EmbedBegin
<1>3. SentUpTo(0)'
    BY <1>1, <1>2, SentFrame
<1>4. SentUpTo(chan)'
    BY <1>1, <1>3 DEF SentUpTo
<1>5. SenderCaps' = SenderCaps /\ Shares' = Shares
    BY <1>1, JobFrame
<1>6. RingOf(chan)' = Start
    BY <1>1 DEF RingOf
<1> QED
    BY <1>1, <1>4, <1>5, <1>6 DEF SendInv

\* After a channel the sender is ready for the next one.
LEMMA SendChannel ==
    ChannelsInv /\ (StuffOverflow \/ StuffChannel) => SendInv'
<1> SUFFICES ASSUME ChannelsInv, StuffOverflow \/ StuffChannel
             PROVE  SendInv'
    OBVIOUS
<1> DEFINE c == chan
<1>1. /\ job' = job /\ job \in Jobs /\ pc = "stuff" /\ pc' = "stuff"
      /\ chan' = c + 1 /\ c \in Nat
      /\ UNCHANGED <<capacity, lengths>>
    BY JobFacts
    DEF ChannelsInv, Typed, StuffOverflow, StuffChannel, Stuffing
<1>2. /\ c \in Used(job.use)
      /\ c \in Chans
      /\ DOMAIN nwedge = Chans
    BY <1>1, JobFacts, StuffWrites DEF ChannelsInv, Typed
<1>3. /\ capacity = SenderCaps /\ lengths = Shares
      /\ c = 0 \/ job.density # Unspecified => density = job.density
      /\ c = 0 \/ nwedge[c - 1] >= 0 \/ ~job.seeded => ring = RingOf(c)
    BY <1>1 DEF ChannelsInv, SendInv
<1>4. SentUpTo(chan)'
  <2>1. PICK n : n = chan
      OBVIOUS
  <2>2. SentUpTo(n + 1)'
      BY <2>1, StuffSent
  <2> QED
      BY <1>1, <2>1, <2>2 DEF SentUpTo
<1>5. SenderCaps' = SenderCaps /\ Shares' = Shares
    BY <1>1, JobFrame
<1>6. chan' # 0 /\ chan' - 1 = c
    BY <1>1
<1>7. job.density # Unspecified => density' = job.density
    BY <1>3 DEF StuffOverflow, StuffChannel, StreamDensity
<1>8. RingOf(chan)' = IF job.seeded THEN Mcus(job, c) ELSE Start
    BY <1>1, <1>6 DEF RingOf, Mcus
<1>9. ~job.seeded => RingOf(c) = Start
    BY DEF RingOf
<1>10. nwedge'[c] >= 0 \/ ~job.seeded => ring' = RingOf(chan)'
  <2>1. CASE StuffOverflow
    <3>1. nwedge'[c] = -10
        BY <1>2, <2>1 DEF StuffOverflow, JEL_ERR_MSG_OVERFLOW
    <3>2. ring' = ring
        BY <2>1 DEF StuffOverflow
    <3> QED
        BY <1>3, <1>8, <1>9, <3>1, <3>2
  <2>2. CASE StuffChannel
      BY <1>3, <1>8, <1>9, <2>2 DEF StuffChannel, Turned
  <2> QED
      BY <2>1, <2>2
<1> HIDE DEF c
<1> QED
    BY <1>1, <1>3, <1>4, <1>5, <1>6, <1>7, <1>10 DEF SendInv

\* At its end all channels in use are dealt with.
LEMMA SendEnd == ChannelsInv /\ EmbedEnd => SendInv'
<1> SUFFICES ASSUME ChannelsInv, EmbedEnd
             PROVE  SendInv'
    OBVIOUS
<1>1. /\ UNCHANGED <<job, nwedge, image, capacity>>
      /\ job \in Jobs /\ pc = "stuff" /\ pc' = "extract"
      /\ chan \in 0 .. Len(job.use) /\ chan \notin Used(job.use)
    BY DEF EmbedEnd, ChannelsInv, Typed
<1>2. /\ Len(job.use) \in 1 .. 3
      /\ Used(job.use) = 0 .. Len(job.use) - 1
    BY <1>1, JobFacts
<1>3. SentUpTo(chan) /\ capacity = SenderCaps
    BY <1>1 DEF ChannelsInv, SendInv
<1>4. SentUpTo(3)
  <2>1. chan = Len(job.use)
      BY <1>1, <1>2
  <2>2. \A c \in Chans : c \in Used(job.use) => c < chan /\ c < 3
      BY <1>2, <2>1 DEF Used, Chans
  <2> QED
      BY <1>3, <2>2 DEF SentUpTo
<1>5. SentUpTo(3)'
    BY <1>1, <1>4, SentFrame
<1>6. AllWhole' => embedded' = Total(nwedge)'
  <2> HAVE AllWhole'
  <2>1. \A c \in Used(job.use) : nwedge[c] >= 0
      BY <1>1 DEF AllWhole
  <2>2. \A c \in Chans : c \notin Used(job.use) => nwedge[c] = 0
      BY <1>4 DEF SentUpTo
  <2>3. {c \in Chans : nwedge[c] < 0} = {}
    <3> SUFFICES ASSUME NEW c \in Chans, nwedge[c] < 0
                 PROVE  FALSE
        OBVIOUS
    <3>1. CASE c \in Used(job.use)
      <4>1. /\ Written(c) /\ Shares \in [Chans -> Nat]
          BY <1>1, <1>2, <1>4, <3>1, SharesFacts DEF SentUpTo
      <4>2. nwedge[c] \in Int
          BY <4>1 DEF Written, JEL_ERR_MSG_OVERFLOW
      <4> QED
          BY <2>1, <3>1, <4>2
    <3>2. CASE c \notin Used(job.use)
        BY <2>2, <3>2
    <3> QED
        BY <3>1, <3>2
  <2>4. embedded' = Total(nwedge)
      BY <2>3 DEF EmbedEnd
  <2> QED
      BY <1>1, <2>4 DEF Total
<1>7. SenderCaps' = SenderCaps
    BY <1>1, JobFrame
<1> QED
    BY <1>1, <1>3, <1>5, <1>6, <1>7 DEF SendInv

\* Nothing the receiver does changes it.
LEMMA SendStays ==
    ASSUME ChannelsInv, UNCHANGED <<job, nwedge, image, embedded>>,
           pc' \in {"unstuff", "done"}, pc \in {"extract", "unstuff", "done"}
    PROVE  SendInv'
<1>1. SentUpTo(3) /\ (AllWhole => embedded = Total(nwedge))
    BY DEF ChannelsInv, SendInv
<1>2. SentUpTo(3)'
    BY <1>1, SentFrame
<1>3. AllWhole' = AllWhole /\ Total(nwedge)' = Total(nwedge)
    BY DEF AllWhole, Whole, Total
<1> QED
    BY <1>1, <1>2, <1>3 DEF SendInv

\* Every step keeps what is said of the sender.
LEMMA SendNext == ChannelsInv /\ [Next]_vars => SendInv'
<1> SUFFICES ASSUME ChannelsInv, [Next]_vars
             PROVE  SendInv'
    OBVIOUS
<1>1. CASE EmbedBegin
    BY <1>1, SendBegin
<1>2. CASE StuffOverflow \/ StuffChannel
    BY <1>2, SendChannel
<1>3. CASE EmbedEnd
    BY <1>3, SendEnd
<1>4. CASE ExtractBegin \/ UnstuffFound \/ UnstuffMisread \/ ExtractEnd
  <2>1. /\ UNCHANGED <<job, nwedge, image, embedded>>
        /\ pc' \in {"unstuff", "done"} /\ pc \in {"extract", "unstuff"}
      BY <1>4 DEF ExtractBegin, UnstuffFound, UnstuffMisread, Unstuffing,
                  ExtractEnd
  <2> QED
      BY <2>1, SendStays
<1>5. CASE UNCHANGED vars
  <2>1. /\ UNCHANGED <<job, nwedge, image>>
        /\ UNCHANGED <<pc, chan, capacity, lengths, density, ring, embedded>>
      BY <1>5 DEF vars
  <2>2. /\ SenderCaps' = SenderCaps /\ Shares' = Shares
        /\ RingOf(chan)' = RingOf(chan)
      BY <2>1, JobFrame DEF RingOf, Mcus
  <2>3. pc = "embed" => SentUpTo(0)'
      BY <2>1, SentFrame DEF ChannelsInv, SendInv
  <2>4. pc = "stuff" => SentUpTo(chan)'
    <3>1. PICK n : n = chan
        OBVIOUS
    <3>2. pc = "stuff" => SentUpTo(n)'
        BY <2>1, <3>1, SentFrame DEF ChannelsInv, SendInv
    <3> QED
        BY <2>1, <3>1, <3>2 DEF SentUpTo
  <2>5. pc \in {"extract", "unstuff", "done"} => SentUpTo(3)'
      BY <2>1, SentFrame DEF ChannelsInv, SendInv
  <2>6. AllWhole' = AllWhole /\ Total(nwedge)' = Total(nwedge)
      BY <2>1 DEF AllWhole, Whole, Total
  <2> QED
      BY <2>1, <2>2, <2>3, <2>4, <2>5, <2>6 DEF ChannelsInv, SendInv
<1> QED
    BY <1>1, <1>2, <1>3, <1>4, <1>5 DEF Next

\* What the split promises holds while the sender is at work, and what goes
\* into the channels when it is done.
LEMMA InvSplit == HeaderPays /\ ChannelsInv => SplitFits
<1> SUFFICES ASSUME HeaderPays, ChannelsInv
             PROVE  MessageSplit /\ PieceFits
    BY DEF SplitFits
<1>1. job \in Jobs
    BY DEF ChannelsInv, Typed
<1>2. MessageSplit
  <2> SUFFICES ASSUME pc = "stuff"
               PROVE  /\ Total(lengths) = Lesser(job.len, Total(capacity))
                      /\ \A c \in 1 .. 2 : lengths[c] \in 0 .. capacity[c]
                      /\ lengths[0] \in 0 .. capacity[0] + (Last \div 2)
      BY DEF MessageSplit
  <2>1. capacity = SenderCaps /\ lengths = Shares
      BY DEF ChannelsInv, SendInv
  <2>2. \A c \in Chans : Shares[c] \in Nat /\ SenderCaps[c] \in Nat
      BY <1>1, SharesFacts, SenderCapsFacts
  <2>3. Last \div 2 \in Int
    <3>1. Len(job.use) \in Int
        BY <1>1, JobFacts
    <3> QED
        BY <3>1 DEF Last
  <2> HIDE DEF Last
  <2> QED
      BY <1>1, <2>1, <2>2, <2>3, SharesFacts DEF Chans
<1>3. PieceFits
  <2> SUFFICES ASSUME pc = "extract", NEW c \in Used(job.use),
                      nwedge[c] >= 0, image[c].len <= capacity[c],
                      c = 0 \/ job.density # Unspecified
               PROVE  Whole(c)
      BY DEF PieceFits
  <2>1. SentUpTo(3) /\ capacity = SenderCaps
      BY DEF ChannelsInv, SendInv
  <2>2. c \in Chans /\ c < 3
      BY <1>1, JobFacts DEF Chans
  <2>3. Written(c)
      BY <2>1, <2>2 DEF SentUpTo
  <2> QED
      BY <2>1, <2>3 DEF Written, JEL_ERR_MSG_OVERFLOW
<1> QED
    BY <1>2, <1>3

-----------------------------------------------------------------------------
(* The receiver.                                                           *)

\* The receiver's capacities are filled in.
LEMMA ReceiveBegin == ChannelsInv /\ ExtractBegin => ReceiveInv'
<1> SUFFICES ASSUME ChannelsInv, ExtractBegin
             PROVE  ReceiveInv'
    OBVIOUS
<1>1. /\ UNCHANGED <<job, clen>> /\ job \in Jobs
      /\ pc = "extract" /\ pc' = "unstuff" /\ chan' = 0
      /\ capacity' = ReceiverCaps /\ lengths' = ReceiverCaps
      /\ ring' = Start
    BY DEF ExtractBegin, ReceiverCaps, ChannelsInv, Typed
<1>2. \A c \in Chans : clen[c] = 0
    BY <1>1 DEF ChannelsInv, ReceiveInv
<1>3. ReceiverCaps' = ReceiverCaps
    BY <1>1, JobFrame
<1>4. RingOf(chan)' = Start
    BY <1>1 DEF RingOf
<1>5. \A c \in Used(job.use) : ~ c < 0
    BY <1>1, JobFacts DEF Chans
<1> QED
    BY <1>1, <1>2, <1>3, <1>4, <1>5 DEF ReceiveInv

\* The sender's steps leave the receiver waiting.
LEMMA ReceiveWaits ==
    ASSUME ChannelsInv, clen' = clen,
           pc \in {"embed", "stuff"}, pc' \in {"stuff", "extract"}
    PROVE  ReceiveInv'
BY DEF ChannelsInv, ReceiveInv

\* The conditions of EndToEnd depend on what the sender has left.
LEMMA GoodStays ==
    ASSUME UNCHANGED <<job, nwedge, image>>
    PROVE  Good' = Good
<1>1. AllWhole' = AllWhole /\ NoGap' = NoGap
    BY JobFrame DEF AllWhole, Whole, NoGap
<1>2. ReceiverCaps' = ReceiverCaps /\ InKey' = InKey
    BY JobFrame
<1> QED
    BY <1>1, <1>2 DEF Good

\* The buffer has a place for every byte within three capacities.
LEMMA PlacesFacts ==
    ASSUME LargestImage, job \in Jobs, NEW p \in Nat,
           NEW a \in Int, NEW b \in Int, NEW d \in Int,
           \A x \in {a, b, d} :
              x = 0 \/ \E c \in Chans : x <= MaxBytes(job.mcus[c]),
           p < a + b + d
    PROVE  p \in Places
<1> DEFINE S == {MaxBytes(i[c]) : i \in Images, c \in Chans}
<1>1. \A i \in Images, c \in Chans : i[c] \in Nat /\ MaxBytes(i[c]) \in Nat
  <2> TAKE i \in Images, c \in Chans
  <2>1. i[c] \in Nat
      BY ChannelsAssumption DEF Chans
  <2>2. 0 \in Int
      OBVIOUS
  <2> QED
      BY <2>1, <2>2, CapacityNumber
<1>2. PICK m \in S : \A y \in S : y <= m
    BY DEF LargestImage
<1>3. m \in Nat /\ \A y \in S : y \in Nat
    BY <1>1, <1>2
<1>4. Max(S) \in S /\ \A y \in S : Max(S) >= y
  <2>1. m \in S /\ \A y \in S : m >= y
      BY <1>2, <1>3
  <2> HIDE DEF S
  <2> QED
      BY <2>1 DEF Max
<1>5. \A c \in Chans : MaxBytes(job.mcus[c]) \in S
    BY JobFacts
<1>6. Places = 0 .. 3 * Max(S) - 1
    BY DEF Places
<1> HIDE DEF S
<1> DEFINE largest == Max(S)
<1>7. largest \in Nat /\ \A y \in S : y \in Nat /\ y <= largest
    BY <1>3, <1>4
<1> HIDE DEF largest
<1>8. \A x \in {a, b, d} : x <= largest
  <2> TAKE x \in {a, b, d}
  <2>1. CASE x = 0
      BY <1>7, <2>1
  <2>2. CASE \E c \in Chans : x <= MaxBytes(job.mcus[c])
    <3>1. PICK c \in Chans : x <= MaxBytes(job.mcus[c])
        BY <2>2
    <3>2. MaxBytes(job.mcus[c]) \in Nat /\ MaxBytes(job.mcus[c]) <= largest
        BY <1>5, <1>7
    <3>3. x \in Int
        OBVIOUS
    <3> HIDE DEF MaxBytes
    <3> QED
        BY <1>7, <3>1, <3>2, <3>3
  <2> QED
      BY <2>1, <2>2
<1>9. a <= largest /\ b <= largest /\ d <= largest
    BY <1>8
<1> QED
    BY <1>6, <1>7, <1>9 DEF largest

\* Under the conditions of EndToEnd every channel in use holds its share, and
\* the receiver has the capacity for it.
LEMMA GoodFacts ==
    ASSUME job \in Jobs, SentUpTo(3), Good
    PROVE  /\ \A c \in Chans :
                 /\ Shares[c] \in Nat
                 /\ ReceiverCaps[c] \in Nat
                 /\ Shares[c] <= ReceiverCaps[c]
                 /\ nwedge[c] = Shares[c]
           /\ \A c \in Used(job.use) :
                 /\ image[c].from = From(Shares, c)
                 /\ image[c].len = Shares[c]
                 /\ image[c].stored = StreamBits(Shares[c])
                 /\ image[c].ring = RingOf(c)
<1>1. /\ \A c \in Chans : Shares[c] \in Nat /\ ReceiverCaps[c] \in Int
      /\ \A c \in Chans : c \notin Used(job.use) =>
            Shares[c] = 0 /\ ReceiverCaps[c] = 0 /\ nwedge[c] = 0
    BY SharesFacts, ReceiverCapsFacts DEF SentUpTo
<1>2. ASSUME NEW c \in Used(job.use)
      PROVE  /\ nwedge[c] = Shares[c]
             /\ image[c].from = From(Shares, c)
             /\ image[c].len = Shares[c]
             /\ image[c].stored = StreamBits(Shares[c])
             /\ image[c].ring = RingOf(c)
  <2>1. c \in Chans /\ c < 3 /\ (c = 0 \/ c - 1 \in Used(job.use))
      BY UsedFacts
  <2>2. Written(c) /\ nwedge[c] >= 0 /\ Whole(c)
      BY <2>1 DEF SentUpTo, Good, AllWhole
  <2>3. c = 0 \/ nwedge[c - 1] >= 0
      BY <2>1 DEF Good, AllWhole
  <2> QED
      BY <2>2, <2>3 DEF Written, Whole, JEL_ERR_MSG_OVERFLOW
<1>3. \A c \in Used(job.use) : Shares[c] <= ReceiverCaps[c]
    BY <1>2 DEF Good
<1>4. \A c \in Chans :
          /\ ReceiverCaps[c] \in Nat
          /\ Shares[c] <= ReceiverCaps[c]
          /\ nwedge[c] = Shares[c]
  <2> TAKE c \in Chans
  <2>1. CASE c \in Used(job.use)
      BY <1>1, <1>2, <1>3, <2>1
  <2>2. CASE c \notin Used(job.use)
      BY <1>1, <2>2
  <2> QED
      BY <2>1, <2>2
<1> QED
    BY <1>1, <1>2, <1>4

\* The buffer has a place for each of these bytes, before and after the
\* pieces are moved together.
LEMMA GoodPlaces ==
    ASSUME LargestImage, job \in Jobs,
           \A c \in Chans : ReceiverCaps[c] \in Nat,
           NEW p \in Nat, p < Total(ReceiverCaps)
    PROVE  p \in Places
<1>1. \A c \in Chans :
          \/ ReceiverCaps[c] = 0
          \/ \E x \in Chans : ReceiverCaps[c] <= MaxBytes(job.mcus[x])
  <2> TAKE c \in Chans
  <2>1. CASE c \in Used(job.use)
      BY <2>1, ReceiverCapsFacts, JobFacts DEF Mcus
  <2>2. CASE c \notin Used(job.use)
      BY <2>2, ReceiverCapsFacts
  <2> QED
      BY <2>1, <2>2
<1> DEFINE a == ReceiverCaps[0]
           b == ReceiverCaps[1]
           d == ReceiverCaps[2]
<1>2. a \in Int /\ b \in Int /\ d \in Int /\ p < a + b + d
    BY DEF Chans, Total
<1>3. \A x \in {a, b, d} :
          x = 0 \/ \E c \in Chans : x <= MaxBytes(job.mcus[c])
    BY <1>1 DEF Chans
<1> HIDE DEF a, b, d
<1> QED
    BY <1>2, <1>3, PlacesFacts

\* The receiver is then in step at every channel, and finds the piece.
LEMMA GoodInStep ==
    ASSUME LargestImage, ChannelsInv, Good,
           pc = "unstuff", chan \in Used(job.use)
    PROVE  /\ InStep
           /\ Found(Mcus(job, chan), image[chan].len, image[chan].stored,
                    lengths[chan]) = Shares[chan]
<1>1. /\ job \in Jobs /\ SentUpTo(3)
      /\ chan = 0 \/ clen[chan - 1] > 0 \/ ~job.seeded => ring = RingOf(chan)
      /\ \A c \in Used(job.use) : c < chan => Heard(c)
    BY DEF ChannelsInv, Typed, SendInv, ReceiveInv
<1>2. /\ chan \in Chans
      /\ chan = 0 \/ (chan - 1 \in Used(job.use) /\ chan - 1 \in Chans
                        /\ chan - 1 < chan /\ chan - 1 # Last)
    BY <1>1, UsedFacts
<1>3. /\ Shares[chan] \in Nat /\ ReceiverCaps[chan] \in Nat
      /\ Shares[chan] <= ReceiverCaps[chan]
      /\ nwedge[chan] = Shares[chan] /\ image[chan].len = Shares[chan]
      /\ image[chan].stored = StreamBits(Shares[chan])
      /\ image[chan].ring = RingOf(chan)
    BY <1>1, <1>2, GoodFacts
<1>4. job.seeded => ring = RingOf(chan)
  <2> SUFFICES ASSUME job.seeded, chan # 0
               PROVE  clen[chan - 1] > 0
      BY <1>1
  <2> DEFINE e == chan - 1
  <2>1. e \in Used(job.use) /\ e \in Chans /\ e < chan /\ e # Last
      BY <1>2
  <2>2. clen[e] = Shares[e] /\ Shares[e] \in Nat /\ image[e].len = Shares[e]
    <3> HIDE DEF e
    <3> QED
        BY <1>1, <2>1, GoodFacts DEF Heard
  <2>3. image[e].len # 0
    <3> HIDE DEF e
    <3> QED
        BY <2>1 DEF Good, NoGap
  <2> QED
      BY <2>2, <2>3
<1>5. InStep
    BY <1>3, <1>4 DEF InStep, Good, InKey
<1>6. ReceiverCaps[chan] <= MaxBytes(Mcus(job, chan))
      /\ MaxBytes(Mcus(job, chan)) \in Nat
  <2>1. Mcus(job, chan) \in Nat /\ 0 \in Int
      BY <1>1, JobFacts
  <2> QED
      BY <1>1, <2>1, ReceiverCapsFacts, CapacityNumber
<1> DEFINE top == MaxBytes(Mcus(job, chan))
<1>7. Found(Mcus(job, chan), Shares[chan], StreamBits(Shares[chan]),
            lengths[chan]) = Shares[chan]
  <2>1. top \in Nat /\ ~ Shares[chan] > top
    <3> HIDE DEF top
    <3> QED
        BY <1>3, <1>6 DEF top
  <2>2. ~ StreamBits(Shares[chan]) < HeaderBits
      BY <1>3 DEF StreamBits, HeaderBits
  <2> HIDE DEF top
  <2> QED
      BY <2>1, <2>2 DEF Found, top
<1> QED
    BY <1>3, <1>5, <1>7

\* Whatever the receiver takes from a channel, it goes on to the next one;
\* if it took anything its ring is where the sender's was.
LEMMA UnstuffFrame ==
    ASSUME ChannelsInv, UnstuffFound \/ UnstuffMisread, NEW c, c = chan
    PROVE  /\ UNCHANGED <<job, capacity, image, nwedge, embedded>>
           /\ pc = "unstuff" /\ pc' = "unstuff"
           /\ chan' = c + 1 /\ c \in Used(job.use)
           /\ \A x \in Chans : x # c =>
                 clen'[x] = clen[x] /\ lengths'[x] = lengths[x]
           /\ clen'[c] > 0 \/ ~job.seeded => ring' = RingOf(c + 1)
<1>1. /\ UNCHANGED <<job, capacity, image, nwedge, embedded>>
      /\ pc = "unstuff" /\ pc' = "unstuff"
      /\ chan' = c + 1 /\ c \in Used(job.use)
    BY DEF UnstuffFound, UnstuffMisread, Unstuffing
<1>2. PICK n, bytes :
          /\ clen' = [clen EXCEPT ![c] = n]
          /\ IF n > 0 THEN Deliver(n, bytes) ELSE GiveUp
  <2>1. CASE UnstuffFound
      BY <2>1 DEF UnstuffFound
  <2>2. CASE UnstuffMisread
      BY <2>2 DEF UnstuffMisread
  <2> QED
      BY <2>1, <2>2
<1>3. /\ job \in Jobs /\ DOMAIN clen = Chans /\ DOMAIN lengths = Chans
      /\ c = 0 \/ clen[c - 1] > 0 \/ ~job.seeded => ring = RingOf(c)
    BY <1>1 DEF ChannelsInv, Typed, ReceiveInv
<1>4. c \in Chans /\ c \in Nat
    BY <1>1, <1>3, UsedFacts
<1>5. \A x \in Chans : x # c =>
          clen'[x] = clen[x] /\ lengths'[x] = lengths[x]
    BY <1>2, <1>3 DEF Deliver, GiveUp
<1>6. clen'[c] = n
    BY <1>2, <1>3, <1>4
<1>7. RingOf(c + 1) = IF job.seeded THEN Mcus(job, c) ELSE Start
  <2>1. c + 1 # 0 /\ (c + 1) - 1 = c
      BY <1>4
  <2> QED
      BY <2>1 DEF RingOf
<1>8. ~job.seeded => RingOf(c) = Start
    BY DEF RingOf
<1>9. CASE n > 0
  <2>1. ring' = IF job.seeded THEN Mcus(job, c) ELSE ring
      BY <1>2, <1>9 DEF Deliver, Turned
  <2> QED
      BY <1>1, <1>3, <1>5, <1>7, <1>8, <2>1
<1>10. CASE ~ n > 0
  <2>1. ring' = IF job.seeded THEN Lost ELSE ring
      BY <1>2, <1>10 DEF GiveUp
  <2> QED
      BY <1>1, <1>3, <1>5, <1>6, <1>7, <1>8, <1>10, <2>1
<1> QED
    BY <1>9, <1>10

\* Where the pieces are, by the capacities.
LEMMA FromFacts ==
    ASSUME NEW f, \A c \in Chans : f[c] \in Nat
    PROVE  /\ \A c \in Chans : From(f, c) \in Nat
           /\ \A c, d \in Chans : c < d => From(f, c) + f[c] <= From(f, d)
           /\ \A c \in Chans : From(f, c) + f[c] <= Total(f)
<1>1. f[0] \in Nat /\ f[1] \in Nat /\ f[2] \in Nat
    BY DEF Chans
<1>2. From(f, 0) = 0 /\ From(f, 1) = f[0] /\ From(f, 2) = f[0] + f[1]
    BY DEF From
<1> QED
    BY <1>1, <1>2 DEF Chans, Total

\* Under the conditions of EndToEnd it takes the piece, and disturbs none of
\* those it has.
LEMMA UnstuffHears ==
    ASSUME LargestImage, ChannelsInv, Good, UnstuffFound \/ UnstuffMisread,
           NEW c \in Used(job.use), c <= chan
    PROVE  Heard(c)'
<1>1. /\ UNCHANGED <<job, capacity, image, nwedge, embedded>>
      /\ pc = "unstuff" /\ chan \in Used(job.use)
      /\ \A x \in Chans : x # chan =>
            clen'[x] = clen[x] /\ lengths'[x] = lengths[x]
    BY UnstuffFrame
<1>2. /\ job \in Jobs /\ SentUpTo(3) /\ capacity = ReceiverCaps
      /\ \A x \in Used(job.use) : x < chan => Heard(x)
      /\ \A x \in Chans : x >= chan => lengths[x] = ReceiverCaps[x]
      /\ DOMAIN clen = Chans /\ DOMAIN lengths = Chans
    BY <1>1 DEF ChannelsInv, Typed, SendInv, ReceiveInv
<1>3. /\ chan \in Chans /\ chan \in Nat /\ c \in Chans /\ c \in Nat
      /\ \A x \in Chans :
            /\ Shares[x] \in Nat /\ ReceiverCaps[x] \in Nat
            /\ Shares[x] <= ReceiverCaps[x]
      /\ image[chan].from = From(Shares, chan)
      /\ image[chan].len = Shares[chan]
      /\ image[chan].stored = StreamBits(Shares[chan])
    BY <1>1, <1>2, UsedFacts, GoodFacts
<1>4. InStep /\ Found(Mcus(job, chan), image[chan].len, image[chan].stored,
                      lengths[chan]) = Shares[chan]
    BY <1>1, GoodInStep
<1>5. UnstuffFound
    BY <1>4 DEF UnstuffMisread
<1> DEFINE n == Shares[chan]
           caps == ReceiverCaps
           bytes == [i \in 0 .. n - 1 |->
                       IF /\ i < image[chan].len
                          /\ Readable(i, image[chan].stored, capacity[chan])
                         THEN image[chan].from + i ELSE Junk]
<1>6. /\ clen' = [clen EXCEPT ![chan] = n]
      /\ IF n > 0 THEN Deliver(n, bytes) ELSE GiveUp
    BY <1>4, <1>5 DEF UnstuffFound
<1>7. \A i \in 0 .. n - 1 : bytes[i] = From(Shares, chan) + i
  <2> TAKE i \in 0 .. n - 1
  <2>1. i < n /\ i < capacity[chan] /\ StreamBits(i + 1) <= StreamBits(n)
      BY <1>2, <1>3 DEF StreamBits, HeaderBits
  <2>2. Readable(i, image[chan].stored, capacity[chan])
      BY <1>3, <2>1 DEF Readable
  <2> QED
      BY <1>3, <2>1, <2>2
<1>8. n \in Nat /\ clen'[chan] = n
    BY <1>2, <1>3, <1>6
<1> HIDE DEF bytes
<1>9. /\ Shares' = Shares /\ ReceiverCaps' = ReceiverCaps
      /\ From(Shares, c)' = From(Shares, c)
      /\ From(ReceiverCaps, c)' = From(ReceiverCaps, c)
    BY <1>1, JobFrame DEF From
<1>10. \A i \in 0 .. Shares[c] - 1 :
           /\ From(caps, c) + i \in Places
           /\ c < chan => From(caps, c) + i < From(caps, chan)
           /\ From(caps, c) \in Nat /\ From(caps, chan) \in Nat
  <2> TAKE i \in 0 .. Shares[c] - 1
  <2>1. /\ From(caps, c) \in Nat /\ From(caps, chan) \in Nat
        /\ c < chan => From(caps, c) + caps[c] <= From(caps, chan)
        /\ From(caps, c) + caps[c] <= Total(caps)
      BY <1>3, FromFacts
  <2>2. caps[0] \in Nat /\ caps[1] \in Nat /\ caps[2] \in Nat
      BY <1>3 DEF Chans
  <2>3. Total(caps) \in Nat
      BY <2>2 DEF Total
  <2>4. i \in Nat /\ i < caps[c] /\ caps[c] \in Nat
      BY <1>3
  <2> DEFINE p == From(caps, c) + i
  <2>5. p \in Nat /\ p < Total(caps)
      BY <2>1, <2>3, <2>4
  <2>6. p \in Places
    <3> HIDE DEF p
    <3> QED
        BY <1>2, <1>3, <2>5, GoodPlaces
  <2> QED
      BY <2>1, <2>4, <2>6
<1>11. n > 0 => \A p \in Places :
           buffer'[p] = IF From(caps, chan) <= p /\ p < From(caps, chan) + n
                          THEN bytes[p - From(caps, chan)] ELSE buffer[p]
    BY <1>2, <1>6 DEF Deliver, Pointer
<1>12. n > 0 \/ buffer' = buffer
    BY <1>6 DEF GiveUp
<1>13. CASE c = chan
  <2>1. lengths'[c] = IF n > 0 THEN n ELSE ReceiverCaps[c]
      BY <1>2, <1>3, <1>6, <1>13 DEF Deliver, GiveUp
  <2>2. ASSUME NEW i \in 0 .. Shares[c] - 1
        PROVE  buffer'[From(caps, c) + i] = From(Shares, c) + i
    <3>1. n > 0 /\ i \in 0 .. n - 1 /\ i \in Nat
        BY <1>8, <1>13
    <3> DEFINE f == From(caps, c)
               p == f + i
    <3>2. f \in Nat /\ p \in Places
        BY <1>10
    <3>3. p - f = i /\ f <= p /\ p < f + n
      <4> HIDE DEF f
      <4> QED
          BY <1>8, <3>1, <3>2
    <3> HIDE DEF p, f
    <3>4. buffer'[p] = bytes[i]
        BY <1>11, <1>13, <3>1, <3>2, <3>3 DEF f
    <3> QED
        BY <1>7, <1>13, <3>1, <3>4 DEF p, f
  <2> QED
      BY <1>8, <1>9, <1>13, <2>1, <2>2 DEF Heard
<1>14. CASE c # chan
  <2>1. c < chan /\ Heard(c)
      BY <1>2, <1>3, <1>14
  <2>2. clen'[c] = clen[c] /\ lengths'[c] = lengths[c]
      BY <1>1, <1>3, <1>14
  <2>3. ASSUME NEW i \in 0 .. Shares[c] - 1
        PROVE  buffer'[From(caps, c) + i] = From(Shares, c) + i
    <3> DEFINE p == From(caps, c) + i
    <3>1. p \in Places /\ ~ From(caps, chan) <= p
      <4>1. p \in Places /\ p < From(caps, chan)
            /\ From(caps, c) \in Nat /\ From(caps, chan) \in Nat /\ i \in Nat
          BY <1>10, <2>1
      <4> QED
          BY <4>1
    <3>2. buffer[p] = From(Shares, c) + i
        BY <2>1 DEF Heard
    <3> HIDE DEF p
    <3>3. buffer'[p] = buffer[p]
        BY <1>11, <1>12, <3>1
    <3> QED
        BY <3>2, <3>3 DEF p
  <2> QED
      BY <1>9, <2>1, <2>2, <2>3 DEF Heard
<1> QED
    BY <1>13, <1>14

\* After a channel the receiver is ready for the next one.
LEMMA ReceiveChannel ==
    ASSUME ChannelsInv, UnstuffFound \/ UnstuffMisread
    PROVE  ReceiveInv'
<1> DEFINE c == chan
<1>1. /\ UNCHANGED <<job, capacity, image, nwedge, embedded>>
      /\ pc = "unstuff" /\ pc' = "unstuff"
      /\ chan' = c + 1 /\ c \in Used(job.use)
      /\ \A x \in Chans : x # c =>
            clen'[x] = clen[x] /\ lengths'[x] = lengths[x]
      /\ clen'[c] > 0 \/ ~job.seeded => ring' = RingOf(c + 1)
  <2>1. PICK n : n = chan
      OBVIOUS
  <2> QED
      BY <2>1, UnstuffFrame
<1>2. /\ job \in Jobs /\ capacity = ReceiverCaps
      /\ \A x \in Chans : x \notin Used(job.use) \/ x >= c
            => clen[x] = 0 /\ lengths[x] = ReceiverCaps[x]
    BY <1>1 DEF ChannelsInv, Typed, ReceiveInv
<1>3. c \in Nat /\ c \in Chans
    BY <1>1, <1>2, UsedFacts
<1>4. ReceiverCaps' = ReceiverCaps
    BY <1>1, JobFrame
<1>5. chan' # 0 /\ chan' - 1 = c /\ RingOf(chan)' = RingOf(c + 1)
    BY <1>1, <1>3 DEF RingOf, Mcus
<1>6. \A x \in Chans : x \notin Used(job.use) \/ x >= c + 1
          => x # c /\ (x \notin Used(job.use) \/ x >= c)
    BY <1>1, <1>3 DEF Chans
<1>7. ASSUME LargestImage, Good', NEW x \in Used(job.use), x < c + 1
      PROVE  Heard(x)'
  <2>1. Good
      BY <1>1, <1>7, GoodStays
  <2>2. x <= chan
    <3>1. x \in Nat
        BY <1>2, UsedFacts
    <3> QED
        BY <1>3, <1>7, <3>1
  <2> QED
      BY <1>7, <2>1, <2>2, UnstuffHears
<1>8. LargestImage /\ Good' =>
          \A x \in Used(job.use)' : (x < chan)' => Heard(x)'
    BY <1>1, <1>7
<1>9. \A x \in Chans : x \notin Used(job.use)' \/ x >= chan'
          => clen'[x] = 0 /\ lengths'[x] = ReceiverCaps'[x]
    BY <1>1, <1>2, <1>4, <1>6
<1>10. chan' = 0 \/ clen'[chan' - 1] > 0 \/ ~job'.seeded
          => ring' = RingOf(chan)'
    BY <1>1, <1>5
<1>11. capacity' = ReceiverCaps'
    BY <1>1, <1>2, <1>4
<1> QED
    BY <1>1, <1>8, <1>9, <1>10, <1>11 DEF ReceiveInv

\* The moves put one piece behind the other.
LEMMA MovesTogether ==
    ASSUME LargestImage, ChannelsInv, Good, ExtractEnd,
           NEW i \in 0 .. Total(Shares) - 1
    PROVE  buffer'[i] = i
<1> DEFINE s0 == Shares[0]
           s1 == Shares[1]
           s2 == Shares[2]
           r0 == ReceiverCaps[0]
           r1 == ReceiverCaps[1]
           r2 == ReceiverCaps[2]
           third == lengths[0] + lengths[1]
           one == IF 1 \in Used(job.use)
                    THEN Move(buffer, Pointer(1), lengths[0], lengths[1])
                    ELSE buffer
<1>1. /\ job \in Jobs /\ SentUpTo(3) /\ pc = "unstuff"
      /\ chan \in 0 .. Len(job.use) /\ chan \notin Used(job.use)
      /\ capacity = ReceiverCaps
      /\ \A c \in Used(job.use) : c < chan => Heard(c)
    BY DEF ExtractEnd, ChannelsInv, Typed, SendInv, ReceiveInv
<1>2. /\ Len(job.use) \in 1 .. 3
      /\ Used(job.use) = 0 .. Len(job.use) - 1
    BY <1>1, JobFacts
<1>3. /\ 0 \in Used(job.use)
      /\ 2 \in Used(job.use) => 1 \in Used(job.use)
      /\ \A c \in Used(job.use) : c < chan
  <2> DEFINE n == Len(job.use)
  <2> HIDE DEF n
  <2>1. n \in {1, 2, 3} /\ chan \in 0 .. n /\ chan \notin 0 .. n - 1
      BY <1>1, <1>2 DEF n
  <2>2. \A c \in 0 .. n - 1 : c < chan
      BY <2>1
  <2>3. 0 \in 0 .. n - 1 /\ (2 \in 0 .. n - 1 => 1 \in 0 .. n - 1)
      BY <2>1
  <2>4. Used(job.use) = 0 .. n - 1
      BY <1>2 DEF n
  <2> QED
      BY <2>2, <2>3, <2>4
<1>4. \A c \in Used(job.use) : Heard(c)
    BY <1>1, <1>3
<1>5. /\ \A c \in Chans :
            /\ Shares[c] \in Nat /\ ReceiverCaps[c] \in Nat
            /\ Shares[c] <= ReceiverCaps[c]
      /\ \A c \in Used(job.use) : image[c].len = Shares[c]
    BY <1>1, GoodFacts
<1>6. /\ s0 \in Nat /\ s1 \in Nat /\ s2 \in Nat
      /\ r0 \in Nat /\ r1 \in Nat /\ r2 \in Nat
      /\ s0 <= r0 /\ s1 <= r1 /\ s2 <= r2
    BY <1>5 DEF Chans
<1>7. /\ 1 \notin Used(job.use) => s1 = 0
      /\ 2 \notin Used(job.use) => s2 = 0
    BY <1>1, SharesFacts DEF Chans
<1>8. /\ s0 = 0 => s1 = 0 /\ s2 = 0
      /\ s1 = 0 => s2 = 0
  <2>1. ASSUME NEW c \in Used(job.use), NEW d \in Used(job.use), c < d,
               Shares[c] = 0
        PROVE  Shares[d] = 0
    <3>1. c # Last
      <4>1. c \in Int /\ d \in 0 .. Len(job.use) - 1
          BY <1>1, <1>2, <2>1, UsedFacts
      <4> QED
          BY <1>2, <2>1, <4>1 DEF Last
    <3>2. ~job.seeded /\ \A e \in c .. Last : image[e].len = 0
        BY <1>5, <2>1, <3>1 DEF Good, NoGap
    <3>3. d \in c .. Last
      <4>1. c \in Int /\ d \in 0 .. Len(job.use) - 1
          BY <1>1, <1>2, <2>1, UsedFacts
      <4> QED
          BY <1>2, <2>1, <4>1 DEF Last
    <3> QED
        BY <1>5, <2>1, <3>2, <3>3
  <2> QED
      BY <1>3, <1>7, <2>1
<1>9. i \in Nat /\ i < s0 + s1 + s2
    BY <1>6 DEF Total
<1>10. s0 > 0
    BY <1>6, <1>8, <1>9
<1>11. /\ lengths[0] = s0
       /\ 1 \in Used(job.use) => lengths[1] = IF s1 > 0 THEN s1 ELSE r1
       /\ 2 \in Used(job.use) => lengths[2] = IF s2 > 0 THEN s2 ELSE r2
    BY <1>3, <1>4, <1>10 DEF Heard
<1>12. /\ Pointer(1) = r0 /\ Pointer(2) = r0 + r1
    BY <1>1 DEF Pointer, From
<1>13. /\ \A x \in 0 .. s0 - 1 : buffer[x] = x
       /\ 1 \in Used(job.use) =>
             \A x \in 0 .. s1 - 1 : buffer[r0 + x] = s0 + x
       /\ 2 \in Used(job.use) =>
             \A x \in 0 .. s2 - 1 : buffer[r0 + r1 + x] = s0 + s1 + x
  <2>1. /\ From(ReceiverCaps, 0) = 0 /\ From(Shares, 0) = 0
        /\ From(ReceiverCaps, 1) = r0 /\ From(Shares, 1) = s0
        /\ From(ReceiverCaps, 2) = r0 + r1 /\ From(Shares, 2) = s0 + s1
      BY DEF From
  <2>2. \A c \in Used(job.use) : \A x \in 0 .. Shares[c] - 1 :
            buffer[From(ReceiverCaps, c) + x] = From(Shares, c) + x
      BY <1>4 DEF Heard
  <2>3. \A x \in 0 .. s0 - 1 : buffer[0 + x] = 0 + x
      BY <1>3, <2>1, <2>2
  <2>4. \A x \in 0 .. s0 - 1 : 0 + x = x
      BY <1>6
  <2> QED
      BY <2>1, <2>2, <2>3, <2>4
<1>14. \A p \in Nat : p < r0 + r1 + r2 => p \in Places
  <2>1. Total(ReceiverCaps) = r0 + r1 + r2
      BY DEF Total
  <2> QED
      BY <1>1, <1>5, <2>1, GoodPlaces
<1>15. buffer' = IF 2 \in Used(job.use)
                   THEN Move(one, Pointer(2), third, lengths[2]) ELSE one
    BY DEF ExtractEnd
<1>16. i \in Places
    BY <1>6, <1>9, <1>14
<1> HIDE DEF s0, s1, s2, r0, r1, r2, one
<1>17. ASSUME NEW x \in Places
       PROVE  one[x] =
                IF /\ 1 \in Used(job.use)
                   /\ s0 <= x /\ x < s0 + lengths[1]
                  THEN buffer[x - s0 + r0] ELSE buffer[x]
    BY <1>11, <1>12 DEF one, Move
<1>18. ASSUME NEW x \in Places
       PROVE  buffer'[x] =
                IF /\ 2 \in Used(job.use)
                   /\ third <= x /\ x < third + lengths[2]
                  THEN one[x - third + (r0 + r1)] ELSE one[x]
    BY <1>12, <1>15 DEF Move
<1>19. CASE i < s0
  <2>1. one[i] = buffer[i]
      BY <1>6, <1>9, <1>16, <1>17, <1>19
  <2>2. 2 \in Used(job.use) => third \in Nat /\ i < third
      BY <1>3, <1>6, <1>9, <1>11, <1>19
  <2>3. buffer'[i] = one[i]
      BY <1>9, <1>16, <1>18, <2>2
  <2> QED
      BY <1>6, <1>9, <1>13, <1>19, <2>1, <2>3
<1>20. CASE i >= s0 /\ i < s0 + s1
  <2>1. 1 \in Used(job.use) /\ lengths[1] = s1 /\ s1 > 0
      BY <1>6, <1>7, <1>9, <1>11, <1>20
  <2>2. one[i] = buffer[i - s0 + r0]
      BY <1>16, <1>17, <1>20, <2>1
  <2>3. third = s0 + s1
      BY <1>11, <2>1
  <2>4. buffer'[i] = one[i]
      BY <1>6, <1>9, <1>16, <1>18, <1>20, <2>3
  <2> DEFINE x == i - s0
  <2>5. x \in 0 .. s1 - 1 /\ s0 + x = i /\ i - s0 + r0 = r0 + x
      BY <1>6, <1>9, <1>20
  <2> HIDE DEF x
  <2>6. buffer[r0 + x] = s0 + x
      BY <1>13, <2>1, <2>5
  <2> QED
      BY <2>2, <2>4, <2>5, <2>6
<1>21. CASE i >= s0 + s1
  <2>1. s2 > 0 /\ s1 > 0
      BY <1>6, <1>8, <1>9, <1>21
  <2>2. /\ 1 \in Used(job.use) /\ 2 \in Used(job.use)
        /\ lengths[1] = s1 /\ lengths[2] = s2
      BY <1>6, <1>7, <1>11, <2>1
  <2>3. third = s0 + s1
      BY <1>11, <2>2
  <2> DEFINE x == i - (s0 + s1)
             p == r0 + r1 + x
  <2>4. /\ x \in 0 .. s2 - 1 /\ s0 + s1 + x = i /\ x \in Nat
        /\ p \in Nat /\ p < r0 + r1 + r2
        /\ i - (s0 + s1) + (r0 + r1) = p
        /\ ~ p < s0 + s1
      BY <1>6, <1>9, <1>21
  <2> HIDE DEF x, p
  <2>5. buffer'[i] = one[p]
      BY <1>6, <1>9, <1>16, <1>18, <1>21, <2>2, <2>3, <2>4
  <2>6. one[p] = buffer[p]
      BY <1>14, <1>17, <2>2, <2>4
  <2>7. buffer[p] = s0 + s1 + x
      BY <1>13, <2>2, <2>4 DEF p
  <2> QED
      BY <2>4, <2>5, <2>6, <2>7
<1> QED
    BY <1>6, <1>9, <1>19, <1>20, <1>21

\* What is put together is the message.
LEMMA ReceiveEnd ==
    ASSUME ChannelsInv, ExtractEnd
    PROVE  ReceiveInv'
<1>1. /\ UNCHANGED <<job, nwedge, image, embedded, clen, capacity>>
      /\ job \in Jobs /\ pc = "unstuff" /\ pc' = "done"
      /\ chan \in 0 .. Len(job.use) /\ chan \notin Used(job.use)
      /\ extracted' = Total(clen)
    BY DEF ExtractEnd, ChannelsInv, Typed
<1>2. /\ SentUpTo(3) /\ capacity = ReceiverCaps
      /\ AllWhole => embedded = Total(nwedge)
      /\ \A c \in Chans : c \notin Used(job.use) => clen[c] = 0
      /\ LargestImage /\ Good =>
            \A c \in Used(job.use) : c < chan => Heard(c)
    BY <1>1 DEF ChannelsInv, SendInv, ReceiveInv
<1>3. ReceiverCaps' = ReceiverCaps /\ SenderCaps' = SenderCaps
    BY <1>1, JobFrame
<1>4. ASSUME LargestImage, Good
      PROVE  /\ extracted' = Total(Shares)
             /\ embedded = Total(Shares)
             /\ \A i \in 0 .. embedded - 1 : buffer'[i] = i
  <2>1. \A c \in Used(job.use) : c < chan
    <3> DEFINE n == Len(job.use)
    <3>1. n \in 1 .. 3 /\ Used(job.use) = 0 .. n - 1 /\ chan \in 0 .. n
        BY <1>1, JobFacts
    <3> HIDE DEF n
    <3>2. chan = n
        BY <1>1, <3>1
    <3> QED
        BY <3>1, <3>2
  <2>2. \A c \in Chans : nwedge[c] = Shares[c]
      BY <1>1, <1>2, <1>4, GoodFacts
  <2>3. \A c \in Chans : clen[c] = Shares[c]
    <3> TAKE c \in Chans
    <3>1. CASE c \in Used(job.use)
        BY <1>2, <1>4, <2>1, <3>1 DEF Heard
    <3>2. CASE c \notin Used(job.use)
        BY <1>1, <1>2, <3>2, SharesFacts
    <3> QED
        BY <3>1, <3>2
  <2>4. Total(nwedge) = Total(Shares) /\ Total(clen) = Total(Shares)
      BY <2>2, <2>3 DEF Total, Chans
  <2>5. embedded = Total(Shares)
      BY <1>2, <1>4, <2>4 DEF Good
  <2> QED
      BY <1>1, <1>4, <2>4, <2>5, MovesTogether
<1>5. Total(Shares) = Lesser(job.len, Total(SenderCaps))
    BY <1>1, SharesFacts
<1>6. LargestImage => EndToEnd'
  <2> SUFFICES ASSUME LargestImage, AllWhole', InKey', NoGap',
                      \A c \in Used(job.use)' :
                          (image[c].len <= capacity[c])'
               PROVE  /\ extracted' = embedded'
                      /\ embedded' =
                            Lesser(job.len, Total(Capacities(job, job.density)))'
                      /\ \A i \in 0 .. embedded' - 1 : buffer'[i] = i
      BY DEF EndToEnd
  <2>1. \A c \in Used(job.use)' : (image[c].len <= ReceiverCaps[c])'
      BY <1>1, <1>2, <1>3
  <2>2. Good'
      BY <2>1 DEF Good
  <2>3. Good
      BY <1>1, <2>2, GoodStays
  <2>4. Lesser(job.len, Total(Capacities(job, job.density)))'
            = Lesser(job.len, Total(SenderCaps))
    <3>1. Capacities(job, job.density)' = SenderCaps
        BY <1>3 DEF SenderCaps
    <3> QED
        BY <1>1, <3>1 DEF Lesser, Total
  <2> QED
      BY <1>1, <1>4, <1>5, <2>3, <2>4
<1> QED
    BY <1>1, <1>2, <1>3, <1>6 DEF ReceiveInv

\* Every step keeps what is said of the receiver.
LEMMA ReceiveNext == ChannelsInv /\ [Next]_vars => ReceiveInv'
<1> SUFFICES ASSUME ChannelsInv, [Next]_vars
             PROVE  ReceiveInv'
    OBVIOUS
<1>1. CASE EmbedBegin \/ StuffOverflow \/ StuffChannel \/ EmbedEnd
  <2>1. /\ clen' = clen
        /\ pc \in {"embed", "stuff"} /\ pc' \in {"stuff", "extract"}
      BY <1>1 DEF EmbedBegin, StuffOverflow, StuffChannel, Stuffing, EmbedEnd
  <2> QED
      BY <2>1, ReceiveWaits
<1>2. CASE ExtractBegin
    BY <1>2, ReceiveBegin
<1>3. CASE UnstuffFound \/ UnstuffMisread
    BY <1>3, ReceiveChannel
<1>4. CASE ExtractEnd
    BY <1>4, ReceiveEnd
<1>5. CASE UNCHANGED vars
  <2>1. /\ UNCHANGED <<job, nwedge, image, embedded, extracted, buffer>>
        /\ UNCHANGED <<pc, chan, clen, lengths, capacity, ring>>
      BY <1>5 DEF vars
  <2>2. /\ ReceiverCaps' = ReceiverCaps /\ Shares' = Shares
        /\ RingOf(chan)' = RingOf(chan)
      BY <2>1, JobFrame DEF RingOf, Mcus
  <2>3. Good' = Good
      BY <2>1, GoodStays
  <2>4. \A c : Heard(c)' = Heard(c)
      BY <2>1, <2>2 DEF Heard, From
  <2>5. EndToEnd' = EndToEnd
    <3>1. AllWhole' = AllWhole /\ NoGap' = NoGap /\ InKey' = InKey
        BY <2>1, JobFrame DEF AllWhole, Whole, NoGap
    <3>2. Total(Capacities(job, job.density))'
              = Total(Capacities(job, job.density))
        BY <2>1, JobFrame DEF SenderCaps, Total
    <3> QED
        BY <2>1, <3>1, <3>2 DEF EndToEnd, Lesser
  <2> QED
      BY <2>1, <2>2, <2>3, <2>4, <2>5 DEF ChannelsInv, ReceiveInv
<1> QED
    BY <1>1, <1>2, <1>3, <1>4, <1>5 DEF Next

\* A receiver that took something is in step at the next channel, if the
\* sender wrote what is there and before.
LEMMA InvResync == ChannelsInv => Resync
<1> SUFFICES ASSUME ChannelsInv, pc = "unstuff",
                    chan - 1 \in Used(job.use), chan \in Used(job.use),
                    clen[chan - 1] > 0, nwedge[chan - 1] >= 0,
                    ~ nwedge[chan] < 0
             PROVE  ring = image[chan].ring
    BY DEF Resync
<1>1. /\ job \in Jobs /\ SentUpTo(3) /\ ring = RingOf(chan)
    BY DEF ChannelsInv, Typed, SendInv, ReceiveInv
<1>2. chan \in Chans /\ chan < 3
    BY <1>1, UsedFacts
<1>3. Written(chan) /\ nwedge[chan] # JEL_ERR_MSG_OVERFLOW
    BY <1>1, <1>2 DEF SentUpTo, JEL_ERR_MSG_OVERFLOW
<1> QED
    BY <1>1, <1>3 DEF Written

-----------------------------------------------------------------------------
\* The split of a message over the channels loses nothing of it, and what it
\* gives to a channel within its capacity goes in whole (SplitFits).
THEOREM ChannelsSplitFits ==
    ASSUME HeaderPays
    PROVE  Spec => []SplitFits
<1>1. ChannelsInv /\ [Next]_vars => ChannelsInv'
    BY TypedNext, SendNext, ReceiveNext DEF ChannelsInv
<1>2. ChannelsInv => SplitFits
    BY InvSplit
<1> QED
    BY <1>1, <1>2, InvInit, PTL DEF Spec

\* A receiver that was out of step and took what it read for a message is in
\* step at the next channel (Resync).
THEOREM ChannelsResync == Spec => []Resync
<1>1. ChannelsInv /\ [Next]_vars => ChannelsInv'
    BY TypedNext, SendNext, ReceiveNext DEF ChannelsInv
<1> QED
    BY <1>1, InvInit, InvResync, PTL DEF Spec

\* What jel_extract puts together from the channels is the message jel_embed
\* split over them, and both return its length (EndToEnd).
THEOREM ChannelsEndToEnd ==
    ASSUME LargestImage
    PROVE  Spec => []EndToEnd
<1>1. ChannelsInv /\ [Next]_vars => ChannelsInv'
    BY TypedNext, SendNext, ReceiveNext DEF ChannelsInv
<1>2. ChannelsInv => EndToEnd
    BY DEF ChannelsInv, ReceiveInv, Typed, EndToEnd
<1> QED
    BY <1>1, <1>2, InvInit, PTL DEF Spec
=============================================================================
