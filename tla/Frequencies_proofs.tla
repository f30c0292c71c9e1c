------------------------ MODULE Frequencies_proofs -------------------------
(***************************************************************************)
(* Proofs about the choice of frequencies: what the loop over a table      *)
(* finds, and that two sides that make their calls in order have found the *)
(* same, for all tables, qualities, numbers of levels and orders of calls. *)
(***************************************************************************)
EXTENDS Frequencies, FiniteSetTheorems, WellFoundedInduction, TLAPS

-----------------------------------------------------------------------------
(* Induction and recursion over an initial segment of the naturals, as     *)
(* facts about sets and functions: the theorems of the library take an     *)
(* operator as parameter.                                                  *)

\* A set that contains 0, and with each number the next, contains them all.
LEMMA SegmentInduction ==
    ASSUME NEW n \in Nat, NEW T,
           0 \in T,
           \A i \in 0 .. n - 1 : i \in T => i + 1 \in T
    PROVE  \A i \in 0 .. n : i \in T
<1> DEFINE Rest == {i \in 0 .. n : i \notin T}
           Less == {s \in Nat \X Nat : s[1] < s[2]}
<1> SUFFICES ASSUME Rest # {} PROVE FALSE
    OBVIOUS
<1>1. IsWellFoundedOn(Less, Nat)
    BY NatLessThanWellFounded, Zenon DEF OpToRel
<1>2. Rest \subseteq Nat
    OBVIOUS
<1> HIDE DEF Rest, Less
<1>3. PICK x \in Rest : \A y \in Rest : ~ (<<y, x>> \in Less)
    BY <1>1, <1>2, WFMin
<1>4. x \in 0 .. n /\ x \notin T /\ x # 0
    BY DEF Rest
<1>5. x - 1 \in 0 .. n - 1 /\ x - 1 \in Nat /\ x \in Nat
    BY <1>4
<1>6. x - 1 \notin T
    BY <1>4, <1>5
<1>7. x - 1 \in Rest
    BY <1>5, <1>6 DEF Rest
<1>8. <<x - 1, x>> \in Less
    BY <1>5 DEF Less
<1> QED
    BY <1>3, <1>7, <1>8

\* Function g is computed by a recursion over 0 .. n, each value from the one
\* before.
IsRecursion(g, n, Codomain, first, step) ==
    /\ g \in [0 .. n -> Codomain]
    /\ g[0] = first
    /\ \A i \in 1 .. n : g[i] = step[i][g[i - 1]]

\* There is such a function.
LEMMA SegmentRecursion ==
    ASSUME NEW n \in Nat, NEW Codomain, NEW first \in Codomain,
           NEW step \in [1 .. n -> [Codomain -> Codomain]]
    PROVE  \E g : IsRecursion(g, n, Codomain, first, step)
<1> DEFINE Solves(g, l) == /\ g[0] = first
                           /\ \A i \in 1 .. l : g[i] = step[i][g[i - 1]]
           T == {l \in 0 .. n : \E g \in [0 .. l -> Codomain] : Solves(g, l)}
<1>1. 0 \in T
  <2> DEFINE g == [i \in 0 .. 0 |-> first]
  <2>1. g \in [0 .. 0 -> Codomain] /\ Solves(g, 0)
      OBVIOUS
  <2> HIDE DEF g, Solves
  <2> QED
      BY <2>1
<1>2. ASSUME NEW l \in 0 .. n - 1, l \in T PROVE l + 1 \in T
  <2>1. PICK g \in [0 .. l -> Codomain] : Solves(g, l)
      BY <1>2
  <2> DEFINE h == [i \in 0 .. l + 1 |->
                      IF i <= l THEN g[i] ELSE step[l + 1][g[l]]]
  <2>2. l + 1 \in 1 .. n /\ g[l] \in Codomain
      OBVIOUS
  <2>3. step[l + 1][g[l]] \in Codomain
      BY <2>2
  <2>4. h \in [0 .. l + 1 -> Codomain]
      BY <2>3
  <2>5. h[0] = first
      BY <2>1
  <2>6. ASSUME NEW i \in 1 .. l + 1 PROVE h[i] = step[i][h[i - 1]]
    <3>1. CASE i <= l
      <4>1. i \in 1 .. l /\ h[i] = g[i] /\ h[i - 1] = g[i - 1]
          BY <3>1
      <4> QED
          BY <2>1, <4>1
    <3>2. CASE i = l + 1
      <4>1. h[i - 1] = g[l] /\ h[i] = step[l + 1][g[l]]
          BY <3>2
      <4> QED
          BY <3>2, <4>1
    <3> QED
        BY <3>1, <3>2
  <2> HIDE DEF h
  <2>7. Solves(h, l + 1)
      BY <2>5, <2>6
  <2>8. \E e \in [0 .. l + 1 -> Codomain] : Solves(e, l + 1)
      BY <2>4, <2>7
  <2>9. l + 1 \in 0 .. n
      BY <2>2
  <2> HIDE DEF Solves
  <2> QED
      BY <2>8, <2>9
<1> HIDE DEF T
<1>3. n \in T
  <2>1. \A i \in 0 .. n - 1 : i \in T => i + 1 \in T
      BY <1>2
  <2>2. \A i \in 0 .. n : i \in T
      BY <1>1, <2>1, SegmentInduction, Zenon
  <2> QED
      BY <2>2
<1>4. PICK g \in [0 .. n -> Codomain] : Solves(g, n)
    BY <1>3 DEF T
<1>5. IsRecursion(g, n, Codomain, first, step)
    BY <1>4 DEF IsRecursion
<1> QED
    BY <1>5, Zenon

-----------------------------------------------------------------------------
(* The loop of ijel_get_freq_indices.                                      *)

\* One pass of the loop.
Look(table, list, n) ==
    IF Len(list) < max /\ DCTSIZE2 - n \in Suitable(table)
      THEN Append(list, DCTSIZE2 - n) ELSE list

\* The loop is made of its passes.
LEMMA FoundPasses ==
    ASSUME NEW table
    PROVE  /\ Found(table)[0] = <<>>
           /\ \A n \in 1 .. DCTSIZE2 :
                 Found(table)[n] = Look(table, Found(table)[n - 1], n)
<1> DEFINE D == DCTSIZE2
           V == Seq(Int)
           step == [n \in 1 .. D |-> [v \in V |-> Look(table, v, n)]]
           Solves(g) == g = [n \in 0 .. D |->
                          IF n = 0 THEN <<>>
                          ELSE IF Len(g[n - 1]) < max /\ D - n \in Suitable(table)
                            THEN Append(g[n - 1], D - n) ELSE g[n - 1]]
           f == CHOOSE g : Solves(g)
<1>1. D \in Nat /\ <<>> \in V
    BY FrequenciesAssumption
<1>2. step \in [1 .. D -> [V -> V]]
  <2>1. ASSUME NEW n \in 1 .. D, NEW v \in V PROVE Look(table, v, n) \in V
      BY <1>1 DEF Look
  <2> QED
      BY <2>1
<1>3. \A n \in 1 .. D, v \in V : step[n][v] = Look(table, v, n)
    OBVIOUS
<1> HIDE DEF step
<1>4. PICK g \in [0 .. D -> V] :
        /\ g[0] = <<>>
        /\ \A n \in 1 .. D : g[n] = step[n][g[n - 1]]
  <2> HIDE DEF V, D
  <2>1. PICK g : IsRecursion(g, D, V, <<>>, step)
      BY <1>1, <1>2, SegmentRecursion
  <2> QED
      BY <2>1 DEF IsRecursion
<1>5. ASSUME NEW n \in 1 .. D PROVE g[n] = Look(table, g[n - 1], n)
  <2>1. n - 1 \in 0 .. D
      BY <1>1
  <2>2. g[n - 1] \in V
      BY <2>1
  <2> QED
      BY <1>3, <1>4, <2>2
<1>6. Solves(g)
  <2>1. ASSUME NEW n \in 0 .. D
        PROVE  g[n] = IF n = 0 THEN <<>> ELSE Look(table, g[n - 1], n)
    <3>1. n = 0 \/ n \in 1 .. D
        BY <1>1
    <3> QED
        BY <3>1, <1>4, <1>5
  <2> QED
      BY <2>1 DEF Look
<1>7. Solves(f)
  <2> HIDE DEF Solves
  <2> QED
      BY <1>6, Zenon
<1>8. Found(table) = f
    BY DEF Found
<1> HIDE DEF f
<1>9. /\ f[0] = <<>>
      /\ \A n \in 1 .. D : f[n] = Look(table, f[n - 1], n)
  <2>1. \A n \in 0 .. D :
          f[n] = IF n = 0 THEN <<>> ELSE Look(table, f[n - 1], n)
      BY <1>7, Zenon DEF Look
  <2>2. 0 \in 0 .. D /\ \A n \in 1 .. D : n \in 0 .. D /\ n # 0
      BY <1>1
  <2> QED
      BY <2>1, <2>2
<1> QED
    BY <1>8, <1>9

\* The list is in order, from above.
Falling(list) ==
    \A a, b \in 1 .. Len(list) : a < b => list[a] > list[b]

\* What has been found among the highest n: suitable frequencies only, and all
\* there are unless the list is full.
FoundAmong(list, table, n) ==
    /\ list \in Seq(Suitable(table))
    /\ Len(list) <= max
    /\ \A a \in 1 .. Len(list) : list[a] >= DCTSIZE2 - n
    /\ Falling(list)
    /\ Len(list) < max =>
          \A j \in Suitable(table) : j >= DCTSIZE2 - n =>
              \E a \in 1 .. Len(list) : list[a] = j

\* One pass finds what there is to find.
LEMMA LookFinds ==
    ASSUME max \in Nat, NEW table, NEW n \in 1 .. DCTSIZE2, NEW list,
           FoundAmong(list, table, n - 1)
    PROVE  FoundAmong(Look(table, list, n), table, n)
<1> DEFINE S == Suitable(table)
           j == DCTSIZE2 - n
           new == Append(list, j)
<1>1. DCTSIZE2 \in Nat /\ S \subseteq Int /\ j \in Int /\ \A i \in S : i < DCTSIZE2
    BY FrequenciesAssumption DEF Suitable, Frequency
<1>2. list \in Seq(S) /\ Len(list) \in Nat /\ Len(list) <= max
    BY DEF FoundAmong
<1>3. \A a \in 1 .. Len(list) : list[a] \in S /\ list[a] >= j + 1
    BY <1>1, <1>2 DEF FoundAmong
<1>4. CASE Len(list) < max /\ j \in S
  <2>1. /\ new \in Seq(S) /\ Len(new) = Len(list) + 1
        /\ \A a \in 1 .. Len(list) : new[a] = list[a]
        /\ new[Len(list) + 1] = j
      BY <1>2, <1>4
  <2>2. Look(table, list, n) = new
      BY <1>4 DEF Look
  <2> HIDE DEF new
  <2>3. \A a \in 1 .. Len(new) : new[a] >= j
    <3> TAKE a \in 1 .. Len(new)
    <3>1. CASE a = Len(list) + 1
        BY <1>1, <2>1, <3>1
    <3>2. CASE a # Len(list) + 1
      <4>1. a \in 1 .. Len(list)
          BY <1>2, <2>1, <3>2
      <4>2. new[a] \in S /\ new[a] >= j + 1
          BY <1>3, <2>1, <4>1
      <4> QED
          BY <1>1, <4>2
    <3> QED
        BY <3>1, <3>2
  <2>4. Falling(new)
    <3>1. SUFFICES ASSUME NEW a \in 1 .. Len(new), NEW b \in 1 .. Len(new), a < b
                   PROVE  new[a] > new[b]
        BY DEF Falling
    <3>2. a \in 1 .. Len(list) /\ (b \in 1 .. Len(list) \/ b = Len(list) + 1)
        BY <1>2, <2>1, <3>1
    <3> QED
        BY <1>1, <1>3, <2>1, <3>1, <3>2, SMTT(30) DEF FoundAmong, Falling
  <2>5. ASSUME NEW i \in S, i >= j
        PROVE  \E a \in 1 .. Len(new) : new[a] = i
    <3>1. CASE i = j
        BY <1>2, <2>1, <3>1
    <3>2. CASE i # j
      <4>1. PICK a \in 1 .. Len(list) : list[a] = i
          BY <1>1, <1>4, <2>5, <3>2 DEF FoundAmong
      <4> QED
          BY <1>2, <2>1, <4>1
    <3> QED
        BY <3>1, <3>2
  <2>6. Len(new) <= max
      BY <1>2, <1>4, <2>1
  <2> QED
      BY <2>1, <2>2, <2>3, <2>4, <2>5, <2>6 DEF FoundAmong
<1>5. CASE ~ (Len(list) < max /\ j \in S)
  <2>1. Look(table, list, n) = list
      BY <1>5 DEF Look
  <2>2. \A a \in 1 .. Len(list) : list[a] >= j
      BY <1>1, <1>3
  <2>3. Len(list) < max => \A i \in S : i >= j => i >= DCTSIZE2 - (n - 1)
      BY <1>1, <1>5
  <2> QED
      BY <2>1, <2>2, <2>3 DEF FoundAmong
<1> QED
    BY <1>4, <1>5

\* The list is full if there are enough, and never holds one twice.
LEMMA HighestFacts ==
    ASSUME max \in Nat, NEW table
    PROVE  /\ Highest(table) \in Seq(Suitable(table))
           /\ Len(Highest(table)) <= max
           /\ Falling(Highest(table))
           /\ Cardinality(Suitable(table)) >= max => Len(Highest(table)) = max
<1> DEFINE S == Suitable(table)
           g == Found(table)
           T == {n \in 0 .. DCTSIZE2 : FoundAmong(g[n], table, n)}
           list == Highest(table)
<1>1. DCTSIZE2 \in Nat /\ S \subseteq Int /\ \A i \in S : i < DCTSIZE2 /\ i >= 0
    BY FrequenciesAssumption DEF Suitable, Frequency
<1>2. 0 \in T
  <2>1. g[0] = <<>>
      BY FoundPasses
  <2>2. FoundAmong(<<>>, table, 0)
      BY <1>1 DEF FoundAmong, Falling
  <2> QED
      BY <1>1, <2>1, <2>2
<1>3. \A n \in 0 .. DCTSIZE2 - 1 : n \in T => n + 1 \in T
  <2> SUFFICES ASSUME NEW n \in 0 .. DCTSIZE2 - 1, n \in T PROVE n + 1 \in T
      OBVIOUS
  <2>1. n + 1 \in 1 .. DCTSIZE2 /\ (n + 1) - 1 = n
      BY <1>1
  <2>2. g[n + 1] = Look(table, g[n], n + 1)
      BY <2>1, FoundPasses
  <2>3. FoundAmong(g[n], table, n)
      OBVIOUS
  <2>4. FoundAmong(g[n + 1], table, n + 1)
      BY <2>1, <2>2, <2>3, LookFinds
  <2> QED
      BY <2>1, <2>4
<1> HIDE DEF T
<1>4. DCTSIZE2 \in T
    BY <1>1, <1>2, <1>3, SegmentInduction
<1>5. FoundAmong(list, table, DCTSIZE2)
    BY <1>4 DEF T, Highest
<1> HIDE DEF list
<1>6. ASSUME Cardinality(S) >= max, Len(list) < max PROVE FALSE
  <2>1. list \in Seq(S) /\ Len(list) \in Nat
      BY <1>5 DEF FoundAmong
  <2>2. \A j \in S : \E a \in 1 .. Len(list) : list[a] = j
      BY <1>1, <1>5, <1>6 DEF FoundAmong
  <2> DEFINE f == [a \in 1 .. Len(list) |-> list[a]]
  <2>3. f \in [1 .. Len(list) -> S]
      BY <2>1
  <2>4. \A j \in S : \E a \in 1 .. Len(list) : f[a] = j
      BY <2>2
  <2> HIDE DEF f
  <2>5. f \in Surjection(1 .. Len(list), S)
      BY <2>3, <2>4 DEF Surjection, Range
  <2>6. ExistsSurjection(1 .. Len(list), S)
      BY <2>5 DEF ExistsSurjection
  <2>7. Cardinality(S) <= Len(list)
      BY <2>1, <2>6, FS_SurjCardinalityBound
  <2>8. IsFiniteSet(S)
      BY <2>1, <2>5, FS_Surjection, FS_Interval
  <2> QED
      BY <1>6, <2>1, <2>7, <2>8, FS_CardinalityType
<1> QED
    BY <1>5, <1>6 DEF FoundAmong, list

-----------------------------------------------------------------------------
(* The inductive invariant.                                                *)

\* Table t has enough frequencies that are suitable.
Full(t) == Cardinality(Suitable(t)) >= max

\* What is in use if the frequencies are those of table t.
Best(t) == [k \in 1 .. max |-> Highest(t)[k]]

\* The tables jpeg_copy_critical_parameters makes of those of an image.
FromImage(i) ==
    [t \in Slots |-> IF i[t] = NoTable THEN Standard[Default][t] ELSE i[t]]

\* The order of opening and setting the quality that InOrder asks for, and the
\* tables of the compressor after it.
Settling(s) == IF s = "sender" THEN ~ late[s].opened
                               ELSE quality[s] = Unset \/ late[s].opened
Settled(s) == IF s = "sender" /\ quality[s] # Unset
                THEN Standard[quality[s]] ELSE FromImage(src[s])

After == {"receiver", "unstuff", "done", "NULL table"}
Reading == {"unstuff", "done", "NULL table"}

\* The tables EmbedEnd writes.
FileOf == [t \in Slots |-> IF src["sender"][t] = NoTable THEN NoTable
                                                         ELSE dst["sender"][t]]

Shape ==
    /\ max \in 1 .. DCTSIZE2
    /\ src \in [Sides -> [Slots -> Table \cup {NoTable}]]
    /\ dst \in [Sides -> [Slots -> Table]]
    /\ quality \in [Sides -> Qualities \cup {Unset}]
    /\ init \in [Sides -> {Anew, Chosen, Given}]
    /\ late \in [Sides -> [opened : BOOLEAN, chosen : BOOLEAN]]
    /\ open \subseteq Sides
    /\ pc \in {"sender", "stuff"} \cup After
    /\ chan \in 0 .. 3
    /\ DOMAIN freqs = Sides
    /\ DOMAIN tables = Sides
    /\ DOMAIN calls = Sides
    /\ DOMAIN used = Sides
    /\ \A s \in Sides : DOMAIN used[s] = Chans

\* Frequencies chosen for good are those of a table, and if the calls were in
\* order it is the one the compressor has now; its tables are then settled.
SideInv(s) ==
    /\ init[s] = Chosen =>
          /\ tables[s][0] = tables[s][1]
          /\ Full(tables[s][0]) =>
                \A k \in 1 .. max : freqs[s][k - 1] = Highest(tables[s][0])[k]
          /\ InOrder(s) => tables[s][0] = dst[s][0]
    /\ s \in open /\ Settling(s) => dst[s] = Settled(s)

\* What has been opened and written, and where each function has chosen from.
PhaseInv ==
    /\ pc # "sender" => "sender" \in open
    /\ "sender" \in open => src["sender"] \in Images
    /\ "receiver" \in open => pc \in After /\ src["receiver"] = file
    /\ pc \in Reading => "receiver" \in open
    /\ pc \in After => file = FileOf
    /\ init["sender"] = Anew /\ (pc = "stuff" \/ (pc \in After /\ InOrder("sender")))
          => tables["sender"] = dst["sender"]
    /\ init["receiver"] = Anew /\ pc \in Reading
          => tables["receiver"] = dst["receiver"]
    /\ init["receiver"] = Anew /\ pc \in {"unstuff", "done"} =>
          \A c \in Chans : c < chan => src["receiver"][Slot(c)] # NoTable
    /\ pc = "done" => chan = 3

\* Channel c of side s uses the best frequencies of its table.
Carried(s, c) ==
    init[s] # Given /\ Full(TableOf(s, c)) => used[s][c] = Best(TableOf(s, c))

\* How many channels each side has dealt with.
Dealt(s) ==
    IF s = "sender" THEN IF pc = "sender" THEN 0 ELSE IF pc = "stuff" THEN chan ELSE 3
                    ELSE IF pc \in Reading THEN chan ELSE 0

UsedInv ==
    \A s \in Sides, c \in Chans :
        IF c < Dealt(s) THEN Carried(s, c) ELSE used[s][c] = <<>>

FreqInv == Shape /\ (\A s \in Sides : SideInv(s)) /\ PhaseInv /\ UsedInv

-----------------------------------------------------------------------------
(* What stays.                                                             *)

\* The tables of an image and of a quality are tables.
LEMMA TableFacts ==
    /\ Slots = {0, 1} /\ \A c \in Chans : Slot(c) \in Slots
    /\ \A q \in Qualities : Standard[q] \in [Slots -> Table]
    /\ Default \in Qualities
    /\ Images \subseteq [Slots -> Table \cup {NoTable}]
    /\ \A i \in Images : i[0] # NoTable
    /\ \A i \in [Slots -> Table \cup {NoTable}] : FromImage(i) \in [Slots -> Table]
    /\ Unset \notin Qualities
    /\ NoTable \notin Table
<1>1. \A q \in Qualities : Standard[q] \in [Slots -> Table]
    BY FrequenciesAssumption
<1>2. Default \in Qualities
    BY FrequenciesAssumption
<1>3. /\ Images \subseteq [Slots -> Table \cup {NoTable}]
      /\ \A i \in Images : i[0] # NoTable
    BY FrequenciesAssumption
<1>4. \A i \in [Slots -> Table \cup {NoTable}] : FromImage(i) \in [Slots -> Table]
  <2> HIDE DEF Table, NoTable, Slots, Default
  <2>1. Standard[Default] \in [Slots -> Table]
      BY <1>1, <1>2
  <2> QED
      BY <2>1 DEF FromImage
<1>5. Unset \notin Qualities
    BY FrequenciesAssumption DEF Unset
<1>6. NoTable \notin Table
  <2>1. 0 \in Frequency
      BY FrequenciesAssumption DEF Frequency
  <2>2. DOMAIN NoTable = {}
      BY DEF NoTable
  <2>3. \A t \in Table : DOMAIN t = Frequency
      BY DEF Table
  <2> QED
      BY <2>1, <2>2, <2>3
<1> QED
    BY <1>1, <1>2, <1>3, <1>4, <1>5, <1>6 DEF Slots, Slot

\* The best frequencies of a table stay the best.
LEMMA BestFrame ==
    ASSUME max' = max
    PROVE  /\ \A t : Highest(t)' = Highest(t)
           /\ \A t : Full(t)' = Full(t)
           /\ \A t : Best(t)' = Best(t)
<1>1. \A t : Highest(t)' = Highest(t)
    BY DEF Highest, Found
<1> QED
    BY <1>1 DEF Full, Best

\* Nothing happens to a side that nothing is done to.
LEMMA SideFrame ==
    ASSUME NEW s \in Sides, SideInv(s), max' = max,
           init'[s] = init[s], tables'[s] = tables[s], freqs'[s] = freqs[s],
           dst'[s] = dst[s], src'[s] = src[s], quality'[s] = quality[s],
           late'[s] = late[s], s \in open' <=> s \in open
    PROVE  SideInv(s)'
<1>1. InOrder(s)' = InOrder(s) /\ Settling(s)' = Settling(s)
    BY DEF InOrder, Settling
<1>2. Settled(s)' = Settled(s)
    BY DEF Settled, FromImage
<1> QED
    BY <1>1, <1>2, BestFrame DEF SideInv

-----------------------------------------------------------------------------
(* The calls before embedding and extracting.                              *)

\* A call of side s has no part in the other side.
OtherStays(s) ==
    \A o \in Sides \ {s} :
        /\ init'[o] = init[o] /\ tables'[o] = tables[o] /\ freqs'[o] = freqs[o]
        /\ dst'[o] = dst[o] /\ src'[o] = src[o] /\ quality'[o] = quality[o]
        /\ late'[o] = late[o] /\ (o \in open' <=> o \in open)

\* It opens nothing but what it may.
OpensRight(s) ==
    s \in open' => \/ s \in open /\ src'[s] = src[s]
                   \/ src'[s] \in IF s = "sender" THEN Images ELSE {file}

\* What is said of a call before it is said how it leaves its own side.
LEMMA CallKeeps ==
    ASSUME FreqInv, NEW s \in Sides, Call(s), OtherStays(s), OpensRight(s),
           Shape', SideInv(s)'
    PROVE  FreqInv'
<1>1. /\ pc = s /\ pc' = pc /\ chan' = chan /\ file' = file /\ used' = used
      /\ max' = max
    BY DEF Call
<1>2. \A o \in Sides : SideInv(o)'
  <2> SUFFICES ASSUME NEW o \in Sides, o # s PROVE SideInv(o)'
      OBVIOUS
  <2> QED
      BY <1>1, SideFrame DEF OtherStays, FreqInv
<1>3. PhaseInv'
  <2>1. CASE s = "sender"
    <3>1. "receiver" \notin open'
        BY <1>1, <2>1 DEF FreqInv, PhaseInv, OtherStays, Sides, After
    <3>2. "sender" \in open' => src'["sender"] \in Images
        BY <2>1 DEF FreqInv, PhaseInv, OpensRight
    <3> QED
        BY <1>1, <2>1, <3>1, <3>2 DEF PhaseInv, After, Reading
  <2>2. CASE s = "receiver"
    <3>1. /\ init'["sender"] = init["sender"] /\ tables'["sender"] = tables["sender"]
          /\ dst'["sender"] = dst["sender"] /\ src'["sender"] = src["sender"]
          /\ quality'["sender"] = quality["sender"]
          /\ late'["sender"] = late["sender"]
          /\ ("sender" \in open' <=> "sender" \in open)
        BY <2>2 DEF OtherStays, Sides
    <3>2. FileOf' = FileOf /\ InOrder("sender")' = InOrder("sender")
        BY <3>1 DEF FileOf, InOrder
    <3>3. "receiver" \in open' => src'["receiver"] = file
        BY <2>2 DEF FreqInv, PhaseInv, OpensRight
    <3> QED
        BY <1>1, <2>2, <3>1, <3>2, <3>3 DEF FreqInv, PhaseInv, After, Reading
  <2> QED
      BY <2>1, <2>2 DEF Sides
<1>4. UsedInv'
  <2> SUFFICES ASSUME NEW o \in Sides, NEW c \in Chans
               PROVE  (IF c < Dealt(o) THEN Carried(o, c)
                                       ELSE used[o][c] = <<>>)'
      BY DEF UsedInv
  <2>1. Dealt(o)' = Dealt(o)
      BY <1>1 DEF Dealt
  <2>2. CASE o = s
    <3>1. Dealt(o) = 0
        BY <1>1, <2>2 DEF Dealt, Sides, Reading
    <3>2. ~ (c < Dealt(o))
        BY <3>1 DEF Chans
    <3> QED
        BY <1>1, <2>1, <3>2 DEF FreqInv, UsedInv
  <2>3. CASE o # s
    <3>1. Carried(o, c)' = Carried(o, c)
        BY <1>1, <2>3, BestFrame DEF OtherStays, Carried, TableOf
    <3> QED
        BY <1>1, <2>1, <3>1 DEF FreqInv, UsedInv
  <2> QED
      BY <2>2, <2>3
<1> QED
    BY <1>2, <1>3, <1>4 DEF FreqInv

\* JEL_PROP_QUALITY.
LEMMA SetQualityKeeps ==
    ASSUME FreqInv, NEW s \in Sides, SetQuality(s)
    PROVE  FreqInv'
<1>1. PICK q \in Qualities : /\ quality' = [quality EXCEPT ![s] = q]
                             /\ dst' = [dst EXCEPT ![s] = Standard[q]]
    BY DEF SetQuality
<1>2. /\ late' = [late EXCEPT ![s].opened = FALSE,
                              ![s].chosen = @ \/ init[s] = Chosen]
      /\ UNCHANGED <<src, init, freqs, open, tables>> /\ Call(s)
    BY DEF SetQuality
<1>3. Shape'
  <2>1. Standard[q] \in [Slots -> Table]
      BY TableFacts
  <2>2. dst' \in [Sides -> [Slots -> Table]]
      BY <1>1, <2>1 DEF FreqInv, Shape
  <2>3. late' \in [Sides -> [opened : BOOLEAN, chosen : BOOLEAN]]
      BY <1>2, ZenonT(30) DEF FreqInv, Shape
  <2>4. quality' \in [Sides -> Qualities \cup {Unset}]
      BY <1>1 DEF FreqInv, Shape
  <2> QED
      BY <1>2, <2>2, <2>3, <2>4 DEF FreqInv, Shape, Call
<1>4. OtherStays(s) /\ OpensRight(s)
    BY <1>1, <1>2 DEF FreqInv, Shape, OtherStays, OpensRight
<1>5. /\ late'[s].opened = FALSE /\ late'[s].chosen = (late[s].chosen \/ init[s] = Chosen)
      /\ quality'[s] = q /\ dst'[s] = Standard[q]
    BY <1>1, <1>2 DEF FreqInv, Shape
<1>6. SideInv(s)'
  <2>1. init[s] = Chosen => ~ InOrder(s)'
      BY <1>5 DEF InOrder
  <2>2. max' = max
      BY <1>2 DEF Call
  <2>3. Settling(s)' => dst'[s] = Settled(s)'
      BY <1>5, TableFacts DEF Settling, Settled, Sides
  <2> QED
      BY <1>2, <2>1, <2>2, <2>3, BestFrame DEF FreqInv, SideInv
<1> QED
    BY <1>2, <1>3, <1>4, <1>6, CallKeeps

\* ijel_open_source.
LEMMA OpenKeeps ==
    ASSUME FreqInv, NEW s \in Sides, Open(s)
    PROVE  FreqInv'
<1>1. PICK i \in IF s = "sender" THEN Images ELSE {file} :
        /\ src' = [src EXCEPT ![s] = i]
        /\ dst' = [dst EXCEPT ![s] = FromImage(i)]
    BY DEF Open, FromImage
<1>2. /\ late' = [late EXCEPT ![s].opened = (quality[s] # Unset),
                              ![s].chosen = @ \/ init[s] = Chosen]
      /\ open' = open \cup {s}
      /\ UNCHANGED <<quality, init, freqs, tables>> /\ Call(s)
    BY DEF Open
<1>3. i \in [Slots -> Table \cup {NoTable}]
  <2>1. CASE s = "sender"
      BY <2>1, TableFacts
  <2>2. CASE s = "receiver"
    <3>1. i = FileOf
        BY <1>2, <2>2 DEF FreqInv, PhaseInv, Call, After
    <3>2. "sender" \in Sides
        BY DEF Sides
    <3> HIDE DEF Table, NoTable, Slots
    <3> QED
        BY <3>1, <3>2 DEF FileOf, FreqInv, Shape
  <2> QED
      BY <2>1, <2>2 DEF Sides
<1>4. Shape'
  <2>1. FromImage(i) \in [Slots -> Table]
      BY <1>3, TableFacts
  <2>2. dst' \in [Sides -> [Slots -> Table]]
      BY <1>1, <2>1 DEF FreqInv, Shape
  <2>3. late' \in [Sides -> [opened : BOOLEAN, chosen : BOOLEAN]]
    <3> DEFINE set == quality[s] # Unset
    <3>1. late' = [late EXCEPT ![s].opened = set,
                               ![s].chosen = @ \/ init[s] = Chosen]
        BY <1>2
    <3>2. set = TRUE \/ set = FALSE
        OBVIOUS
    <3> HIDE DEF set
    <3>3. late \in [Sides -> [opened : BOOLEAN, chosen : BOOLEAN]]
        BY DEF FreqInv, Shape
    <3>4. CASE set = TRUE
        BY <3>1, <3>3, <3>4, ZenonT(30)
    <3>5. CASE set = FALSE
        BY <3>1, <3>3, <3>5, ZenonT(30)
    <3> QED
        BY <3>2, <3>4, <3>5
  <2>4. src' \in [Sides -> [Slots -> Table \cup {NoTable}]]
      BY <1>1, <1>3 DEF FreqInv, Shape
  <2> QED
      BY <1>2, <2>2, <2>3, <2>4 DEF FreqInv, Shape, Call
<1>5. OtherStays(s) /\ OpensRight(s)
    BY <1>1, <1>2 DEF FreqInv, Shape, OtherStays, OpensRight
<1>6. /\ late'[s].opened = (quality[s] # Unset)
      /\ late'[s].chosen = (late[s].chosen \/ init[s] = Chosen)
      /\ src'[s] = i /\ dst'[s] = FromImage(i)
    BY <1>1, <1>2 DEF FreqInv, Shape
<1>7. SideInv(s)'
  <2>1. init[s] = Chosen => ~ InOrder(s)'
      BY <1>6 DEF InOrder
  <2>2. max' = max
      BY <1>2 DEF Call
  <2>3. Settling(s)' => dst'[s] = Settled(s)'
      BY <1>2, <1>6 DEF Settling, Settled, FromImage
  <2> QED
      BY <1>2, <2>1, <2>2, <2>3, BestFrame DEF FreqInv, SideInv
<1> QED
    BY <1>2, <1>4, <1>5, <1>7, CallKeeps

\* JEL_PROP_NLEVELS, NFREQS, MAXFREQS.
LEMMA ResetKeeps ==
    ASSUME FreqInv, NEW s \in Sides, Reset(s)
    PROVE  FreqInv'
<1>1. /\ init' = [init EXCEPT ![s] = Anew]
      /\ late' = [late EXCEPT ![s].chosen = FALSE]
      /\ UNCHANGED <<src, dst, quality, freqs, open, tables>> /\ Call(s)
    BY DEF Reset
<1>2. Shape'
    BY <1>1 DEF FreqInv, Shape, Call
<1>3. OtherStays(s) /\ OpensRight(s)
    BY <1>1 DEF FreqInv, Shape, OtherStays, OpensRight
<1>4. init'[s] = Anew /\ late'[s].opened = late[s].opened
    BY <1>1 DEF FreqInv, Shape
<1>5. SideInv(s)'
  <2>1. init'[s] # Chosen
      BY <1>4 DEF Anew, Chosen
  <2>2. Settling(s)' = Settling(s) /\ Settled(s)' = Settled(s)
      BY <1>1, <1>4 DEF Settling, Settled, FromImage
  <2> QED
      BY <1>1, <2>1, <2>2 DEF FreqInv, SideInv
<1> QED
    BY <1>1, <1>2, <1>3, <1>5, CallKeeps

\* jel_init_frequencies.
LEMMA InitFrequenciesKeeps ==
    ASSUME FreqInv, NEW s \in Sides, jel_init_frequencies(s)
    PROVE  FreqInv'
<1>1. UNCHANGED <<src, dst, quality, open, late>> /\ Call(s) /\ max' = max
    BY DEF jel_init_frequencies, Call
<1>2. InOrder(s)' = InOrder(s) /\ Settling(s)' = Settling(s)
      /\ Settled(s)' = Settled(s)
    BY <1>1 DEF InOrder, Settling, Settled, FromImage
<1>3. CASE init[s] # Anew
  <2>1. UNCHANGED <<init, freqs, tables>>
      BY <1>3 DEF jel_init_frequencies
  <2>2. Shape' /\ OtherStays(s) /\ OpensRight(s)
      BY <1>1, <2>1 DEF FreqInv, Shape, OtherStays, OpensRight, Call
  <2>3. SideInv(s)'
      BY <1>1, <2>1, SideFrame DEF FreqInv
  <2> QED
      BY <1>1, <2>2, <2>3, CallKeeps
<1>4. CASE init[s] = Anew
  <2> DEFINE t == dst[s][0]
  <2>1. /\ init' = [init EXCEPT ![s] = Chosen]
        /\ freqs' = [freqs EXCEPT ![s] = Over(@, Highest(t))]
        /\ tables' = [tables EXCEPT ![s] = [x \in Slots |-> t]]
      BY <1>4 DEF jel_init_frequencies
  <2> HIDE DEF t
  <2>2. Shape'
      BY <1>1, <2>1 DEF FreqInv, Shape, Call
  <2>3. OtherStays(s) /\ OpensRight(s)
      BY <1>1, <2>1 DEF FreqInv, Shape, OtherStays, OpensRight
  <2>4. /\ tables'[s][0] = t /\ tables'[s][1] = t
        /\ freqs'[s] = Over(freqs[s], Highest(t))
      BY <2>1 DEF FreqInv, Shape, Slots
  <2>5. max \in 1 .. DCTSIZE2 /\ max \in Nat
      BY FrequenciesAssumption DEF FreqInv, Shape
  <2>6. ASSUME Full(t), NEW k \in 1 .. max
        PROVE  freqs'[s][k - 1] = Highest(t)[k]
    <3>1. Len(Highest(t)) = max
        BY <2>5, <2>6, HighestFacts DEF Full
    <3>2. k - 1 \in Frequency /\ k - 1 < max /\ (k - 1) + 1 = k
        BY <2>5, FrequenciesAssumption DEF Frequency
    <3> QED
        BY <2>4, <3>1, <3>2 DEF Over
  <2>7. SideInv(s)'
    <3>1. (s \in open)' = (s \in open) /\ dst'[s] = dst[s]
        BY <1>1
    <3>3. Full(tables[s][0])' => Full(t)
        BY <1>1, <2>4 DEF Full
    <3>4. \A k \in 1 .. max : Highest(tables[s][0])'[k] = Highest(t)[k]
        BY <1>1, <2>4 DEF Highest, Found
    <3>5. init'[s] = Chosen => tables'[s][0] = dst'[s][0]
        BY <2>4, <3>1 DEF t
    <3> QED
        BY <1>1, <1>2, <2>4, <2>6, <3>1, <3>3, <3>4, <3>5 DEF FreqInv, SideInv
  <2> QED
      BY <1>1, <2>2, <2>3, <2>7, CallKeeps
<1> QED
    BY <1>3, <1>4

\* jel_init_frequencies with a list.
LEMMA GiveFrequenciesKeeps ==
    ASSUME FreqInv, NEW s \in Sides, GiveFrequencies(s)
    PROVE  FreqInv'
<1>1. UNCHANGED <<src, dst, quality, open, tables, late>> /\ Call(s)
    BY DEF GiveFrequencies
<1>2. PICK l \in Lists : freqs' = [freqs EXCEPT ![s] = Over(@, l)]
    BY DEF GiveFrequencies
<1>3. init' = [init EXCEPT ![s] = Given]
    BY DEF GiveFrequencies
<1>4. Shape'
    BY <1>1, <1>2, <1>3 DEF FreqInv, Shape, Call
<1>5. OtherStays(s) /\ OpensRight(s)
    BY <1>1, <1>2, <1>3 DEF FreqInv, Shape, OtherStays, OpensRight
<1>6. SideInv(s)'
  <2>1. init'[s] # Chosen
      BY <1>3 DEF FreqInv, Shape, Given, Chosen
  <2>2. Settling(s)' = Settling(s) /\ Settled(s)' = Settled(s)
      BY <1>1 DEF Settling, Settled, FromImage
  <2> QED
      BY <1>1, <2>1, <2>2 DEF FreqInv, SideInv
<1> QED
    BY <1>1, <1>4, <1>5, <1>6, CallKeeps

\* What jel_capacity, jel_embed and jel_extract look up leaves alone what was
\* chosen for good.
LEMMA ChooseLater ==
    ASSUME NEW s \in Sides, init[s] # Anew
    PROVE  \A old, c : Choose(s, old, c) = old
BY DEF Choose

\* jel_capacity.
LEMMA CapacityKeeps ==
    ASSUME FreqInv, NEW s \in Sides, jel_capacity(s)
    PROVE  FreqInv'
<1>1. UNCHANGED <<src, dst, quality, init, open, tables, late>> /\ Call(s)
    BY DEF jel_capacity
<1>2. PICK c \in Chans : freqs' = [freqs EXCEPT ![s] = Choose(s, @, c)]
    BY DEF jel_capacity
<1>3. Shape'
    BY <1>1, <1>2 DEF FreqInv, Shape, Call
<1>4. OtherStays(s) /\ OpensRight(s)
    BY <1>1, <1>2 DEF FreqInv, Shape, OtherStays, OpensRight
<1>5. SideInv(s)'
  <2>1. CASE init[s] = Chosen
    <3>1. freqs'[s] = freqs[s]
        BY <1>2, <2>1, ChooseLater DEF FreqInv, Shape, Chosen, Anew
    <3> QED
        BY <1>1, <3>1, SideFrame DEF FreqInv, Call
  <2>2. CASE init[s] # Chosen
    <3>1. Settling(s)' = Settling(s) /\ Settled(s)' = Settled(s)
        BY <1>1 DEF Settling, Settled, FromImage
    <3> QED
        BY <1>1, <2>2, <3>1 DEF FreqInv, SideInv
  <2> QED
      BY <2>1, <2>2
<1> QED
    BY <1>1, <1>3, <1>4, <1>5, CallKeeps

-----------------------------------------------------------------------------
(* jel_embed and jel_extract.                                              *)

\* They leave the choice of a side alone if it was made for good.
LEMMA SideKeeps ==
    ASSUME NEW s \in Sides, SideInv(s), Shape, max' = max,
           UNCHANGED <<src, dst, quality, init, open, late>>,
           init[s] = Chosen => freqs'[s] = freqs[s] /\ tables'[s] = tables[s]
    PROVE  SideInv(s)'
<1>1. CASE init[s] = Chosen
    BY <1>1, SideFrame
<1>2. CASE init[s] # Chosen
  <2>1. Settling(s)' = Settling(s) /\ Settled(s)' = Settled(s)
      BY DEF Settling, Settled, FromImage
  <2> QED
      BY <1>2, <2>1 DEF SideInv
<1> QED
    BY <1>1, <1>2

\* A channel stays as it was dealt with.
LEMMA CarriedFrame ==
    ASSUME NEW s \in Sides, NEW c \in Chans, max' = max, init' = init,
           tables'[s] = tables[s], used'[s][c] = used[s][c]
    PROVE  Carried(s, c)' = Carried(s, c)
BY BestFrame DEF Carried, TableOf

\* The ring is filled.
LEMMA BeginKeeps ==
    ASSUME FreqInv, NEW s \in Sides,
           \/ s = "sender" /\ Begin(s, "stuff")
           \/ s = "receiver" /\ Begin(s, "unstuff")
    PROVE  FreqInv'
<1>1. /\ UNCHANGED <<max, src, dst, quality, init, open, late, calls, file, used>>
      /\ pc = s /\ s \in open /\ chan' = 0
      /\ pc' = IF s = "sender" THEN "stuff" ELSE "unstuff"
    BY DEF Begin
<1>2. /\ \E list : freqs' = [freqs EXCEPT ![s] = list]
      /\ init[s] # Anew => freqs' = [freqs EXCEPT ![s] = @]
    BY ChooseLater DEF Begin
<1>3. tables' = IF init[s] = Anew THEN [tables EXCEPT ![s] = dst[s]] ELSE tables
    BY DEF Begin
<1>4. /\ \A o \in Sides : init[o] = Chosen =>
            freqs'[o] = freqs[o] /\ tables'[o] = tables[o]
      /\ \A o \in Sides : o # s => tables'[o] = tables[o]
      /\ init[s] = Anew => tables'[s] = dst[s]
      /\ DOMAIN tables' = Sides /\ DOMAIN freqs' = Sides
    BY <1>2, <1>3 DEF FreqInv, Shape, Anew, Chosen
<1>5. Shape'
  <2>1. pc' \in {"sender", "stuff"} \cup After /\ chan' \in 0 .. 3
      BY <1>1 DEF After
  <2> QED
      BY <1>1, <1>4, <2>1 DEF FreqInv, Shape
<1>6. \A o \in Sides : SideInv(o)'
    BY <1>1, <1>4, SideKeeps DEF FreqInv
<1>7. FileOf' = FileOf /\ InOrder("sender")' = InOrder("sender")
    BY <1>1 DEF FileOf, InOrder
<1>8. PhaseInv'
  <2>1. CASE s = "sender"
    <3>1. "receiver" \notin open
        BY <1>1, <2>1 DEF FreqInv, PhaseInv, After
    <3> QED
        BY <1>1, <1>4, <2>1, <3>1 DEF FreqInv, PhaseInv, After, Reading
  <2>2. CASE s = "receiver"
    <3>1. tables'["sender"] = tables["sender"]
        BY <1>4, <2>2 DEF Sides
    <3> QED
        BY <1>1, <1>4, <1>7, <2>2, <3>1
        DEF FreqInv, PhaseInv, After, Reading, Chans
  <2> QED
      BY <2>1, <2>2 DEF Sides
<1>9. UsedInv'
  <2> SUFFICES ASSUME NEW o \in Sides, NEW c \in Chans
               PROVE  (IF c < Dealt(o) THEN Carried(o, c)
                                       ELSE used[o][c] = <<>>)'
      BY DEF UsedInv
  <2>1. Dealt(o)' = Dealt(o)
      BY <1>1 DEF Dealt, Reading, Sides
  <2>2. CASE o = s
    <3>1. Dealt(o) = 0
        BY <1>1, <2>2 DEF Dealt, Sides, Reading
    <3>2. ~ (c < Dealt(o))
        BY <3>1 DEF Chans
    <3> QED
        BY <1>1, <2>1, <3>2 DEF FreqInv, UsedInv
  <2>3. CASE o # s
    <3>1. Carried(o, c)' = Carried(o, c)
        BY <1>1, <1>4, <2>3, CarriedFrame
    <3> QED
        BY <1>1, <2>1, <3>1 DEF FreqInv, UsedInv
  <2> QED
      BY <2>2, <2>3
<1> QED
    BY <1>5, <1>6, <1>8, <1>9 DEF FreqInv

\* A list that was chosen anew from a table with enough frequencies.
LEMMA OverInUse ==
    ASSUME Shape, NEW t, Full(t), NEW old
    PROVE  InUse(Over(old, Highest(t))) = Best(t)
<1>1. max \in Nat /\ max <= DCTSIZE2 /\ DCTSIZE2 \in Nat
    BY FrequenciesAssumption DEF Shape
<1>2. Len(Highest(t)) = max
    BY <1>1, HighestFacts DEF Full
<1>3. ASSUME NEW k \in 1 .. max
      PROVE  Over(old, Highest(t))[k - 1] = Highest(t)[k]
  <2>1. k - 1 \in Frequency /\ k - 1 < max /\ (k - 1) + 1 = k
      BY <1>1 DEF Frequency
  <2> QED
      BY <1>2, <2>1 DEF Over
<1> QED
    BY <1>3 DEF InUse, Best

\* What a side puts in use for a channel are the best frequencies of its table.
LEMMA PutInUse ==
    ASSUME Shape, NEW s \in Sides, SideInv(s), NEW c \in Chans, NEW old,
           init[s] = Anew => tables[s] = dst[s],
           init[s] = Chosen => old = freqs[s],
           init[s] # Given, Full(TableOf(s, c))
    PROVE  InUse(Choose(s, old, c)) = Best(TableOf(s, c))
<1>1. CASE init[s] = Anew
  <2>1. Choose(s, old, c) = Over(old, Highest(TableOf(s, c)))
      BY <1>1 DEF Choose, TableOf
  <2> QED
      BY <2>1, OverInUse
<1>2. CASE init[s] = Chosen
  <2>1. Choose(s, old, c) = freqs[s]
      BY <1>2, ChooseLater DEF Chosen, Anew
  <2>2. TableOf(s, c) = tables[s][0]
      BY <1>2 DEF TableOf, Slot, SideInv
  <2>3. \A k \in 1 .. max : freqs[s][k - 1] = Highest(TableOf(s, c))[k]
      BY <1>2, <2>2 DEF SideInv
  <2> QED
      BY <2>1, <2>3 DEF InUse, Best
<1> QED
    BY <1>1, <1>2 DEF Shape

\* ijel_stuff_message.
LEMMA StuffKeeps == FreqInv /\ Stuff => FreqInv'
<1> SUFFICES ASSUME FreqInv, Stuff PROVE FreqInv'
    OBVIOUS
<1> DEFINE s == "sender"
           list == Choose(s, freqs[s], chan)
<1>1. /\ UNCHANGED <<max, src, dst, quality, init, open, tables, late, calls,
                     pc, file>>
      /\ pc = "stuff" /\ chan \in Chans /\ chan' = chan + 1
      /\ s \in Sides
    BY DEF Stuff, Sides
<1>2. /\ freqs' = [freqs EXCEPT ![s] = list]
      /\ used' = [used EXCEPT ![s][chan] = InUse(list)]
    BY DEF Stuff
<1>3. init[s] # Anew => list = freqs[s]
    BY <1>1, ChooseLater
<1>4. init[s] # Given /\ Full(TableOf(s, chan))
        => InUse(list) = Best(TableOf(s, chan))
    BY <1>1, PutInUse DEF FreqInv, PhaseInv
<1> HIDE DEF list, s
<1>5. Shape'
  <2>1. chan' \in 0 .. 3
      BY <1>1 DEF Chans
  <2>2. DOMAIN freqs' = Sides /\ DOMAIN used' = Sides
        /\ \A o \in Sides : DOMAIN used'[o] = Chans
      BY <1>2 DEF FreqInv, Shape
  <2> QED
      BY <1>1, <2>1, <2>2 DEF FreqInv, Shape
<1>6. \A o \in Sides : SideInv(o)'
  <2>1. \A o \in Sides : init[o] = Chosen => freqs'[o] = freqs[o]
      BY <1>1, <1>2, <1>3 DEF FreqInv, Shape, Anew, Chosen
  <2> QED
      BY <1>1, <2>1, SideKeeps DEF FreqInv
<1>7. PhaseInv'
  <2>1. FileOf' = FileOf /\ InOrder("sender")' = InOrder("sender")
      BY <1>1 DEF FileOf, InOrder
  <2> QED
      BY <1>1, <2>1 DEF FreqInv, PhaseInv, After, Reading
<1>8. UsedInv'
  <2> SUFFICES ASSUME NEW o \in Sides, NEW c \in Chans
               PROVE  (IF c < Dealt(o) THEN Carried(o, c)
                                       ELSE used[o][c] = <<>>)'
      BY DEF UsedInv
  <2>1. CASE o = s /\ c = chan
    <3>1. used'[o][c] = InUse(list)
        BY <1>1, <1>2, <2>1 DEF FreqInv, Shape
    <3>2. Carried(o, c)'
      <4>1. /\ Full(TableOf(o, c))' = Full(TableOf(o, c))
            /\ Best(TableOf(o, c))' = Best(TableOf(o, c))
          BY <1>1, BestFrame DEF TableOf
      <4> QED
          BY <1>1, <1>4, <2>1, <3>1, <4>1 DEF Carried
    <3>3. c < Dealt(o)'
        BY <1>1, <2>1 DEF Dealt, s, Chans
    <3> QED
        BY <3>2, <3>3
  <2>2. CASE ~ (o = s /\ c = chan)
    <3>1. used'[o][c] = used[o][c]
        BY <1>1, <1>2, <2>2 DEF FreqInv, Shape
    <3>2. Carried(o, c)' = Carried(o, c)
        BY <1>1, <3>1, CarriedFrame
    <3>3. c < Dealt(o)' <=> c < Dealt(o)
        BY <1>1, <2>2 DEF Dealt, s, Chans, Sides, Reading
    <3> QED
        BY <3>1, <3>2, <3>3 DEF FreqInv, UsedInv
  <2> QED
      BY <2>1, <2>2
<1> QED
    BY <1>5, <1>6, <1>7, <1>8 DEF FreqInv

\* The image is written.
LEMMA EmbedEndKeeps == FreqInv /\ EmbedEnd => FreqInv'
<1> SUFFICES ASSUME FreqInv, EmbedEnd PROVE FreqInv'
    OBVIOUS
<1> DEFINE s == "sender"
<1>1. /\ UNCHANGED <<max, src, quality, init, freqs, open, tables, late, calls,
                     chan, used>>
      /\ pc = "stuff" /\ chan \notin Chans /\ pc' = "receiver" /\ s \in Sides
    BY DEF EmbedEnd, Sides
<1>2. /\ dst' = IF quality[s] = Unset THEN dst
                ELSE [dst EXCEPT ![s] = Standard[quality[s]]]
      /\ file' = FileOf'
    BY DEF EmbedEnd, FileOf
<1>3. /\ dst' \in [Sides -> [Slots -> Table]]
      /\ dst'["receiver"] = dst["receiver"]
      /\ quality[s] # Unset => dst'[s] = Standard[quality[s]]
      /\ quality[s] = Unset => dst'[s] = dst[s]
  <2>1. quality[s] # Unset => Standard[quality[s]] \in [Slots -> Table]
      BY <1>1, TableFacts DEF FreqInv, Shape
  <2> HIDE DEF s
  <2>2. dst' \in [Sides -> [Slots -> Table]]
      BY <1>1, <1>2, <2>1 DEF FreqInv, Shape
  <2> QED
      BY <1>1, <1>2, <2>2 DEF FreqInv, Shape, s, Sides
<1>4. s \in open /\ "receiver" \notin open
    BY <1>1 DEF FreqInv, PhaseInv, After
<1>5. Settling(s) => dst'[s] = dst[s]
    BY <1>1, <1>3, <1>4 DEF FreqInv, SideInv, Settled
<1>6. /\ Settling(s)' = Settling(s) /\ Settled(s)' = Settled(s)
      /\ InOrder(s)' = InOrder(s)
    BY <1>1 DEF Settling, Settled, InOrder, FromImage
<1>7. InOrder(s) => Settling(s)
    BY DEF InOrder, Settling
<1>8. Shape'
  <2>1. src' \in [Sides -> [Slots -> Table \cup {NoTable}]] /\ pc' \in After
      BY <1>1 DEF FreqInv, Shape, After
  <2> QED
      BY <1>1, <1>3, <2>1 DEF FreqInv, Shape
<1>9. \A o \in Sides : SideInv(o)'
  <2>1. SideInv("receiver")'
      BY <1>1, <1>3, SideFrame DEF FreqInv, Sides
  <2>2. SideInv(s)'
    <3>1. SideInv(s)
        BY <1>1 DEF FreqInv
    <3> HIDE DEF s
    <3> QED
        BY <1>1, <1>5, <1>6, <1>7, <3>1, BestFrame DEF SideInv
  <2> QED
      BY <2>1, <2>2 DEF Sides
<1>10. PhaseInv'
    BY <1>1, <1>2, <1>4, <1>5, <1>6, <1>7
    DEF FreqInv, PhaseInv, After, Reading
<1>11. UsedInv'
  <2> SUFFICES ASSUME NEW o \in Sides, NEW c \in Chans
               PROVE  (IF c < Dealt(o) THEN Carried(o, c)
                                       ELSE used[o][c] = <<>>)'
      BY DEF UsedInv
  <2>1. Carried(o, c)' = Carried(o, c)
      BY <1>1, CarriedFrame
  <2>2. chan = 3
      BY <1>1 DEF FreqInv, Shape, Chans
  <2>3. Dealt(o)' = Dealt(o)
      BY <1>1, <2>2 DEF Dealt, Reading
  <2> QED
      BY <1>1, <2>1, <2>3 DEF FreqInv, UsedInv
<1> QED
    BY <1>8, <1>9, <1>10, <1>11 DEF FreqInv

\* ijel_unstuff_message.
LEMMA UnstuffKeeps == FreqInv /\ Unstuff => FreqInv'
<1> SUFFICES ASSUME FreqInv, Unstuff PROVE FreqInv'
    OBVIOUS
<1> DEFINE s == "receiver"
           first == IF init[s] = Anew
                      THEN Over(freqs[s], Highest(src[s][Slot(chan)])) ELSE freqs[s]
           list == Choose(s, first, chan)
<1>1. /\ UNCHANGED <<max, src, dst, quality, init, open, tables, late, calls,
                     pc, file>>
      /\ pc = "unstuff" /\ chan \in Chans /\ chan' = chan + 1
      /\ s \in Sides
      /\ init[s] = Anew => src[s][Slot(chan)] # NoTable
    BY DEF Unstuff, Sides
<1>2. /\ freqs' = [freqs EXCEPT ![s] = list]
      /\ used' = [used EXCEPT ![s][chan] = InUse(list)]
    BY DEF Unstuff
<1>3. init[s] # Anew => first = freqs[s] /\ list = freqs[s]
    BY <1>1, ChooseLater
<1>4. init[s] # Given /\ Full(TableOf(s, chan))
        => InUse(list) = Best(TableOf(s, chan))
  <2>1. init[s] = Anew => tables[s] = dst[s]
      BY <1>1 DEF FreqInv, PhaseInv, Reading
  <2>2. init[s] = Chosen => first = freqs[s]
      BY <1>3 DEF Anew, Chosen
  <2> HIDE DEF first
  <2> QED
      BY <1>1, <2>1, <2>2, PutInUse DEF FreqInv
<1> HIDE DEF list, s
<1>5. Shape'
  <2>1. chan' \in 0 .. 3
      BY <1>1 DEF Chans
  <2>2. DOMAIN freqs' = Sides /\ DOMAIN used' = Sides
        /\ \A o \in Sides : DOMAIN used'[o] = Chans
      BY <1>2 DEF FreqInv, Shape
  <2> QED
      BY <1>1, <2>1, <2>2 DEF FreqInv, Shape
<1>6. \A o \in Sides : SideInv(o)'
  <2>1. \A o \in Sides : init[o] = Chosen => freqs'[o] = freqs[o]
      BY <1>1, <1>2, <1>3 DEF FreqInv, Shape, Anew, Chosen
  <2> QED
      BY <1>1, <2>1, SideKeeps DEF FreqInv
<1>7. PhaseInv'
  <2>1. FileOf' = FileOf /\ InOrder("sender")' = InOrder("sender")
      BY <1>1 DEF FileOf, InOrder
  <2>2. init["receiver"] = Anew =>
          \A c \in Chans : c < chan + 1 => src["receiver"][Slot(c)] # NoTable
      BY <1>1 DEF FreqInv, PhaseInv, Chans, s
  <2> QED
      BY <1>1, <2>1, <2>2 DEF FreqInv, PhaseInv, After, Reading
<1>8. UsedInv'
  <2> SUFFICES ASSUME NEW o \in Sides, NEW c \in Chans
               PROVE  (IF c < Dealt(o) THEN Carried(o, c)
                                       ELSE used[o][c] = <<>>)'
      BY DEF UsedInv
  <2>1. CASE o = s /\ c = chan
    <3>1. used'[o][c] = InUse(list)
        BY <1>1, <1>2, <2>1 DEF FreqInv, Shape
    <3>2. Carried(o, c)'
      <4>1. /\ Full(TableOf(o, c))' = Full(TableOf(o, c))
            /\ Best(TableOf(o, c))' = Best(TableOf(o, c))
          BY <1>1, BestFrame DEF TableOf
      <4> QED
          BY <1>1, <1>4, <2>1, <3>1, <4>1 DEF Carried
    <3>3. c < Dealt(o)'
        BY <1>1, <2>1 DEF Dealt, s, Chans, Reading
    <3> QED
        BY <3>2, <3>3
  <2>2. CASE ~ (o = s /\ c = chan)
    <3>1. used'[o][c] = used[o][c]
        BY <1>1, <1>2, <2>2 DEF FreqInv, Shape
    <3>2. Carried(o, c)' = Carried(o, c)
        BY <1>1, <3>1, CarriedFrame
    <3>3. c < Dealt(o)' <=> c < Dealt(o)
        BY <1>1, <2>2 DEF Dealt, s, Chans, Sides, Reading
    <3> QED
        BY <3>1, <3>2, <3>3 DEF FreqInv, UsedInv
  <2> QED
      BY <2>1, <2>2
<1> QED
    BY <1>5, <1>6, <1>7, <1>8 DEF FreqInv

\* The receiver returns.
LEMMA ReturnKeeps == FreqInv /\ (UnstuffNoTable \/ ExtractEnd) => FreqInv'
<1> SUFFICES ASSUME FreqInv, UnstuffNoTable \/ ExtractEnd PROVE FreqInv'
    OBVIOUS
<1>1. /\ UNCHANGED <<max, src, dst, quality, init, freqs, open, tables, late,
                     calls, chan, file, used>>
      /\ pc = "unstuff" /\ pc' \in {"NULL table", "done"}
      /\ pc' = "done" => chan \notin Chans
    BY DEF UnstuffNoTable, ExtractEnd, config
<1>2. Shape'
    BY <1>1 DEF FreqInv, Shape, After
<1>3. \A o \in Sides : SideInv(o)'
    BY <1>1, SideFrame DEF FreqInv
<1>4. PhaseInv'
  <2>1. FileOf' = FileOf /\ InOrder("sender")' = InOrder("sender")
      BY <1>1 DEF FileOf, InOrder
  <2>2. chan \notin Chans => chan = 3
      BY DEF FreqInv, Shape, Chans
  <2> QED
      BY <1>1, <2>1, <2>2 DEF FreqInv, PhaseInv, After, Reading
<1>5. UsedInv'
  <2> SUFFICES ASSUME NEW o \in Sides, NEW c \in Chans
               PROVE  (IF c < Dealt(o) THEN Carried(o, c)
                                       ELSE used[o][c] = <<>>)'
      BY DEF UsedInv
  <2>1. Carried(o, c)' = Carried(o, c)
      BY <1>1, CarriedFrame
  <2>2. Dealt(o)' = Dealt(o)
      BY <1>1 DEF Dealt, Reading
  <2> QED
      BY <1>1, <2>1, <2>2 DEF FreqInv, UsedInv
<1> QED
    BY <1>2, <1>3, <1>4, <1>5 DEF FreqInv

\* The invariant holds at the start.
LEMMA FreqInit == Init => FreqInv
<1> SUFFICES ASSUME Init PROVE FreqInv
    OBVIOUS
<1>1. Shape
  <2>1. max \in 1 .. DCTSIZE2
      BY FrequenciesAssumption DEF Init
  <2>2. Standard[Default] \in [Slots -> Table]
      BY TableFacts
  <2>3. dst \in [Sides -> [Slots -> Table]]
      BY <2>2 DEF Init
  <2>4. src \in [Sides -> [Slots -> Table \cup {NoTable}]]
      BY DEF Init
  <2>5. late \in [Sides -> [opened : BOOLEAN, chosen : BOOLEAN]]
      BY DEF Init
  <2> QED
      BY <2>1, <2>3, <2>4, <2>5 DEF Init, Shape
<1>2. \A s \in Sides : SideInv(s)
    BY DEF Init, SideInv, Anew, Chosen
<1>3. PhaseInv
    BY DEF Init, PhaseInv, After, Reading
<1>4. UsedInv
  <2>1. \A s \in Sides : Dealt(s) = 0
      BY DEF Init, Dealt, Reading, Sides
  <2>2. \A c \in Chans : ~ (c < 0)
      BY DEF Chans
  <2> QED
      BY <2>1, <2>2 DEF Init, UsedInv
<1> QED
    BY <1>1, <1>2, <1>3, <1>4 DEF FreqInv

\* And every step keeps it.
LEMMA FreqNext == FreqInv /\ [Next]_vars => FreqInv'
<1> SUFFICES ASSUME FreqInv, [Next]_vars PROVE FreqInv'
    OBVIOUS
<1>1. ASSUME NEW s \in Sides, Prepare(s) PROVE FreqInv'
    BY <1>1, SetQualityKeeps, OpenKeeps, ResetKeeps, InitFrequenciesKeeps,
       GiveFrequenciesKeeps, CapacityKeeps DEF Prepare
<1>2. CASE EmbedBegin \/ ExtractBegin
    BY <1>2, BeginKeeps DEF EmbedBegin, ExtractBegin, Sides
<1>3. CASE UNCHANGED vars
  <2>1. /\ UNCHANGED <<max, src, dst, quality, init, freqs, open, tables, late,
                       calls, pc, chan, file, used>>
      BY <1>3 DEF vars, config
  <2>2. Shape'
      BY <2>1 DEF FreqInv, Shape
  <2>3. \A o \in Sides : SideInv(o)'
      BY <2>1, SideFrame DEF FreqInv
  <2>4. PhaseInv'
    <3>1. FileOf' = FileOf /\ InOrder("sender")' = InOrder("sender")
        BY <2>1 DEF FileOf, InOrder
    <3> QED
        BY <2>1, <3>1 DEF FreqInv, PhaseInv
  <2>5. UsedInv'
    <3>1. \A s \in Sides, c \in Chans : Carried(s, c)' = Carried(s, c)
        BY <2>1, CarriedFrame
    <3>2. \A s \in Sides : Dealt(s)' = Dealt(s)
        BY <2>1 DEF Dealt
    <3> QED
        BY <2>1, <3>1, <3>2 DEF FreqInv, UsedInv
  <2> QED
      BY <2>2, <2>3, <2>4, <2>5 DEF FreqInv
<1> QED
    BY <1>1, <1>2, <1>3, StuffKeeps, EmbedEndKeeps, UnstuffKeeps, ReturnKeeps
    DEF Next

-----------------------------------------------------------------------------
(* What follows from it.                                                   *)

\* At the end, if its calls were in order, what each side has chosen anew is of
\* the tables in the file, and what it has chosen for good of the first.
LEMMA InOrderOfFile ==
    ASSUME FreqInv, pc = "done", NEW s \in Sides, InOrder(s)
    PROVE  /\ init[s] = Anew =>
                \A c \in Chans : file[Slot(c)] # NoTable =>
                                     TableOf(s, c) = file[Slot(c)]
           /\ init[s] = Chosen => \A c \in Chans : TableOf(s, c) = file[0]
           /\ init["receiver"] = Anew =>
                \A c \in Chans : file[Slot(c)] # NoTable
<1>1. /\ "sender" \in open /\ "receiver" \in open /\ file = FileOf
      /\ src["sender"] \in Images /\ src["receiver"] = file
      /\ "sender" \in Sides /\ "receiver" \in Sides
    BY DEF FreqInv, PhaseInv, After, Reading, Sides
<1>2. init["receiver"] = Anew => \A c \in Chans : file[Slot(c)] # NoTable
    BY <1>1 DEF FreqInv, PhaseInv, Chans
<1>3. /\ 0 \in Slots /\ \A c \in Chans : Slot(c) \in Slots
      /\ dst["sender"] \in [Slots -> Table]
    BY <1>1, TableFacts DEF FreqInv, Shape
<1>4. \A t \in Slots : file[t] # NoTable => file[t] = dst["sender"][t]
    BY <1>1 DEF FileOf
<1>5. file[0] # NoTable
  <2>1. src["sender"][0] # NoTable
      BY <1>1, TableFacts
  <2>2. file[0] = dst["sender"][0]
      BY <1>1, <1>3, <2>1 DEF FileOf
  <2>3. dst["sender"][0] \in Table
      BY <1>3
  <2> QED
      BY <2>2, <2>3, TableFacts
<1>6. s = "receiver" =>
        \A t \in Slots : file[t] # NoTable => dst["receiver"][t] = file[t]
  <2> SUFFICES ASSUME s = "receiver", NEW t \in Slots, file[t] # NoTable
               PROVE  dst["receiver"][t] = file[t]
      OBVIOUS
  <2>1. Settling("receiver")
      BY DEF InOrder, Settling
  <2>2. dst["receiver"] = FromImage(file)
      BY <1>1, <2>1 DEF FreqInv, SideInv, Settled
  <2> QED
      BY <2>2 DEF FromImage
<1>7. \A t \in Slots : file[t] # NoTable => dst[s][t] = file[t]
    BY <1>4, <1>6 DEF Sides
<1>8. init[s] = Anew => tables[s] = dst[s]
    BY DEF FreqInv, PhaseInv, After, Reading, Sides
<1>9. init[s] = Chosen => tables[s][0] = dst[s][0] /\ tables[s][1] = dst[s][0]
    BY DEF FreqInv, SideInv
<1> QED
    BY <1>2, <1>3, <1>5, <1>7, <1>8, <1>9 DEF TableOf, Slot

\* Sides that made their calls in order use the same frequencies.
LEMMA InvSame == FreqInv => SameFrequencies
<1> SUFFICES ASSUME FreqInv, pc = "done", init["sender"] = init["receiver"],
                    \A s \in Sides : InOrder(s),
                    NEW c \in Chans, Enough("sender", c)
             PROVE  used["sender"][c] = used["receiver"][c]
    BY DEF SameFrequencies
<1>1. /\ "sender" \in Sides /\ "receiver" \in Sides
      /\ init["sender"] \in {Anew, Chosen}
    BY DEF Sides, Enough, FreqInv, Shape
<1>2. TableOf("sender", c) = TableOf("receiver", c)
  <2>1. CASE init["sender"] = Anew
      BY <1>1, <2>1, InOrderOfFile
  <2>2. CASE init["sender"] = Chosen
      BY <1>1, <2>2, InOrderOfFile
  <2> QED
      BY <1>1, <2>1, <2>2
<1>3. \A s \in Sides : Carried(s, c)
  <2>1. \A s \in Sides : Dealt(s) = 3
      BY DEF FreqInv, PhaseInv, Dealt, Reading
  <2>2. c < 3
      BY DEF Chans
  <2> QED
      BY <2>1, <2>2 DEF FreqInv, UsedInv
<1>4. Full(TableOf("sender", c)) /\ init["sender"] # Given
    BY DEF Enough, Full
<1> QED
    BY <1>1, <1>2, <1>3, <1>4 DEF Carried

\* Frequencies are distinct and fine enough.
LEMMA InvHold == FreqInv => FrequenciesHold
<1> SUFFICES ASSUME FreqInv, NEW s \in Sides, NEW c \in Chans,
                    used[s][c] # <<>>, Enough(s, c)
             PROVE  /\ IsInjective(used[s][c])
                    /\ /\ pc = "done"
                       /\ init[s] = Anew
                       /\ InOrder(s)
                       /\ file[Slot(c)] # NoTable
                       => ToSet(used[s][c]) \subseteq Suitable(file[Slot(c)])
    BY DEF FrequenciesHold
<1> DEFINE t == TableOf(s, c)
<1>1. used[s][c] = Best(t) /\ Full(t)
    BY DEF FreqInv, UsedInv, Carried, Enough, Full
<1> HIDE DEF t
<1>2. max \in Nat
    BY FrequenciesAssumption DEF FreqInv, Shape
<1>3. /\ Highest(t) \in Seq(Suitable(t)) /\ Len(Highest(t)) = max
      /\ Falling(Highest(t))
    BY <1>1, <1>2, HighestFacts DEF Full
<1>4. \A k \in 1 .. max : Highest(t)[k] \in Suitable(t) /\ Highest(t)[k] \in Int
    BY <1>3 DEF Suitable, Frequency
<1>5. IsInjective(Best(t))
  <2>1. \A a, b \in 1 .. max : a < b => Highest(t)[a] > Highest(t)[b]
      BY <1>3 DEF Falling
  <2>2. \A a, b \in 1 .. max : Highest(t)[a] = Highest(t)[b] => a = b
      BY <1>2, <1>4, <2>1
  <2> QED
      BY <2>2 DEF IsInjective, Best
<1>6. ToSet(Best(t)) \subseteq Suitable(t)
    BY <1>4 DEF ToSet, Best
<1>7. pc = "done" /\ init[s] = Anew /\ InOrder(s) /\ file[Slot(c)] # NoTable
        => t = file[Slot(c)]
    BY InOrderOfFile DEF t
<1> QED
    BY <1>1, <1>5, <1>6, <1>7

\* Whatever the tables, qualities and calls, two sides that make their calls in
\* order, and choose both for good or both anew, hide and look for bits in the
\* same frequencies (SameFrequencies).
THEOREM AlwaysSameFrequencies == Spec => []SameFrequencies
BY FreqInit, FreqNext, InvSame, PTL DEF Spec

\* No frequency is used twice in a block, and in order each has the levels it
\* needs in the table of the file (FrequenciesHold).
THEOREM FrequenciesAlwaysHold == Spec => []FrequenciesHold
BY FreqInit, FreqNext, InvHold, PTL DEF Spec
=============================================================================
