------------------------------ MODULE Huffman -------------------------------
(***************************************************************************)
(* The Huffman codes of libjpeg: the table an encoder makes from the       *)
(* counts of the symbols (jchuff.c), the codes both sides derive from a    *)
(* table, the bits of an entropy coded segment on their way through bytes  *)
(* with stuffed zeros, and the reader that looks ahead of the bit it is at *)
(* (jdhuff.c).  Restart says what the symbols of a block are, Progressive  *)
(* those of a scan; here a symbol is a number, followed by bits of its     *)
(* own.                                                                    *)
(*                                                                         *)
(* A buffer of bits is the sequence of the bits that are valid in it.      *)
(***************************************************************************)
EXTENDS Integers, FiniteSets, FiniteSetsExt, SequencesExt

CONSTANTS
    NumSymbols,      \* 256
    SizeRange,       \* 16: the low bits of a symbol are a size
    MaxLength,       \* 16: the longest code a table has
    MAX_CLEN,        \* 32: the longest code of a tree
    MaxFreq,         \* 1000000000: no tree that occurs more often is merged
    HUFF_LOOKAHEAD,
    ByteSize,        \* 8
    BIT_BUF_SIZE,
    Counts,          \* what the counts of the symbols may be
    Coded,           \* those of them whose tables messages are written with
    GivenTables,     \* tables that were not made from counts
    MaxMessage,      \* symbols of a message
    MaxForeign       \* bytes of data from elsewhere

Symbols == 0 .. NumSymbols - 1
Bytes == 0 .. 2 ^ ByteSize - 1
xFF == 2 ^ ByteSize - 1
EOI == 2 ^ ByteSize - 2

\* A byte is read while there are fewer bits than these.
MIN_GET_BITS == BIT_BUF_SIZE - (ByteSize - 1)

ASSUME HuffmanAssumption ==
    /\ NumSymbols \in Nat \ {0} /\ NumSymbols < 2 ^ MaxLength
    /\ SizeRange \in 1 .. NumSymbols /\ SizeRange - 1 <= MIN_GET_BITS
    /\ MaxLength \in Nat \ {0} /\ HUFF_LOOKAHEAD \in 1 .. MaxLength
    /\ HUFF_LOOKAHEAD + 1 <= MIN_GET_BITS
    /\ MAX_CLEN \in Nat /\ MAX_CLEN > MaxLength
    /\ MaxFreq \in Nat \ {0}
    /\ ByteSize \in Nat \ {0, 1}
    /\ Counts \subseteq [Symbols -> Nat]
    /\ \A cnt \in Counts : \E s \in Symbols : cnt[s] \in 1 .. MaxFreq
    /\ Coded \subseteq Counts
    /\ \A t \in GivenTables : t.bits \in [1 .. MaxLength -> Nat]
    /\ MaxMessage \in Nat /\ MaxForeign \in Nat

VARIABLES
    phase,    \* "tables", "coding", "sent", "reading", "refused", "overflow"
    isDC,     \* the table is one for DC coefficients
    count,    \* the counts the table was made from
    table,    \* the Huffman table: bits and huffval
    derived,  \* its codes: the c_derived_tbl or d_derived_tbl of it
    put,      \* put_buffer
    bytes,    \* the segment, with the marker that ends it
    in,       \* the reader's place, get_buffer, unread_marker, insufficient_data
    got,      \* the symbols decoded
    written,  \* history: the symbols written,
    ends,     \* and where in the data each of them ends
    warned    \* history: how often the reader has run out of data

vars == <<phase, isDC, count, table, derived, put, bytes, in, got, written, ends, warned>>

-----------------------------------------------------------------------------
(* jpeg_gen_optimal_table.                                                 *)

\* The pseudo-symbol that takes the code of ones.
Pseudo == NumSymbols

\* A symbol that occurs n times, as a tree of its own.  size has the symbols of a
\* tree, each with the length of its code.
Leaf(s, n) == [top |-> s, freq |-> n, size |-> {<<s, 0>>}]

\* The tree that occurs least; of several, the one with the largest symbol on top.
Rarest(trees) ==
    CHOOSE t \in trees : \A u \in trees :
        t.freq < u.freq \/ (t.freq = u.freq /\ u.top <= t.top)

\* Two trees are merged until there is one, or none occurs seldom enough.
RECURSIVE Merged(_)
Merged(trees) ==
    LET live == {t \in trees : t.freq \in 1 .. MaxFreq}
        c1 == Rarest(live)
        c2 == Rarest(live \ {c1})
        both == [top |-> c1.top, freq |-> c1.freq + c2.freq,
                 size |-> {<<p[1], p[2] + 1>> : p \in c1.size \cup c2.size}]
    IN  IF Cardinality(live) < 2 THEN trees
        ELSE Merged((trees \ {c1, c2}) \cup {both})

\* codesize
TreeSizes(freq) ==
    LET sizes == UNION {t.size : t \in Merged({Leaf(s, freq[s]) : s \in DOMAIN freq})}
    IN  [s \in DOMAIN freq |-> (CHOOSE p \in sizes : p[1] = s)[2]]

CodeSizes(cnt) ==
    TreeSizes([s \in Symbols \cup {Pseudo} |-> IF s = Pseudo THEN 1 ELSE cnt[s]])

LongestCode(cnt) == Max(Range(CodeSizes(cnt)))

\* A tree with a code over MAX_CLEN is an error (JERR_HUFF_CLEN_OVERFLOW).
ClenOverflow(cnt) == LongestCode(cnt) > MAX_CLEN

\* Codes that are too long, two at a time, give way to longer codes elsewhere.
RECURSIVE Limited(_, _)
Limited(bits, i) ==
    IF i <= MaxLength THEN bits
    ELSE IF bits[i] <= 0 THEN Limited(bits, i - 1)
    ELSE LET j == Max({l \in 1 .. i - 2 : bits[l] # 0})
         IN  Limited([bits EXCEPT ![i] = @ - 2, ![i - 1] = @ + 1,
                                  ![j + 1] = @ + 2, ![j] = @ - 1], i)

\* The symbols sorted by code length.
ByLength(codesize) ==
    SetToSortSeq({s \in Symbols : codesize[s] > 0},
                 LAMBDA s, t : codesize[s] < codesize[t]
                               \/ (codesize[s] = codesize[t] /\ s < t))

\* Mutant: the pseudo-symbol keeps no code.
OptimalNoPseudo(cnt) ==
    LET codesize == TreeSizes(cnt)
        bits == Limited([l \in 1 .. MAX_CLEN |->
                            Cardinality({s \in Symbols : codesize[s] = l})], MAX_CLEN)
    IN  [bits |-> [l \in 1 .. MaxLength |-> bits[l]],
         huffval |-> ByLength(codesize)]

jpeg_gen_optimal_table(cnt) ==
    LET codesize == CodeSizes(cnt)
        bits == Limited([l \in 1 .. MAX_CLEN |->
                            Cardinality({s \in DOMAIN codesize : codesize[s] = l})],
                        MAX_CLEN)
        last == Max({l \in 1 .. MaxLength : bits[l] # 0})
    IN  [bits |-> [l \in 1 .. MaxLength |-> bits[l] - (IF l = last THEN 1 ELSE 0)],
         huffval |-> ByLength(codesize)]

-----------------------------------------------------------------------------
(* The codes of a table: jpeg_make_c_derived_tbl, jpeg_make_d_derived_tbl.  *)

\* huffsize: the lengths of the codes, in order.
Sizes(t) == FlattenSeq([l \in 1 .. MaxLength |-> [n \in 1 .. t.bits[l] |-> l]])

\* huffcode, for the lengths of huffsize.
Codes(size) ==
    LET code[p \in 1 .. Len(size)] ==
            IF p = 1 THEN 0
            ELSE (code[p - 1] + 1) * 2 ^ (size[p] - size[p - 1])
    IN  code

Derived(t) ==
    [size |-> Sizes(t), code |-> Codes(Sizes(t)), sym |-> SubSeq(t.huffval, 1, Len(Sizes(t)))]

\* More codes than symbols, or a code that does not fit in its length; none may
\* be all ones.
BadTree(d) ==
    \/ Len(d.size) > NumSymbols
    \/ \E p \in DOMAIN d.size : d.code[p] + 1 >= 2 ^ d.size[p]

BadDcSymbol(d, dc) == dc /\ \E p \in DOMAIN d.sym : d.sym[p] >= SizeRange

\* What makes the encoder refuse a table.
BadToWrite(d, dc) ==
    \/ BadTree(d)
    \/ BadDcSymbol(d, dc)
    \/ \E p, q \in DOMAIN d.sym : p # q /\ d.sym[p] = d.sym[q]

\* What makes the decoder refuse a table.
BadToRead(d, dc) == BadTree(d) \/ BadDcSymbol(d, dc)

HasCode(d, s) == s \in ToSet(d.sym)

\* The n low bits of a number, the highest first.
BitsOf(v, n) == [i \in 1 .. n |-> (v \div 2 ^ (n - i)) % 2]

Number(bits) == FoldLeft(LAMBDA v, b : 2 * v + b, 0, bits)

\* ehufco, ehufsi.
CodeOf(d, s) ==
    LET p == CHOOSE q \in DOMAIN d.sym : d.sym[q] = s
    IN  BitsOf(d.code[p], d.size[p])

\* How many bits follow a symbol: for DC coefficients it is their number.
SizeOf(s, dc) == IF dc THEN s ELSE s % SizeRange

-----------------------------------------------------------------------------
(* Bits into bytes: emit_bits and flush_bits.                              *)

\* Mutant: no zero is stuffed after the last byte of a call.
StuffedOnce(data) ==
    FlattenSeq([i \in DOMAIN data |->
        IF data[i] = xFF /\ i < Len(data) THEN <<xFF, 0>> ELSE <<data[i]>>])

Stuffed(data) ==
    FlattenSeq([i \in DOMAIN data |->
        IF data[i] = xFF THEN <<xFF, 0>> ELSE <<data[i]>>])

WholeBytes(bits) ==
    [i \in 1 .. Len(bits) \div ByteSize |->
        Number(SubSeq(bits, (i - 1) * ByteSize + 1, i * ByteSize))]

\* What stays in put_buffer.
Rest(bits) == SubSeq(bits, (Len(bits) \div ByteSize) * ByteSize + 1, Len(bits))

-----------------------------------------------------------------------------
(* Bytes into bits: jpeg_fill_bit_buffer.                                  *)

\* Bytes are read while there is room for one, up to a marker.  Any number of
\* 0xFF and a 0 are one byte, any number and something else a marker.
RECURSIVE Loaded(_)
Loaded(r) ==
    IF r.unread \/ Len(r.buffer) >= MIN_GET_BITS THEN r
    ELSE LET c == bytes[r.at]
             next == CHOOSE n \in r.at .. Len(bytes) :
                 /\ n = r.at \/ c = xFF
                 /\ c = xFF => bytes[n] # xFF
                 /\ \A m \in r.at .. n - 1 : bytes[m] = xFF
             data == [r EXCEPT !.at = next + 1,
                               !.buffer = @ \o BitsOf(c, ByteSize)]
         IN  IF c # xFF \/ bytes[next] = 0
               THEN Loaded(data)
               ELSE [r EXCEPT !.at = next + 1, !.unread = TRUE]

\* Mutant: the buffer is filled with zeros as soon as the marker is seen.
FilledEarly(r, nbits) ==
    LET l == Loaded(r)
    IN  IF l.unread /\ Len(l.buffer) < MIN_GET_BITS
          THEN [l EXCEPT !.insufficient = TRUE,
                         !.buffer = @ \o [i \in 1 .. MIN_GET_BITS - Len(@) |-> 0]]
          ELSE l

\* Room for nbits is made; at a marker zeros are supplied if there are fewer.
jpeg_fill_bit_buffer(r, nbits) ==
    LET l == Loaded(r)
    IN  IF l.unread /\ nbits > Len(l.buffer)
          THEN [l EXCEPT !.insufficient = TRUE,
                         !.buffer = @ \o [i \in 1 .. MIN_GET_BITS - Len(@) |-> 0]]
          ELSE l

CHECK_BIT_BUFFER(r, nbits) ==
    IF Len(r.buffer) < nbits THEN jpeg_fill_bit_buffer(r, nbits) ELSE r

PEEK_BITS(r, nbits) == Number(SubSeq(r.buffer, 1, nbits))

DROP_BITS(r, nbits) ==
    [r EXCEPT !.buffer = SubSeq(@, nbits + 1, Len(@))]

-----------------------------------------------------------------------------
(* A symbol: HUFF_DECODE and jpeg_huff_decode.                             *)

OutOfTable == -1

\* maxcode: the largest code of a length, none, or the one that ends the search.
MaxCode(d, l) ==
    IF l > MaxLength THEN 2 ^ (MaxLength + 2)
    ELSE Max({-1} \cup {d.code[p] : p \in {q \in DOMAIN d.size : d.size[q] = l}})

\* valoffset: the first index of a length, minus its code.
ValOffset(d, l) ==
    LET p == Min({q \in DOMAIN d.size : d.size[q] = l})
    IN  p - d.code[p]

\* Bit by bit, from a first piece on.  A code that is none reads as symbol 0.
RECURSIVE Searched(_, _, _, _)
Searched(d, r, l, code) ==
    IF code > MaxCode(d, l)
      THEN LET c == CHECK_BIT_BUFFER(r, 1)
           IN  Searched(d, DROP_BITS(c, 1), l + 1, 2 * code + PEEK_BITS(c, 1))
    ELSE IF l > MaxLength THEN [in |-> r, sym |-> 0]
    ELSE LET index == code + ValOffset(d, l)
         IN  [in |-> r,
              sym |-> IF index \in DOMAIN d.size THEN d.sym[index]
                      ELSE OutOfTable]

jpeg_huff_decode(d, r, min_bits) ==
    LET c == CHECK_BIT_BUFFER(r, min_bits)
    IN  Searched(d, DROP_BITS(c, min_bits), min_bits, PEEK_BITS(c, min_bits))

\* look_nbits, look_sym: the code that begins with these bits, if it is short.
Look(d, look) ==
    {p \in DOMAIN d.size :
        /\ d.size[p] <= HUFF_LOOKAHEAD
        /\ look \div 2 ^ (HUFF_LOOKAHEAD - d.size[p]) = d.code[p]}

\* Short codes are looked up, if there are enough bits to look at.
HUFF_DECODE(d, r) ==
    LET l == IF Len(r.buffer) < HUFF_LOOKAHEAD THEN jpeg_fill_bit_buffer(r, 0) ELSE r
        found == Look(d, PEEK_BITS(l, HUFF_LOOKAHEAD))
    IN  IF Len(l.buffer) < HUFF_LOOKAHEAD THEN jpeg_huff_decode(d, l, 1)
        ELSE IF found = {} THEN jpeg_huff_decode(d, l, HUFF_LOOKAHEAD + 1)
        ELSE LET p == Max(found)
             IN  [in |-> DROP_BITS(l, d.size[p]), sym |-> d.sym[p]]

-----------------------------------------------------------------------------
(* The writer.                                                             *)

\* A table, and start_pass_huff.
UseTable(t, cnt, dc) ==
    /\ phase = "tables"
    /\ table' = t
    /\ derived' = Derived(t)
    /\ count' = cnt
    /\ isDC' = dc
    /\ phase' = IF BadToWrite(derived', dc) THEN "refused" ELSE "coding"
    /\ UNCHANGED <<put, bytes, in, got, written, ends, warned>>

\* finish_pass_gather, and the pass that writes.
GatherTable(cnt, dc) ==
    /\ phase = "tables"
    /\ ~ClenOverflow(cnt)
    /\ UseTable(jpeg_gen_optimal_table(cnt), cnt, dc)

\* finish_pass_gather, when jpeg_gen_optimal_table ends in its error.
GatherOverflow(cnt, dc) ==
    /\ phase = "tables"
    /\ ClenOverflow(cnt)
    /\ count' = cnt
    /\ isDC' = dc
    /\ phase' = "overflow"
    /\ UNCHANGED <<table, derived, put, bytes, in, got, written, ends, warned>>

\* A symbol and the bits that follow it.
EmitSymbol(s) ==
    /\ phase = "coding"
    /\ Len(written) < MaxMessage /\ count \in Coded \cup {<<>>}
    /\ HasCode(derived, s)
    /\ \E extra \in 0 .. 2 ^ SizeOf(s, isDC) - 1 :
          LET bits == put \o CodeOf(derived, s) \o BitsOf(extra, SizeOf(s, isDC))
              end == IF ends = <<>> THEN 0 ELSE Last(ends)
          IN  /\ bytes' = bytes \o Stuffed(WholeBytes(bits))
              /\ put' = Rest(bits)
              /\ written' = Append(written, <<s, extra>>)
              /\ ends' = Append(ends, end + Len(bits) - Len(put))
    /\ UNCHANGED <<phase, isDC, count, table, derived, in, got, warned>>

\* A symbol that has no code is an error (JERR_HUFF_MISSING_CODE).
EmitMissing(s) ==
    /\ phase = "coding"
    /\ ~HasCode(derived, s)
    /\ s \in DOMAIN count => count[s] > 0
    /\ phase' = "refused"
    /\ UNCHANGED <<isDC, count, table, derived, put, bytes, in, got, written, ends, warned>>

\* finish_pass_huff: a last byte is filled with ones; and the next marker.
FinishPass ==
    LET bits == put \o [i \in 1 .. ByteSize - 1 |-> 1]
    IN  /\ phase = "coding"
        /\ count \in Coded \cup {<<>>}
        /\ bytes' = bytes \o Stuffed(WholeBytes(bits)) \o <<xFF, EOI>>
        /\ put' = <<>>
        /\ phase' = "sent"
        /\ UNCHANGED <<isDC, count, table, derived, in, got, written, ends, warned>>

\* The file is cut, and the source supplies the end marker.
Cut(kept) ==
    /\ phase = "sent"
    /\ kept < Len(bytes) - 2
    /\ bytes' = SubSeq(bytes, 1, kept) \o <<xFF, EOI>>
    /\ UNCHANGED <<phase, isDC, count, table, derived, put, in, got, written, ends, warned>>

\* A segment from elsewhere, with any table and any data.
Foreign(t, dc) ==
    /\ phase = "tables"
    /\ table' = t
    /\ isDC' = dc
    /\ \E n \in 0 .. MaxForeign : \E data \in [1 .. n -> Bytes] :
          bytes' = data \o <<xFF, EOI>>
    /\ phase' = "sent"
    /\ UNCHANGED <<count, derived, put, in, got, written, ends, warned>>

-----------------------------------------------------------------------------
(* The reader.                                                             *)

\* start_pass_huff_decoder.
StartPass ==
    /\ phase = "sent"
    /\ derived' = Derived(table)
    /\ phase' = IF BadToRead(derived', isDC) THEN "refused" ELSE "reading"
    /\ in' = [at |-> 1, buffer |-> <<>>, unread |-> FALSE, insufficient |-> FALSE]
    /\ UNCHANGED <<isDC, count, table, put, bytes, got, written, ends, warned>>

\* A symbol is decoded, and the bits that follow it.
Decode ==
    LET d == HUFF_DECODE(derived, in)
        size == SizeOf(d.sym, isDC)
        r == CHECK_BIT_BUFFER(d.in, size)
    IN  /\ phase = "reading"
        /\ Len(got) < MaxMessage
        /\ IF d.sym = OutOfTable
             THEN /\ got' = Append(got, <<OutOfTable, 0>>)
                  /\ in' = d.in
             ELSE /\ got' = Append(got, <<d.sym, PEEK_BITS(r, size)>>)
                  /\ in' = DROP_BITS(r, size)
        /\ warned' = warned + (IF in'.insufficient /\ ~in.insufficient THEN 1 ELSE 0)
        /\ UNCHANGED <<phase, isDC, count, table, derived, put, bytes, written, ends>>

Init ==
    /\ phase = "tables"
    /\ isDC = FALSE
    /\ count = <<>>
    /\ table = [bits |-> [l \in 1 .. MaxLength |-> 0], huffval |-> <<>>]
    /\ derived = [size |-> <<>>, code |-> <<>>, sym |-> <<>>]
    /\ put = <<>>
    /\ bytes = <<>>
    /\ in = [at |-> 1, buffer |-> <<>>, unread |-> FALSE, insufficient |-> FALSE]
    /\ got = <<>> /\ written = <<>> /\ ends = <<>>
    /\ warned = 0

Next ==
    \/ \E cnt \in Counts, dc \in BOOLEAN :
          GatherTable(cnt, dc) \/ GatherOverflow(cnt, dc)
    \/ \E t \in GivenTables, dc \in BOOLEAN :
          UseTable(t, <<>>, dc) \/ Foreign(t, dc)
    \/ \E s \in Symbols : EmitMissing(s) \/ EmitSymbol(s)
    \/ FinishPass
    \/ \E kept \in 0 .. Len(bytes) : Cut(kept)
    \/ StartPass
    \/ Decode

Spec == Init /\ [][Next]_vars

-----------------------------------------------------------------------------
(* What must hold.                                                         *)

\* The data of the segment as bits, without stuffed zeros, up to the marker.
RECURSIVE DataFrom(_)
DataFrom(i) ==
    IF bytes[i] # xFF THEN BitsOf(bytes[i], ByteSize) \o DataFrom(i + 1)
    ELSE LET n == CHOOSE m \in i + 1 .. Len(bytes) :
                 /\ bytes[m] # xFF
                 /\ \A k \in i .. m - 1 : bytes[k] = xFF
         IN  IF bytes[n] = 0 THEN BitsOf(xFF, ByteSize) \o DataFrom(n + 1) ELSE <<>>

\* The definition of decoding: the symbol whose code comes next, in the data
\* and the zeros after it; if there is none, a 0 for the longest code there is.
RECURSIVE Defined(_, _)
Defined(data, n) ==
    IF n = 0 THEN [at |-> 0, syms |-> <<>>]
    ELSE LET before == Defined(data, n - 1)
             bit(i) == IF i <= Len(data) THEN data[i] ELSE 0
             bits(from, k) == [i \in 1 .. k |-> bit(from + i)]
             fits == {p \in DOMAIN derived.size :
                        Number(bits(before.at, derived.size[p])) = derived.code[p]}
             p == CHOOSE q \in fits : TRUE
             s == IF fits = {} THEN 0 ELSE table.huffval[p]
             after == before.at
                        + (IF fits = {} THEN MaxLength + 1 ELSE derived.size[p])
         IN  [at |-> after + SizeOf(s, isDC),
              syms |-> Append(before.syms,
                              <<s, Number(bits(after, SizeOf(s, isDC)))>>)]

\* However the bytes come into the buffer, and whether a code is looked up or
\* searched, the symbols are those the table defines, none is taken from outside
\* of a table that was accepted; the data is found insufficient when a bit was
\* needed that is not there, no earlier, and the reader says so once; and its
\* buffer is never overfilled.
DecodedAsDefined ==
    phase = "reading" =>
        LET data == DataFrom(1)
            d == Defined(data, Len(got))
        IN  /\ got = d.syms
            /\ in.insufficient = (d.at > Len(data))
            /\ warned <= 1
            /\ Len(in.buffer) <= BIT_BUF_SIZE

\* The symbols that are whole in a file come out as they were written: the
\* padding of the last byte and the stuffed zeros change nothing, and the reader
\* sees no marker in the data, whole or cut, only at its end.
AsWritten ==
    (phase = "reading" /\ written # <<>>) =>
        LET kept == Len(DataFrom(1))
        IN  /\ \A i \in DOMAIN got :
                   (i \in DOMAIN written /\ ends[i] <= kept) => got[i] = written[i]
            /\ in.unread => in.at = Len(bytes) + 1

Made == phase \in {"coding", "refused"} /\ count # <<>>

\* How often all symbols occur, the one that does not exist once.
Total(cnt) == MapThenSumSet(LAMBDA s : cnt[s], DOMAIN cnt) + 1

\* A table made from counts is accepted by both sides, has a code for every
\* symbol that was counted and for no other, and only the code of all ones is
\* free.
TableLegal ==
    /\ ~BadToWrite(derived, FALSE)
    /\ ToSet(table.huffval) = {s \in Symbols : count[s] > 0}
    /\ Len(derived.size) = Len(table.huffval)
    /\ LET size == derived.size
           longest == 2 ^ MaxLength
       IN  MapThenSumSet(LAMBDA p : longest \div 2 ^ size[p], DOMAIN size)
             = longest - longest \div 2 ^ Last(size)

\* The lengths the codes of a set of symbols can have when no code is to spare.
Lengths ==
    [live \in SUBSET (Symbols \cup {Pseudo}) |->
        LET all == 2 ^ Cardinality(live)
        IN  {len \in [live -> 1 .. Cardinality(live) - 1] :
                MapThenSumSet(LAMBDA s : all \div 2 ^ len[s], live) = all}]

\* If no code had to be shortened, no other lengths would give a shorter
\* segment (with the pseudo-symbol counted once).
LeastCost ==
    LongestCode(count) <= MaxLength =>
        LET live == {s \in Symbols : count[s] > 0} \cup {Pseudo}
            freq == [s \in live |-> IF s = Pseudo THEN 1 ELSE count[s]]
            cost(len) == MapThenSumSet(LAMBDA s : freq[s] * len[s], live)
            own == [s \in live |->
                       IF s = Pseudo THEN Last(derived.size) ELSE Len(CodeOf(derived, s))]
        IN  \A len \in Lengths[live] : cost(own) <= cost(len)

\* 1, 1, 2, 3, 5, 8 and so on.
Fibonacci ==
    LET f[n \in 1 .. MAX_CLEN + 3] == IF n < 3 THEN 1 ELSE f[n - 1] + f[n - 2]
    IN  f

\* As long as all counts together stay within what is merged (MaxFreq),
\* jpeg_gen_optimal_table makes a legal table, and one that is as short as any
\* where the limit of 16 bits allows.  Its error of a code over MAX_CLEN, which
\* its comment doubts, takes at least a Fibonacci number of symbols in one scan:
\* 9227465 of them with a MAX_CLEN of 32.
OptimalTable ==
    /\ Made /\ Total(count) <= MaxFreq => TableLegal /\ LeastCost
    /\ phase = "overflow" => Total(count) >= Fibonacci[MAX_CLEN + 3]
=============================================================================
