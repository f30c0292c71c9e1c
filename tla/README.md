# jel2 in TLA+

A verification project for *jel2*, a C library that hides a message in the
quantised DCT coefficients of a JPEG image (`jel_embed`) and finds it again
(`jel_extract`). The library keeps no index of where it put what: sender and
receiver each walk all blocks of the image, drawing pseudo-random numbers from
a shared seed as they go, and the receiver learns the density and the length of
the message only from the bits it is reading. The message comes back if, and
only if, the two walks do the same thing at every block. Most of this project
is about that sentence.

All source paths below are under `src/jel2/`; line numbers are those of
`PROJECT.json`, whose `map` names the lines behind every definition.

## 1. The system

| Component | State it keeps | Operations | Modelled in |
|---|---|---|---|
| PRN selection (`libjel/ijel.c`) | `freqs.in_use`, `mcu_list`, `mcu_flag` | `ijel_reset_freqs`, `ijel_permute_freqs`, `ijel_select_mcus` | `Selection` |
| PRN ring (`libjel/jel.c`) | `prn_cache` (list, read index), `seed16v` | `jelprn_create/next/reset/reload/destroy`, `jel_setprop(PRN_SEED)` | `PrnCache` |
| Steg walk (`libjel/ijel.c`) | the walk: MCU counter, `mcu_index`, `mcu_density`, `nmcus`, bits done; the coefficients | `ijel_stuff_message`, `ijel_insert_density`, `ijel_insert_bits`, `ijel_unstuff_message`, `ijel_extract_density`, `ijel_extract_bits` | `Steg` |
| Bit stream `jelbs` (`libjel/ijel.c`) | `bit`, `nbits`, density, size, checksum, message | create, reset, get and set bit, got length, checksum; `XFORM`, low bits | `BitStream` (bits), `Steg` (positions) |
| Frequencies (`libjel/ijel.c`, `jel.c`) | `freqs.freqs`, `freqs.init`, `quality`, the quantisation tables of both libjpeg objects | `ijel_get_freq_indices`, `jel_init_frequencies`, `jel_setprop`, `ijel_open_source` | `Frequencies` |
| Channels (`libjel/jel.c`) | `components`, `capacity`, `data_ptr`, `data_lengths` | `jel_capacity`, `ijel_set_message`, `ijel_set_buffer`, `jel_embed`, `jel_extract` | `Channel`, `Channels` |
| Configuration (`libjel/jel.c`) | everything in `jel_config`, libjpeg's object states and error handlers | `_jel_init`, `jel_set_fp_source`, `jel_set_mem_source`, `jel_set_components`, properties, `jel_capacity`, `jel_embed`, `jel_extract`, `jel_free` | `Session` |
| ECC framing (`libjel/ijel-ecc.c`) | `block_len`, `max_mlen`: one of each in the process | encode, decode, capacity | `Ecc` |
| Reed-Solomon codec (`rscode/`) | tables, shift register, syndrome, error locator | encode, decode, correct | `ReedSolomon`, `Ecc` |
| Sources and destinations (`libjel/jpeg-*.c`) | buffer, bytes written, `judp_errno` | libjpeg's init / fill / empty / term callbacks | `Transcode` (destinations), `Restart` (sources), `Session` (which source) |
| libjpeg 6b (`jpeg-6b/`) | coefficient arrays, MCU counters, entropy decoder, unread marker | `jpeg_read_coefficients`, `jpeg_write_coefficients`, the MCU loops, restart markers | `Transcode`, `Restart` |
| Huffman codes (`jchuff.c`, `jdhuff.c`, `jdhuff.h`) | tables, `put_buffer`, `get_buffer`, `insufficient_data` | table from counts, derived codes, `emit_bits`, `jpeg_fill_bit_buffer`, `HUFF_DECODE` | `Huffman` |
| Progressive scans (`jcphuff.c`, `jdphuff.c`, `jcmaster.c`, `jcparam.c`) | `EOBRUN`, correction bits, `coef_bits`, the coefficients | scripts, four encoders and four decoders of an MCU | `Progressive` |
| Memory manager (`jmemmgr.c`), analysis helpers, tools, SWIG wrapper, RACE headers | | | no |

How they interact. A tool (`utils/wedge.c`, `unwedge.c`) makes a configuration,
sets properties, gives it a source and calls `jel_embed` or `jel_extract`. These
compute the capacities (only while `capacity[0]` is not positive), split
the message over the colour channels in use or lay out the buffer, fill a PRN
ring from the generator state in the configuration, run
`ijel_stuff_message` or `ijel_unstuff_message` for one channel after the other,
free the ring, and have libjpeg write or finish the image. Everything is one
thread of calls. Components share state through the configuration only:
`mcu_density`, the ring and its read index, `in_use` and `data_lengths` pass
from one channel to the next, and `seed16v` from one image to the next. libjpeg
calls back into the sources and destinations, and leaves `jel_embed` and
`jel_extract` by `longjmp` when it finds an error.

What is hard about it:

* two programs, run at different places and times, must draw the same PRNs in
  the same order, although the receiver knows neither density nor length when
  it starts;
* the ring is reset in the middle of the first MCU, by the sender when it has
  written the density and by the receiver when it has read it;
* `ijel_permute_freqs` goes on from the order it left, so one draw too many or
  too few spoils everything after it;
* `mcu_index` does not count the MCU that holds the density: MCU *m* goes by
  the flag of MCU *m - 1*;
* capacity, overflow check, density, number of MCUs and receiver's limits are
  each computed by another formula, with another rounding, in bits or in bytes;
* early returns leave ring, density and lengths as they happen to be;
* a receiver with another key decodes any density and any length;
* configurations outlive images: capacities, lengths, density, libjpeg's object
  states and error handlers are those the last call left;
* the two sides choose frequencies from tables that each side sees at another
  time, and that quality, source and defaults overwrite in turn;
* reader, jel and writer each have a notion of their own of which blocks an image
  has, and a damaged image must not move what is not damaged;
* the Huffman decoder reads ahead of where it is, and must neither take a marker
  or a stuffed zero for data nor find an end that is not there;
* a progressive image sends a coefficient in several scans, with runs over blocks
  and bits that wait for the end of a run, and may end in any of them.

What makes each component correct: the selection never uses a frequency twice
and keeps MCU 0 where it is; two sides that have done the same draw the same
PRNs; the walk gives back exactly the message that went in, a message within the
capacity goes in, the promise of `jel.h` is kept; the split covers the message
and the compaction undoes it; every function returns; both sides use the same
frequencies and the same blocks; a code word damaged within its power is
corrected; a used configuration is as good as a fresh one; an image is written
as a whole or the caller is told; what is read of an image is what was written, to
the bit that has been sent.

## 2. The modules

| Module | What it is |
|---|---|
| `Selection` | pure operators on the content of a ring: the *c*-th draw, the read index after *c* draws, the Fisher-Yates loops over frequencies and over MCUs, the MCU flags, the read index after the selection |
| `Steg` | one message through one channel: both walks, one step for each iteration of the loop over the MCUs |
| `Link` | the abstract specification: what `jel.h` says of `jel_embed` and `jel_extract`, as three steps |
| `Channel` | pure operators: what one channel does as a whole |
| `StegLink` | `Steg` implements `Link` under a refinement mapping, and has the results of `Channel` |
| `Channels` | `jel_embed` and `jel_extract` over up to three channels, one step for each call of stuff or unstuff |
| `PrnCache` | the rings and generators of the two configurations over a series of images, one step for each call |
| `BitStream` | the bits `Steg` takes by position: fields, bit order, checksum, coefficient values, a coefficient that changes on the way |
| `Frequencies` | which frequencies each side chooses, over all orders of the calls that change the tables |
| `Session` | one configuration through any calls over several images, with failures |
| `ReedSolomon` | pure operators: the field, the encoder, syndrome, roots, correction |
| `Ecc` | a message through ECC framing and the decoder, one step for each byte encoded and each pass of Berlekamp-Massey |
| `Transcode` | an image read, walked over, written to a destination, read and walked over again, one step for each MCU |
| `Restart` | entropy coded data with restart markers, written, damaged, and read, one step for each MCU |
| `Huffman` | a table, the codes made from it, and a segment of symbols through bytes and back, one step for each symbol |
| `Progressive` | a scan script and its scans, written, cut and read, one step for each MCU |
| `MCSteg`, `MCChannels`, `MCBitStream`, `MCFrequencies`, `MCSession`, `MCEcc`, `MCTranscode`, `MCRestart`, `MCHuffman`, `MCProgressive` | instances for TLC |
| `Steg_proofs`, `Channels_proofs`, `Session_proofs`, `PrnCache_proofs`, `Frequencies_proofs`, `Transcode_proofs`, `Ecc_proofs`, `BitStream_proofs` | the theorems |

`Steg` takes the content of the ring as an arbitrary function, the same for both
sides if they have the same key; that two configurations get the same one, and
when, is `PrnCache`'s `InStep`. `Steg` counts draws in closed form (`PrnAt`,
`Advance`); that `jelprn_next` behaves so is `PrnCache`'s `RingGoesRound`.
`Channels` takes what a channel stores and returns from `Channel`; that a walk
does so, and leaves the ring where `Channels` says, is `StegLink`'s
`WalksAsComputed`. `Steg` numbers
bits and takes header fields to be right if their bits are: that is `BitStream`'s
`Understood` and `HeaderGuarded`. It takes the list of frequencies to be distinct
and the same on both sides: `Frequencies`' `FrequenciesHold` and
`SameFrequencies`. And it takes MCU *m* to be the same block on both sides, with
what was left in it: `Transcode`'s `BlocksAgree`. `Restart` and `Progressive` write and read
symbols; that symbols pass through bytes unchanged is `Huffman`'s `AsWritten`.

### Steg

| In the model | In `ijel.c` |
|---|---|
| `StuffOverflow`, `StuffBegin` | `ijel_stuff_message` up to the loop: overflow check, density, MCU map, frequencies |
| `StuffDensity` | the iteration that calls `ijel_insert_density`, the selection of the MCUs included |
| `StuffBits`, `StuffIdle` | an iteration that calls `ijel_insert_bits`, on an MCU that is selected or not |
| `StuffSkip` | an iteration after the last bit: only the permutation |
| `StuffEnd` | after the loop |
| `UnstuffBegin`, `UnstuffDensity`, `UnstuffBits`, `UnstuffIdle`, `UnstuffSkip`, `UnstuffEnd` | the same of `ijel_unstuff_message` |
| `UnstuffHeader` | the iteration in which `jelbs_got_length` first holds: checksum, length, the new limit, four ways out |
| `m`, `idx`, `flag`, `used`, `k`, `bit`, `count` | `all_mcus`, `mcu_index`, `mcu_flag`, `freqs.in_use`, `prn_cache->k`, `bs->bit`, `nbits_in` / `nbits_out` |
| `limit`, `msgNbytes` | the receiver's `msg_nbits`, `msg_nbytes` |

A bit is represented by its position in the stream and a coefficient by the
position of its first bit, `Zero` (written after the end of the message) or
`Cover` (untouched). So "the receiver has the right bit *i*" is `got[i] = i`, and
bits in the wrong place, overwritten or read twice are seen. A receiver decodes
the true density, length and checksum if it has the right bits, and any of the
values in `Garbage` if not. `trace` is a history variable: where the sender's
walk was at each MCU.

### Channels

A byte is its position in the message. The order of the code is kept: capacity,
split (rounded down, the rest to the first channel), one channel after the
other with the density and the ring the last one left, the sum of results, and
on the other side the layout by capacity, the channels, and the two `memmove`s
by `data_lengths`. `ring` says how far the ring was turned: at the start, after
a channel of so many MCUs, or `Lost` where an early return has left it.

### PrnCache

The *n*-th value of `nrand48` after seeding is the number *n*. Images may be
lost on the way, fail to be written (`longjmp` after the ring was freed) and be
tried again; either side may seed again between images.

### Session

A call is one action; where it can end in different ways (a file that is no
image, one whose coefficients are damaged, a destination that fails), each is an
action of its own. `src` and `dst` are libjpeg's `global_state`, `srcErr` and
`dstErr` say whether the error handler is `_jel_init`'s (which exits) or one
whose frame is gone. `coefs` tells freed coefficients from live ones. Calls a
caller cannot survive (a freed coefficient array, a handler in a dead frame,
pieces outside the message, a division by zero) end the life of the
configuration with the reason in `end`, and the properties say which of them
can happen, and after what. Unsigned arithmetic is modulo `Word`.

### Frequencies

A table is a function from frequencies to quantisers. `dst` begins with
libjpeg's defaults, is overwritten by `JEL_PROP_QUALITY`, by opening a source and,
after embedding, by the quality again (`EmbedEnd`); `freqs` is written over from
the front, so that entries for which there is no frequency keep their value.

### Ecc, ReedSolomon

Bytes are numbers, and the arithmetic is that of `rscode/`, with its tables of
powers (checked against the shift register by `PowersAssumption`; what the proofs need
of the tables is `TablesAssumption`, which TLC checks too). `Transmit`
damages any of `Damages` in any block and cuts the message to what the receiver
has asked for.

### Transcode

A block is its place, or what the *n*-th visit of jel left in it. `Init` has the
files a JPEG encoder may produce: one interleaved scan, or one for each component,
the padding blocks grey. The destination is memory or a file of any size in
`Rooms`, filled through `OUTPUT_BUF_SIZE`.

### Restart

A segment is a marker and the symbols after it: run length, size and bits of a
value, as `encode_one_block` makes them; the Huffman codes are left out. A
damage loses a marker, changes it, cuts the data of a segment or the end of the
file. The reader is `jdhuff.c` over `jdmarker.c`, with `jpeg_resync_to_restart`.

### BitStream

Every field of a `jelbs`, bit by bit. A coefficient takes bits by `XFORM` or in
its low bits; `Encodable` is the limit of `jchuff.c`. One coefficient may change
on the way. `ijel_insert_bits` sets a coefficient to 0 if the stream has fewer bits left
than it holds: those bits are lost, and `Whole` says that there are none. Of an empty
message they are bits of the checksum, with coefficients of 3, 5, 6 or 7 bits; a
receiver may then refuse a sound header, or end without one.

### Huffman

| In the model | In `jchuff.c`, `jdhuff.c` |
|---|---|
| `GatherTable`, `GatherOverflow` | `finish_pass_gather` with `jpeg_gen_optimal_table`, and its error of a code over `MAX_CLEN` |
| `UseTable` | `start_pass_huff` with a table, made or given: `jpeg_make_c_derived_tbl`, with all that makes it refuse one |
| `EmitSymbol`, `EmitMissing`, `FinishPass` | `emit_bits` with the bits of a symbol and those that follow it; a symbol without a code; `flush_bits` |
| `Cut`, `Foreign` | a file that is cut; any data under any table |
| `StartPass`, `Decode` | `jpeg_make_d_derived_tbl`; `HUFF_DECODE` and the bits that follow |
| `put`, `in.buffer`, `in.at`, `in.unread`, `in.insufficient` | `put_buffer`, `get_buffer`, `next_input_byte`, `unread_marker`, `insufficient_data` |

A buffer is the sequence of its valid bits, a table the numbers of codes and the
symbols in order, as it is in a file. `written` and `ends` are history: what was
written and where in the data it ends. `DecodedAsDefined` compares the decoder,
which fills a buffer by bytes and looks codes up, with the definition: the symbol
whose code comes next.

When codes are too long, `jpeg_gen_optimal_table` shortens the numbers of codes but
lists the symbols by the lengths they had before (the comment at `jchuff.c:823` is "not
real clear" about it): a rarer symbol can get the shorter code, so `LeastCost` speaks
of tables in which none was shortened. A table without any counted symbol is not
made, since every scan counts at least one.

The function refuses a code over `MAX_CLEN` = 32 (`jchuff.c:783`), which "the JPEG
standard seems to think can't happen". It can, but only a scan of at least 9227465
symbols, the 35th Fibonacci number, has such a tree; `OptimalTable` says so for any
`MAX_CLEN`. And it merges no tree that occurs more often than 1000000000 times
(`MaxFreq`, `jchuff.c:734`): several trees are then left, which make a table that is
refused, or leave out a symbol, so that `OptimalTable` speaks of tables only as long as
all counts together are not more than `MaxFreq`. `HuffmanAssumption` wants one symbol that
does not occur more often than that; otherwise the pseudo-symbol alone is found, gets no
length, and the search for the longest code (`jchuff.c:815`) leaves its array. The
numbers of codes are bytes in the code and naturals here: 256 codes of one length
would take 255 symbols or more, and libjpeg counts at most 176 different ones.

### Progressive

| In the model | In `jcmaster.c`, `jcphuff.c`, `jdphuff.c` |
|---|---|
| `SetScript` | `validate_script` |
| `StartWrite`, `EncodeMcu`, `FinishWrite` | `start_pass_phuff`, the `encode_mcu_` function of the scan with any restart, `finish_pass_phuff` |
| `Cut` | a file that ends in a scan |
| `StartRead`, `DecodeMcu`, `FinishRead` | `start_pass_phuff_decoder`, the `decode_mcu_` function with any restart, the end of the scan |
| `enc.eobrun`, `enc.be`, `enc.br` | `EOBRUN`, the correction bits of earlier blocks and of this one in `bit_buffer` |
| `coef_bits` | `coef_bits`, by which both sides check the order of scans |

A segment is a sequence of symbols and bits. A decoder that took one for the other
would be `garbled`. After the end of the data zeros are read; which symbol zeros
stand for depends on the table, so it is any of `Fillers`. `before` and `torn` are
history: what the coefficients had before the scan, and where its data ended.

jel reads such images and writes sequential ones; `cjpeg` (`cjpeg.c:442`) and `jpegtran`
of the same tree write them. The pass that only counts symbols runs the same code
without output and is left out. The decoder takes a scan that sends complete
coefficients again from the start, which `validate_script` refuses, without warning
(`coef_bits` of 0 looks like none expected).

## 3. The runs

| Run | Question | Instance |
|---|---|---|
| `steg` | Do the walks stay in step, does the message come back, do both functions return? Are the results those of `Channel`? | 8 MCUs of one byte, messages of 0 to 3 bytes (2 fit), with and without seed and header, right and wrong key, explicit and computed density, two ring contents, ring fresh or left by an earlier channel; densities 76 and 88, which leave MCUs out |
| `channels` | Do split, channels and compaction give the message back? Does an error in one channel stay there? | 1 to 3 channels in four orders, three image shapes, messages up to one byte more than fits |
| `prn_cache` | Do two sides with the same history have the same ring? Are the closed forms right? | rings of 2 and 3, two images sent, three rings between two seedings, 4 draws |
| `transcode` | Is what jel leaves in a block there when the receiver visits it? Does a destination keep all or say so? | 2 or 3 by 2 or 3 blocks, five samplings, one of them with too many blocks in an MCU; buffer of 3 bytes |
| `ecc` | Is a message within the capacity accepted, and does it survive the damage the code can correct? | 4 parity bytes, blocks of 12, messages of 0 to 21 bytes, every one or two bytes of a block damaged, and three |
| `session` | Can a configuration be used again, after success and after failure? | two files out of five kinds, messages of 1 and 10 bytes, unsigned integers modulo 4096 |
| `frequencies` | Do both sides choose the same frequencies? Are they distinct and usable? | 5 frequencies, three images, two qualities, 4 calls on each side |
| `restart` | Does what is not damaged come to its place? How much is made up? Is the end supplied? | 28 MCUs of two components, restart interval 3, any two damages, in a file and in memory |
| `bitstream` | Does the receiver understand what was not hit, and refuse a damaged header? Can the image be written? | 1, 3, 4 and 8 bits, three messages, five covers, any coefficient changed to five values |
| `huffman` | Are the tables legal and as good as can be? Does the decoder give what the table defines, and the file what was written? | counts of 5 symbols from 0, 1, 2, 3 and 5 (the first 0 or 5), codes of up to 3 bits, trees of up to 4 and up to 13 occurrences, bytes of 3; 3 symbols or 3 bytes of any data, cut anywhere |
| `progressive` | Has the decoder, at every MCU, what the scans so far have sent? Do buffers hold? Do both sides accept the same scripts? | 4 blocks of 6 coefficients: 1296 images in three scans; the recommended scripts of three components, restarts, cut anywhere; 4,000 scripts, most of them illegal |

Properties and the behaviour they are about:

* `PrnInStep`, `NextChannelInStep` (`Steg`): the receiver is at every MCU, and
  after the last one, where the sender was: ring and frequency order.
* `RoundTrip`: a message that went in whole comes back bit for bit.
* `CapacityKept` (`FitsCapacity`, `OverflowAgrees`): capacity, density rounding, the
  skewed flags and the overflow check agree.
* `DensityBound`, `NoFreqTwice`, `BitsSetOnce`: no more MCUs are touched than the
  density allows, no coefficient is used twice in an MCU, and what was read is
  never overwritten by what is read later.
* `Terminates`: both functions return, for every garbage a receiver may decode.
* `KeepsPromise`: `Steg` implements `Link`.
* `WalksAsComputed` (`StoredAsComputed`, `FoundAsComputed`, `RingForgets`): the
  abstraction of `Channels` is right.
* `SplitFits` (`MessageSplit`, `PieceFits`), `EndToEnd`, `Resync` (`Channels`): the
  split covers the message; a piece goes into its channel; the receiver puts the message
  together; a channel that was misread does not put the next one out of step.
* `RingGoesRound`, `InStep`, `NoPrnTwice` (`PrnCache`): the ring is read in the order
  `Steg` assumes; after equal histories of fills both sides start with the same
  ring, whatever was lost, failed or seeded again before; no PRN serves two images.
* `BlocksAgree` (`ReadInPlace`, `PayloadKept`; `Transcode`): reader, walk, writer and reader agree
  on the blocks, padding and separate scans included. `WholeOrFull`: a file is
  written as a whole, or refused, or memory is full to the last byte; and it is
  not refused if there was room with a byte to spare.
* `CodeHolds` (`CodewordsAgree`, `Corrected`, `Recovered`), `CapacityHolds` (`Ecc`): up to half the parity is
  corrected wherever it is; encoder and decoder have the same code; a message
  within the capacity goes in, if the header finds room beside the blocks.
* `LibjpegInStep`, `HandlersLive` (`Session`): libjpeg's objects are in the state
  the configuration takes them to be in, and errors find a handler. `AsFresh`: to
  a caller that asks for the capacity of every image and sets the density again,
  a used configuration is as good as a fresh one. `PiecesInside`: the pieces are
  in the message, and which configurations are excepted.
* `SameFrequencies`, `FrequenciesHold` (`Frequencies`).
* `InPlace`, `OneMadeUp`, `EndSupplied` (`Restart`): a segment that is whole is read
  into its place, a damaged one makes up one MCU at most, a file that was cut is
  given its end (an image in memory is not, see below).
* `Understood`, `HeaderGuarded`, `Writable` (`BitStream`): the bytes that were not
  hit are understood, whatever was in image and buffer; no damaged header passes
  for another (`HeaderGuarded` excepts the empty message whose last bits are lost); only a coefficient next to the lowest that can be encoded makes
  an image that cannot be written.
* `DecodedAsDefined`, `AsWritten`, `OptimalTable` (`Huffman`): the lookahead decoder
  does what the table says, on any data, and finds the end where it is; what is
  whole in a file comes out as it went in; a table from counts is legal, and as
  short as any if no code was shortened, as long as no more is counted than the code
  merges; and none is refused for a code that is too long unless a Fibonacci number
  of symbols was counted.
* `Approximates`, `InStep`, `NothingOverruns`, `ScriptsAgree` (`Progressive`): at every
  MCU, coefficients are exact to the bit that was sent, or as they were before the
  scan if it is cut; decoder and encoder agree on what is a symbol and what is a bit,
  and on where a segment ends; runs, correction bits and places stay in their
  limits; what the encoder accepts the decoder reads without complaint.

Why the bounds are enough. The code has no thresholds in the number of MCUs
except those of header and density; 8 MCUs have MCUs before, in and after
the header, not selected, partly filled and skipped, and messages on both sides
of every limit: empty, the last that fits, the first that does not. Four
frequencies are the fewest the density needs; a fifth is permuted with them and is
not used, so every draw of the permutation matters. An MCU of 8 bits is the one for
which `FitsCapacity` holds; that bytes, header and message may end anywhere in an MCU is
in the theorems, `RoundTrip` among them. The ring is shorter than the draws of one channel, so it goes
round several times. `Garbage` has one value for each way out of the receiver: 0,
a plausible length or density, one that is too long, one that is no density.
`PrnCache` needs two images for the second one to depend on the first, and a
third ring for one that failed or came before a new seed. `Transcode`'s sizes have
full and padded MCUs in both directions and in every component, and `Rooms` has
what is too small for one buffer, what ends with a buffer, and what is enough.
`Ecc`'s code is the one of `rscode/` with fewer parity bytes; four are the fewest
with which Berlekamp-Massey lengthens its register twice. `Session`: `MaxFiles` is
2, the one that leaves something behind and the one that finds it, with any
number of other calls between; `Word` must only be larger than the capacities,
and 4096 is. `Frequencies`: `MaxCalls` is 4 on each side, since quality, source, reset
and choice are four calls. `Restart`: ten segments are more than the eight
numbers a marker can have, and `MaxDamages` is 2 because of "no more than two
counts behind or ahead". `BitStream`: a receiver's capacity of 259 (`Caps`) has
two bytes that are not 0, so stale bytes of the length are seen. `Huffman`: with codes
of 3 bits, a lookahead of 2 and bytes of 3, a code can be shorter than a byte, end
with it or go over it, and be longer than the lookahead; 0xFF is any byte of ones, so
stuffing is frequent; five symbols with a sixth that does not exist need codes of up
to 5 bits, so that some are shortened and some refused (`MAX_CLEN` is 4): 13 symbols are
the fewest for that, and more than 13 (`MaxFreq`) are not merged. Messages are written
with four of the tables (`Coded`). `Progressive`: blocks of six coefficients have runs of zeros longer than one
symbol takes (`RunMax`), four blocks a run of blocks as long as can be written, and
a buffer of seven correction bits, one more than the least that is safe, is filled;
with three scans a coefficient comes in three parts. The theorems
do not depend on any of these bounds.

`CHECK_DEADLOCK FALSE`: a run of the program ends.

Fairness: `WF_vars(Next)` in `Steg`. Each side is a sequential function that
waits for nothing; weak fairness says that the processor goes on with it.
Nothing else assumes fairness.

### Where the program does something else than it says

This run has one property, taken from the header file, and TLC finds a behaviour
of the code that violates it.

| Run | What the code does |
|---|---|
| `density_left` | The density computed for the first channel stays in the configuration; the pieces of the other channels are cut by it without a word, even to less than their headers. |

More of the kind is visible in the models, where the properties name it as an
exception, and is not a run of its own:

* With more than 8 bits in an MCU a message within `jel_capacity` is cut, and its
  full length returned: the first MCU takes 8 bits (`ijel.c:1161`) but is counted
  in full. With 5, 6 or 7 bits in an MCU the computed density can select one MCU too
  few, which is why the `steg` run, and `Channels`, have 8; `CapacityKept` and
  `SplitFits` are proved for up to 4 bits and for 8 (`HeaderPays`).
* With 3 bits in a coefficient the last byte of some messages is damaged: the
  coefficient the message ends in is set to 0 as a whole (`ijel.c:1245`). `RoundTrip`
  is proved for 1, 2, 4 and 8 bits, `Understood` has `Whole`.
* Without a seed every MCU is used, whatever the density: the loop that should
  spread them sets flags that are set already (`ijel.c:623`).
* A message within the capacity is refused when what rounding leaves of the split
  goes to the first channel, which may be full (`jel.c:949`; `MessageSplit` allows
  it one byte more than its capacity, and only the first of three channels).
* `jel_extract` adds the error code of one channel to the byte counts of the
  others (`jel.c:1258`).
* An empty piece ends the receiver's walk before it has drawn the PRNs of the
  channel: with a seed, the channels after it are read out of step (`NoGap` in
  `EndToEnd`).
* In raw mode the 48 header bits are embedded all the same, although `jel.h:218`
  says otherwise.
* A configuration keeps `capacity[]` and `data_lengths[]` of the image before
  (`AsFresh`'s `Careful` and `NothingLeft`); a channel smaller than its header makes
  pieces outside of the message (`PiecesInside`).
* After a source or a write that failed, an error of libjpeg can jump into a frame
  that is gone (`HandlersLive`); a memory source set after a file source, or the
  other way round, reuses a structure of another size (`SourceMixed`).
* Under ECC the receiver needs the raw capacity to read all blocks (`AllRead`), and
  the capacity is right only if `room % BlockLen` leaves space for the header
  (`CapacityHolds`).
* `jel_init_frequencies` chooses from the luminance table for all components; with
  a quality set before the source is opened, the source's tables win; and a colour
  image with one shared table has none where `ijel_unstuff_message` looks for the
  chroma table (`UnstuffNoTable`).
* The padding rows of a last, incomplete row of MCUs are walked over by jel, but
  grey again after the image is written, so bits hidden there are lost (`PayloadKept`
  speaks of blocks of the image).
* Clearing low bits of a coefficient near -1023 makes one that libjpeg refuses to
  encode (`Writable`).
* An image in memory that has lost its end is given again from its start, and
  reading fails, where the comment at `jpeg-mem-src.c:65` promises an end marker: the
  number of bytes is never 0 (`EndSupplied`).
* libjpeg recovers from two markers lost in a row, not from three; after a marker
  with a wrong number it may need two more segments (`Placed`). jel's own files have
  no restart markers, but it reads them.

## 4. The proofs

`Steg_proofs` begins with `Selection`: a shuffle keeps a list of distinct entries distinct, and the
MCU shuffle keeps MCU 0 in its place (`PermuteFreqsFacts`, `McuListFacts`); the
read index stays in the ring (`RingFacts`). A shuffle is a recursive function
over its passes. Its value is not computed by induction but pinned down: the
set of pass numbers up to which the claim holds contains 0 and with each number
the next (`SegmentInduction`).

It goes on with `Steg`: for every number of MCUs, frequencies, bits per frequency, ring
and message,

* `StegType`: `Spec => []TypeOK`;
* `StegNoFreqTwice`: `Spec => []NoFreqTwice`;
* `StegBitsSetOnce`: `Spec => BitsSetOnce`, an action property;
* `StegPrnInStep`: `Spec => []PrnInStep`;
* `StegNextChannelInStep`: `Spec => []NextChannelInStep`.

Then that a message arrives: `StegRoundTrip`, which says `PacksBytes => (Spec => []RoundTrip)`.

Last, about the same two walks seen from outside (`StegLink`):

* `StegWalksAsComputed`: `PacksBytes => (Spec => []WalksAsComputed)`; what
  `Channels` takes from `Channel` is what the walks do;
* `StegCapacityKept`: `HeaderPays => (Spec => []CapacityKept)`;
* `StegDensityBound`: `McuBits <= 48 => (Spec => []DensityBound)`;
* `StegKeepsPromise`: the refinement. With `PacksBytes` and `HeaderPays`, `Spec`
  implies `Link`'s specification under the mapping of `StegLink`.

`Channels_proofs`: `ChannelsSplitFits` (with `HeaderPays`), `ChannelsResync`, and
`ChannelsEndToEnd` (with `LargestImage`: among the images there is one with a
component that has the most bytes, by which the receiver's buffer is measured).

Assumptions: `SelectionAssumption` and `StegAssumption` of the modules (there is
at least one MCU; at least 4 frequencies are offered, without which
`ijel_insert_density` refuses to work; rings hold naturals), and for `RoundTrip`
`PacksBytes`: a coefficient holds 1, 2, 4 or 8 bits. `RoundTrip` is false without
it (with 3 bits).

The argument. `TypeOK` is not inductive: that the sender never runs past its
stream needs `count = bit <= nbits` and that densities are those of the job
(`Counted`, `Lawful`), and frequencies stay in range because they stay distinct;
`TypeInv` is the conjunction. `BitsSetOnce` needs that nothing is set from the
receiver's next bit on (`UnsetAhead`), before its walk and during it. `PrnInStep` says nothing about the past of the
sender, so the step from one MCU to the next cannot be taken from it alone. The
strengthening `StepInv` says of the history that each entry follows from the one
before by the draws of one MCU, with the ring reset after MCU 0 if there is a
header (`SenderWalk`), and that the receiver is at entry `m` (`ReceiverWalk`). The
one case in which the receiver could do something else, a density it refuses,
returns. `RoundTrip` needs, besides, where the bits are: `SenderPack` says that
every coefficient an MCU took from the stream still holds what the history says,
and that the flags are those of the density; `ReceiverPack` that the receiver has
understood the stream as far as the sender had written it at this MCU; and
`ReadBack` what a receiver has at the end, when the stream was cut, too. With the
sender's half, `SentInv`, they are `PackInv`. That a limit still unknown cannot stop the receiver early,
and that the length is complete only when it is right, follow from the position
being a whole number of coefficients (`Aligned`), which is where `PacksBytes`
comes in.

The theorems about `StegLink` rest on `PackInv` and on counting. A message goes
in if the bits of the MCUs that are walked over and selected reach its length, and
how many are selected is a cardinality: the shuffle is a bijection of the MCUs, so
the flags set are as many as were asked for (`SelectedCount`). The position of the
sender is a sum over the history (`SenderWalk`); at the end it is the closed form of
`Channel`. Whether the density that was computed, in hundredths and rounded, asks
for enough MCUs is arithmetic: the percentage loses less than an MCU, and the MCU
that the skew of the flags loses is paid for by the header as long as an MCU holds
no more bits than `HeaderPays` says. The refinement then needs each of the two
walks to be a stutter until it returns, and its result to be the one promised.

`Channels_proofs` needs of the whole embedding and extraction what one channel
does (`StuffWrites`, `UnstuffHears`) and how it goes on: `SendInv` says of the channels
already embedded that they hold their shares of the message, and that the ring, unless the
last of them failed, stands where that of a channel starts; `ReceiveInv` that the
receiver's ring does so too, unless the last channel was empty, and that of a
message without a gap (`Good`) it has heard every channel before the present
(`Heard`). Sender and receiver go through the channels with the same ring
(`MovesTogether`). The split itself, in integers and with what rounding leaves,
adds up and stays within the capacities (`SharesFacts`). Together with the types they are `ChannelsInv`, which is
inductive.

`Session_proofs`: `LibjpegAlwaysInStep`, `HandlersAlwaysLive`, `AlwaysAsFresh` and
`AlwaysInside`, for any images,
densities and message lengths, any number of files and any `Word`; the last with
`CountsBytes` (the bytes of three components can be counted in an `int`). The first is
inductive by itself; the second is not: that the handler of `_jel_init` can be
reached only while nothing has to be finished, that a decompression to be
finished that cannot be is owed to damaged coefficients, and a compression that
cannot begin to a failed write, are the strengthening. `AsFresh` is about the last
call only, and every other call forgets it; what it needs is `CurrentCapacity`: the
capacities of the components in use are those of the image that is open, if they
were asked for (`FreshInv`). `PiecesInside` needs a bound *b* on the bytes of any
component, which old capacities, kept from an earlier image, obey as well
(`AtMost`); with it no sum of the split leaves `Word`.

`PrnCache_proofs`: `PrnInStepOnce`, `PrnNeverTwice`, `PrnGoesRound` (`InStep`,
`NoPrnTwice` and `RingGoesRound`), for any set of ring sizes and any number of
images and fills, from `PrnCacheAssumption` (sizes are positive). None of the three
is inductive, for they compare images with each other and say nothing of the
generator. `PrnInv` says of each generator, and of each image sent or under way,
that it stands at a prefix sum of the ring sizes filled since seeding (`Sums`,
`Position`, `Started`). Equal lists of sizes have equal sums (`SumsPrefix`); sums do
not fall, so the PRNs of a later ring lie past those of an earlier (`SumsRise`,
`RingsApart`). That the read index of `jelprn_next`, which is compared and set to 0,
is a remainder is `NextPlace`, which the provers need to be told in terms of the
quotient.

`Frequencies_proofs`: `AlwaysSameFrequencies` and `FrequenciesAlwaysHold`
(`SameFrequencies` and `FrequenciesHold`), for any quantisation tables, images and
qualities and any number of calls in any order, from `FrequenciesAssumption`. First
what the loop of `ijel_get_freq_indices` finds: if as many frequencies as are wanted
have the levels, distinct ones that do, the highest first (`HighestFacts`). Neither
property is inductive, for both speak of tables that may have changed since the choice.
`FreqInv` says that frequencies chosen for good are the highest of some table, and of
the one the compressor has now if the calls were in order (`SideInv`); that from then on
its tables are settled, so that the file carries what the sender chose from, and
the receiver chooses from what the file carries (`PhaseInv`); and that each channel
dealt with carries the best of its table, while the others carry nothing (`UsedInv`).

`Transcode_proofs`: `TranscodeWholeOrFull` and `TranscodeBlocksAgree` (`WholeOrFull`
and `BlocksAgree`), for any set of images, components, sampling factors up to 4 by 4,
buffer size, room, and lengths of the code of an MCU. The one thing assumed of those
lengths is that one of them is the greatest: an MCU has at most ten blocks of 64
coefficients. The first theorem is about bytes: as long as the destination is written
to, what was produced is what was flushed and what is buffered (`ByteInv`). The second is
about the order of the blocks in a file (`FileOrder`): that of its scans, one behind the
other (`Starts`); in a scan that of the MCUs, and in an MCU that of the components.
What the counters of the reader and of the writer stand for is always the next part of
this order (`McuInFile`, `FileStep`), although they count in MCUs, rows of MCUs and, in a
scan of one component, rows of blocks of which the last MCU row has fewer
(`SingleStep`). `BlockInv` says that the arrays hold what the part of the
order before the counters has, and a file being written what the arrays hold there;
that the walk visits each block of the image once (`VisitFacts`), with the sender and the
receiver in the same order, does the rest. That the blocks of an MCU which the writer
makes up are none of the image (`RealInImage`), and that those of the walk are all
in the arrays, comes down to rounding up twice: a component's size in blocks, and these
in MCUs (`CeilNested`).

`Ecc_proofs`: three theorems, for any length of a block and any number of parity bytes,
any rooms, messages and damage. `EccCapacityHolds` (`CapacityHolds`) and the framing: the
blocks are as many as the receiver looks for, the last is the first that is not full, also
when the message ends where a block does (`BlocksOf`), the decoder neither goes beyond them
nor takes the message for trash, and what it has taken is always the front of the message,
if the blocks were put right (`FrameInv`, over `SizeInv`, which needs no code that works and
is all `CapacityHolds` rests on).

`EccCodewordsAgree` (`CodewordsAgree`, a conjunct of `CodeHolds`) is about the encoder:
what it makes of any block has the syndrome 0. The field's tables are data no
backend computes with; `TablesAssumption` in `ReedSolomon`, which TLC evaluates on every run
of `MCEcc`, says of them what the proof needs: exclusive or of half bytes is a group, the shift
of the register that makes the table is linear in it, and powers and logarithms are inverse.
That makes multiplication associative and distributive (`MultAssociative`,
`MultDistributes`). Evaluation by Horner's scheme (`IsHorner`) is then linear, each of the
first `NPAR` powers is a root of the generator that `compute_genpoly` multiplies together
(`GenPolyIsProduct`), and `CodeInv` can say what the shift register is for: after every
byte, the bytes so far followed by the register are a word that is 0 at each of these
powers (`ShiftKeepsZero`), which is what `decode_data` computes (`ZeroSyndrome`).

`EccCodeHolds` (`CodeHolds`) is about the decoder: damage to no more than half as many bytes
of a block as it has parity bytes is undone (`Corrected`), and then the message comes back
(`Recovered`). The argument, in the order of the code:

* The syndrome of a word is made of the power sums of what is wrong with it
  (`SyndromeOfErrors`; `Moment`, `IsSyndrome`). No more than `NPAR` errors have all of them
  0 (`Vandermonde`), so errors are seen (`ErrorsFound`).
* The product of a polynomial with the syndrome is made of what is left at each place of an
  error when the polynomial is divided by its factor (`Residue`, `ProductWithSyndrome`); from
  the degree of the polynomial on, of the power sums of that (`ProductTail`). `MasseyInv`
  says of Berlekamp-Massey that its polynomial makes the product 0 up to the present step,
  what can be added to it to make the next 0, and how long the two may be (`MasseyKept`,
  `MasseyLonger`). The register never becomes longer than there are errors
  (`NotTooLong`): else nothing would be left anywhere, by `Vandermonde`.
* At the end the polynomial is 0 at the place of every error (`LocatorZeros`), and as it
  has no more zeros than its degree (`RootCount`), nowhere else: the search finds the
  places, all of them and no others (`ErrorLocsAre`).
* Omega sums up what is left, over all places (`OmegaIs`); at the zero of one place only that
  place counts (`NumeratorIs`), and the odd terms of the locator are its derivative there
  (`DenominatorIs`). What the decoder adds to the byte is what is wrong with it
  (`MagnitudeIs`).

`RepairInv` carries this through the steps of the decoder, from the block on the way, to the
syndrome, the passes of Berlekamp-Massey and the correction, beside `FrameInv` and `CodeInv`.

`BitStream_proofs`: `BitStreamUnderstood`, `BitStreamHeaderGuarded` and `BitStreamWritable`
(`Understood`, `HeaderGuarded` and `Writable`), for any messages and capacities whose bits an
`int` can count, covers, changes and ways to hide bits. A byte is its eight bits
(`SameByte`, `ByteOfBits`); setting bits one after the other sets them and no others, in
whatever fields they are (`SetBitsSets`); what is put into a coefficient, by `XFORM` or in
the low bits, of whatever sign, is got from it (`PutGot`), and can be encoded unless the
coefficient was too low (`PutEncodable`). None of the three properties is inductive. `KeptInv`
says that every coefficient but the changed one is as the sender writes it, `SendInv` where the
sender is; `ReceiveInv` that the receiver has, up to its position, each bit that arrives:
one of the stream, not in the changed coefficient, and not lost with the last (`Arrived`). At
the end of the header, the bits that may be wrong lie in a stretch of eight, so no two of
them are at the same place of their bytes, and a sound checksum means that all are
right (`HeaderDetected`); hence the limit is the sender's, and the receiver goes on to the end
(`EndInv`).

The library's induction theorems take an operator as parameter, which the provers cannot
instantiate. Modules that need one therefore begin with `SegmentInduction`, the same as a
fact about sets (a set that contains 0, and with each number up to *n* the next, contains
them all), and, where a proof is about a recursive function, with `SegmentRecursion`: a
recursion over 0 .. *n* has a solution.

Only model-checked: `Terminates` (liveness), and everything in `Restart`, `Huffman` and
`Progressive`. Liveness under fairness is beyond the prover, and so is everything about
those three modules, whose readers are recursive over the data.

## 5. Not modelled

* The image as a picture: `normalize`, `set_dc`, `clear_ac`, and the prefilter
  callback, which change coefficients that carry nothing. Requantisation is in
  `Frequencies` only as far as it decides on the tables.
* Floats: `new_density` is a rational number, rounded up. Where the C float is a
  little off, the `+ 1` after it decides.
* ECC without embedded length, the block length that all configurations of a
  process share, erasures, the CRC of `rscode/`.
* Raw mode over several channels; buffers smaller than the receiver needs; memory,
  its limits and its leaks.
* `jel_copy_settings`, and properties that only set a field that nothing in the
  models depends on.
* libjpeg: what jel calls of it is in `Transcode`, `Restart`, `Frequencies` and
  `Session`, the coding of coefficients in `Huffman` and `Progressive`. The memory manager
  (in the usual build every array is in memory as a whole), suspension (no source or
  destination of jel suspends), the pass that counts symbols, scans in disorder and
  arithmetic coding are left out; colour conversion, DCT, up- and downsampling
  and quantisation to colours are never called by jel, which works on
  coefficients.
* Tools, analysis helpers, SWIG and Python wrappers, build scripts.

Of the 66,000 lines of C in the repository the models stand for about a
tenth, and this is near what can be said of the program: some 20,000 lines are
older versions of `ijel.c` that are not compiled and generated wrappers; more than
half of libjpeg works on pixels, which jel never has; the tools parse options and
print. What is compiled of jel itself is `jel.c`, `ijel.c`, `ijel-ecc.c`, the four
`jpeg-*.c` and `rscode/`, and most of it is modelled.

## 6. Plan

Done: `Selection`, `Steg`, `Link` and `StegLink`, `Channel`, `Channels`, `PrnCache`,
`Session`, `Ecc` and `ReedSolomon`, `Frequencies`, `Transcode`, `Restart`, `BitStream`,
`Huffman`, `Progressive`, and the proofs above.

What could follow:

1. Raw mode in `Channels`, and ECC under `Session`, with the block length two
   configurations share.
2. Scans in disorder, and the smoothing `coef_bits` is also for, in `Progressive`; the
   windows of virtual arrays, for builds with `--enable-maxmem`.
3. Proofs about `Restart`: its recursive readers would have to become functions first.
