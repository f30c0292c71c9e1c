----------------------------- MODULE Transcode -----------------------------
(***************************************************************************)
(* The way an image takes: libjpeg reads the coefficients of a file, jel   *)
(* walks over the blocks of each component and hides its bits in them,     *)
(* libjpeg writes the coefficients to memory or to a file, and at the      *)
(* other end a second libjpeg reads them for jel to walk over again.       *)
(* Reader, walk and writer each have a notion of their own of which blocks *)
(* there are: an image is padded to whole MCUs, differently in a scan of   *)
(* one component and in one of several.                                    *)
(*                                                                         *)
(* A block is its place <<component, row, column>>, or what the n-th visit *)
(* of jel has left in it; a file is the sequence of the blocks entropy     *)
(* coded in it and the number of its bytes.                                *)
(***************************************************************************)
EXTENDS Integers, FiniteSets, FiniteSetsExt, SequencesExt

CONSTANTS
    Images,     \* the images: width and height in samples, the sampling
                \* factors h, v of the components, and whether each component
                \* has a scan of its own
    DctSize,    \* DCTSIZE: samples in a row of a block
    MaxBlocks,  \* C_MAX_BLOCKS_IN_MCU and D_MAX_BLOCKS_IN_MCU
    McuBytes,   \* how many bytes a header, or the code of an MCU, may take;
                \* there is a most, for a block has 64 coefficients
    BufSize,    \* OUTPUT_BUF_SIZE
    Rooms       \* how many bytes a destination may have room for

Factors == [h : 1 .. 4, v : 1 .. 4]

ASSUME TranscodeAssumption ==
    /\ \A i \in Images :
          /\ i.width \in Nat \ {0}
          /\ i.height \in Nat \ {0}
          /\ i.comps \in Seq(Factors) \ {<<>>}
          /\ i.separate \in BOOLEAN
    /\ DctSize \in Nat \ {0}
    /\ MaxBlocks \in Nat \ {0}
    /\ McuBytes \subseteq Nat \ {0}
    /\ \E most \in McuBytes : \A n \in McuBytes : n <= most
    /\ BufSize \in Nat \ {0}
    /\ Rooms \subseteq Nat \ {0}

VARIABLES
    image,     \* the image; never changes
    dest,      \* the sender's destination: its kind and its room
    side,      \* who is at work: the sender or the receiver
    pc,        \* reading, walking, writing, or how it ended
    scan,      \* the scan being read
    row,       \* input_iMCU_row, iMCU_row_num
    vert,      \* MCU_vert_offset
    ctr,       \* MCU_ctr, mcu_ctr
    array,     \* whole_image: the coefficients, a function of their places
    file,      \* the blocks still to be read, or those written
    produced,  \* bytes produced by the writer
    length,    \* dest->length: bytes the destination has taken
    buffered,  \* OUTPUT_BUF_SIZE - free_in_buffer
    found      \* what the receiver's walk comes upon, visit by visit

counters == <<row, vert, ctr>>
bytes == <<produced, length, buffered>>
vars == <<image, dest, side, pc, scan, counters, array, file, bytes, found>>

-----------------------------------------------------------------------------
(* Geometry: initial_setup and per_scan_setup, which reader (jdinput.c) and *)
(* writer (jcmaster.c) do alike.                                           *)

CeilDiv(a, b) == (a + b - 1) \div b

Comps == 1 .. Len(image.comps)
H(c) == image.comps[c].h
V(c) == image.comps[c].v
MaxH == Max({H(c) : c \in Comps})
MaxV == Max({V(c) : c \in Comps})

Width(c) == CeilDiv(image.width * H(c), MaxH * DctSize)    \* width_in_blocks
Height(c) == CeilDiv(image.height * V(c), MaxV * DctSize)  \* height_in_blocks
Rows == CeilDiv(image.height, MaxV * DctSize)              \* total_iMCU_rows

\* A scan is the sequence of its components.
Interleaved == << [c \in Comps |-> c] >>
Separate == [c \in Comps |-> <<c>>]

Single(s) == Len(s) = 1
McusPerRow(s) == IF Single(s) THEN Width(s[1])
                              ELSE CeilDiv(image.width, MaxH * DctSize)
McuWidth(s, c) == IF Single(s) THEN 1 ELSE H(c)
McuHeight(s, c) == IF Single(s) THEN 1 ELSE V(c)
\* Mutant: a last group that is full counts as empty.
RemainderMod(n, k) == n % k

\* What of n blocks is in the last group of k: k if they fill it.
Remainder(n, k) == IF n % k = 0 THEN k ELSE n % k

LastCol(s, c) == Remainder(Width(c), McuWidth(s, c))       \* last_col_width
LastRow(c) == Remainder(Height(c), V(c))                   \* last_row_height

\* MCU_rows_per_iMCU_row.
McuRows(s) == CASE ~Single(s) -> 1
                [] Single(s) /\ row < Rows - 1 -> V(s[1])
                [] Single(s) /\ row = Rows - 1 -> LastRow(s[1])

\* The n-th place of component c in rows of w blocks.
Raster(c, w, n) == <<c, (n - 1) \div w, (n - 1) % w>>

\* Mutant: in a scan of one component every row of a group goes to the first.
McuPartTop(s, c) ==
    LET w == McuWidth(s, c)
    IN  [n \in 1 .. w * McuHeight(s, c) |->
           LET at == Raster(c, w, n)
           IN  <<c, row * V(c) + at[2], ctr * w + at[3]>>]

\* The places an MCU of scan s takes up, in the order of its code.
McuPart(s, c) ==
    LET w == McuWidth(s, c)
    IN  [n \in 1 .. w * McuHeight(s, c) |->
           LET at == Raster(c, w, n)
           IN  <<c, row * V(c) + vert + at[2], ctr * w + at[3]>>]
McuPlaces(s) == FlattenSeq([k \in 1 .. Len(s) |-> McuPart(s, s[k])])

\* per_scan_setup raises an error: the MCU has too many blocks.
TooManyBlocks(s) == ~Single(s) /\ Len(McuPlaces(s)) > MaxBlocks

\* The arrays have room for whole MCUs.
Places == UNION { {c} \X (0 .. Rows * V(c) - 1)
                      \X (0 .. CeilDiv(Width(c), H(c)) * H(c) - 1) : c \in Comps }
InImage(p) == p[2] < Height(p[1]) /\ p[3] < Width(p[1])

Dummy == <<>>               \* a block whose AC coefficients are all zero
Visit(c, n) == <<0, c, n>>  \* what the n-th visit to component c leaves

-----------------------------------------------------------------------------
(* The file the sender is given, as the JPEG standard orders it.           *)

\* The blocks of one component go row by row, those of several MCU by MCU,
\* and in an MCU component by component.
ScanOrder(s) ==
    IF Single(s)
      THEN [n \in 1 .. Height(s[1]) * Width(s[1]) |-> Raster(s[1], Width(s[1]), n)]
      ELSE LET mcu == FlattenSeq([k \in 1 .. Len(s) |->
                        [n \in 1 .. H(s[k]) * V(s[k]) |-> Raster(s[k], H(s[k]), n)]])
               cols == CeilDiv(image.width, MaxH * DctSize)
           IN  [n \in 1 .. Rows * cols * Len(mcu) |->
                  LET k == (n - 1) \div Len(mcu)
                      p == mcu[((n - 1) % Len(mcu)) + 1]
                  IN  <<p[1], (k \div cols) * V(p[1]) + p[2],
                              (k % cols) * H(p[1]) + p[3]>>]

ScanCode(s) ==
    LET order == ScanOrder(s)
    IN  [n \in DOMAIN order |-> IF InImage(order[n]) THEN order[n] ELSE Dummy]

Scans == IF side = "sender" /\ image.separate THEN Separate ELSE Interleaved

-----------------------------------------------------------------------------
(* The loops over MCUs that reader and writer have in common.              *)

EndOfRow(s) == ctr = McusPerRow(s) - 1
EndOfIMcuRow(s) == EndOfRow(s) /\ vert = McuRows(s) - 1
EndOfScan(s) == EndOfIMcuRow(s) /\ row = Rows - 1

NextMcu(s) ==
    /\ ctr' = IF EndOfRow(s) THEN 0 ELSE ctr + 1
    /\ vert' = CASE EndOfIMcuRow(s) -> 0
                 [] EndOfRow(s) /\ ~EndOfIMcuRow(s) -> vert + 1
                 [] ~EndOfRow(s) -> vert
    /\ row' = CASE EndOfScan(s) -> 0
                [] EndOfIMcuRow(s) /\ ~EndOfScan(s) -> row + 1
                [] ~EndOfIMcuRow(s) -> row

-----------------------------------------------------------------------------
(* jpeg_read_coefficients.                                                 *)

\* start_input_pass.
ReadRefused ==
    /\ pc = "read"
    /\ TooManyBlocks(Scans[scan])
    /\ pc' = "unreadable"
    /\ UNCHANGED <<image, dest, side, scan, counters, array, file, bytes, found>>

\* consume_data: an MCU goes where it belongs, padding included.
ReadMcu ==
    LET s == Scans[scan]
        mcu == McuPlaces(s)
    IN  /\ pc = "read"
        /\ ~TooManyBlocks(s)
        /\ array' = [p \in Places |->
                       IF Contains(mcu, p)
                         THEN file[CHOOSE n \in 1 .. Len(mcu) : mcu[n] = p]
                         ELSE array[p]]
        /\ file' = SubSeq(file, Len(mcu) + 1, Len(file))
        /\ NextMcu(s)
        /\ IF EndOfScan(s) /\ scan = Len(Scans)
             THEN pc' = "walk" /\ scan' = 1
             ELSE pc' = pc /\ scan' = IF EndOfScan(s) THEN scan + 1 ELSE scan
        /\ UNCHANGED <<image, dest, side, bytes, found>>

-----------------------------------------------------------------------------
(* The walk of jel over the blocks of a component (ijel.c): groups of V(c) *)
(* rows, as many as are begun, and in each row the blocks of the image.    *)

Visits(c) ==
    [n \in 1 .. CeilDiv(Height(c), V(c)) * V(c) * Width(c) |->
        Raster(c, Width(c), n)]

\* The components are walked over one after the other.
Embed ==
    /\ pc = "walk"
    /\ side = "sender"
    /\ pc' = "start"
    /\ array' = [p \in Places |->
                   IF Contains(Visits(p[1]), p)
                     THEN Visit(p[1], CHOOSE n \in DOMAIN Visits(p[1]) :
                                         Visits(p[1])[n] = p)
                     ELSE array[p]]
    /\ UNCHANGED <<image, dest, side, scan, counters, file, bytes, found>>

Extract ==
    /\ pc = "walk"
    /\ side = "receiver"
    /\ pc' = "done"
    /\ found' = [c \in Comps |->
                   [n \in DOMAIN Visits(c) |-> array[Visits(c)[n]]]]
    /\ UNCHANGED <<image, dest, side, scan, counters, array, file, bytes>>

-----------------------------------------------------------------------------
(* jpeg_write_coefficients and jpeg_finish_compress.                       *)

\* n more bytes fill the buffer so many times.  (It is emptied as soon as it
\* is full.)
Flushes(n) == (buffered + n) \div BufSize

\* empty_output_buffer: memory that is full, even if exactly full, ends the
\* compression; so does a file that cannot take a buffer.
Refused(n) ==
    /\ Flushes(n) > 0
    /\ CASE dest.kind = "memory" -> length + Flushes(n) * BufSize >= dest.room
         [] dest.kind = "stdio" -> length + Flushes(n) * BufSize > dest.room

Emit(n) ==
    /\ ~Refused(n)
    /\ produced' = produced + n
    /\ length' = length + Flushes(n) * BufSize
    /\ buffered' = (buffered + n) % BufSize

\* longjmp: jel_embed returns JEL_ERR_JPEG.
Fail ==
    /\ pc' = "failed"
    /\ UNCHANGED <<image, dest, side, scan, counters, array, file, bytes, found>>

WriteRefused ==
    /\ pc = "start"
    /\ TooManyBlocks(Interleaved[1])
    /\ Fail

\* File, frame and scan headers, copied markers.
WriteStart ==
    /\ pc = "start"
    /\ ~TooManyBlocks(Interleaved[1])
    /\ \E n \in McuBytes : Emit(n)
    /\ pc' = "write"
    /\ file' = <<>>
    /\ UNCHANGED <<image, dest, side, scan, counters, array, found>>

\* The blocks compress_output takes from the arrays: not those that pad the
\* last MCU row or column.
Real(s, p) ==
    /\ row = Rows - 1 => p[2] - row * V(p[1]) < LastRow(p[1])
    /\ EndOfRow(s) => p[3] - ctr * McuWidth(s, p[1]) < LastCol(s, p[1])

WriteMcu ==
    LET s == Interleaved[1]
        mcu == McuPlaces(s)
    IN  /\ pc = "write"
        /\ \E n \in McuBytes : Emit(n)
        /\ file' = file \o [n \in 1 .. Len(mcu) |->
                              IF Real(s, mcu[n]) THEN array[mcu[n]] ELSE Dummy]
        /\ NextMcu(s)
        /\ pc' = IF EndOfScan(s) THEN "trailer" ELSE pc
        /\ UNCHANGED <<image, dest, side, scan, array, found>>

WriteTrailer ==
    /\ pc = "trailer"
    /\ \E n \in McuBytes : Emit(n)
    /\ pc' = "term"
    /\ UNCHANGED <<image, dest, side, scan, counters, array, file, found>>

WriteFails ==
    /\ pc \in {"start", "write", "trailer"}
    /\ \E n \in McuBytes : Refused(n)
    /\ Fail

\* Mutant: what is left is written only if there is room for all of it.
TermDestinationAll ==
    /\ pc = "term"
    /\ pc' = "written"
    /\ length' = IF length + buffered > dest.room THEN length
                                                  ELSE length + buffered
    /\ UNCHANGED <<image, dest, side, scan, counters, array, file, produced,
                   buffered, found>>

\* term_destination: memory takes as much of the rest as there is room for.
TermDestination ==
    /\ pc = "term"
    /\ dest.kind = "memory" \/ length + buffered <= dest.room
    /\ pc' = "written"
    /\ length' = Min({length + buffered, dest.room})
    /\ UNCHANGED <<image, dest, side, scan, counters, array, file, produced,
                   buffered, found>>

TermFails ==
    /\ pc = "term"
    /\ dest.kind = "stdio"
    /\ length + buffered > dest.room
    /\ Fail

\* The receiver gets the file, if all of it is there.
Deliver ==
    /\ pc = "written"
    /\ length = produced
    /\ pc' = "read"
    /\ side' = "receiver"
    /\ scan' = 1
    /\ array' = [p \in Places |-> Dummy]
    /\ UNCHANGED <<image, dest, counters, file, bytes, found>>

-----------------------------------------------------------------------------
Init ==
    /\ image \in Images
    /\ dest \in [kind : {"memory", "stdio"}, room : Rooms]
    /\ side = "sender"
    /\ pc = "read"
    /\ scan = 1
    /\ row = 0
    /\ vert = 0
    /\ ctr = 0
    /\ array = [p \in Places |-> Dummy]
    /\ file = FlattenSeq([k \in 1 .. Len(Scans) |-> ScanCode(Scans[k])])
    /\ produced = 0
    /\ length = 0
    /\ buffered = 0
    /\ found = [c \in Comps |-> <<>>]

Next == ReadRefused \/ ReadMcu \/ Embed \/ Extract \/ WriteRefused \/ WriteStart
        \/ WriteMcu \/ WriteTrailer \/ WriteFails \/ TermDestination
        \/ TermFails \/ Deliver

Spec == Init /\ [][Next]_vars

-----------------------------------------------------------------------------
(* What must hold.                                                         *)

\* Whatever scans the file has, every block of the image has come to its
\* place by the time jel walks over it, and none is left in the file.
ReadInPlace ==
    pc = "walk" /\ side = "sender" =>
        /\ file = <<>>
        /\ \A p \in Places : InImage(p) => array[p] = p

\* The receiver's walk makes the sender's visits, and at every visit to a
\* block of the image finds what the sender left at that visit.
PayloadKept ==
    pc = "done" =>
        \A c \in Comps : \A n \in DOMAIN Visits(c) :
            InImage(Visits(c)[n]) => found[c][n] = Visit(c, n)

\* The reader of libjpeg, both walks of jel and the writer of libjpeg agree on
\* which block is where, padding and scans of one component included.
BlocksAgree == ReadInPlace /\ PayloadKept

\* An image that was not refused is there as a whole, or the destination is
\* memory and full to the last byte; and one that there was room for, with a
\* byte to spare, is not refused for want of room.
WholeOrFull ==
    /\ pc = "written" =>
          length = produced \/ (dest.kind = "memory" /\ length = dest.room)
    /\ pc = "failed" => \/ TooManyBlocks(Interleaved[1])
                        \/ produced + Max(McuBytes) >= dest.room
=============================================================================
