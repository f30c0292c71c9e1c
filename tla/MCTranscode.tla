---------------------------- MODULE MCTranscode ----------------------------
(***************************************************************************)
(* Small instances of Transcode for TLC.  A block is one sample wide, so   *)
(* sizes are in blocks of the component sampled most finely.               *)
(***************************************************************************)
EXTENDS Transcode

Grey(v) == << [h |-> 1, v |-> v] >>
Full == << [h |-> 1, v |-> 1], [h |-> 1, v |-> 1] >>
Halved == << [h |-> 2, v |-> 2], [h |-> 1, v |-> 1] >>   \* chroma at half size
Flat == << [h |-> 1, v |-> 2], [h |-> 2, v |-> 1] >>     \* neither is the finest

\* 6 or more blocks in an MCU are too many.
Fine == << [h |-> 2, v |-> 2], [h |-> 1, v |-> 2] >>

Sizes(ws, hs, cs, ss) ==
    [width : ws, height : hs, comps : cs, separate : ss]

\* Sizes that fill the MCUs and sizes that do not, in one scan or in several.
MCImages ==
    Sizes({2, 3}, {2, 3}, {Grey(2), Halved, Flat}, BOOLEAN)
        \cup Sizes({2}, {3}, {Grey(1), Full}, {FALSE})
        \cup Sizes({2}, {2}, {Fine}, BOOLEAN)

=============================================================================
