--------------------------- MODULE MCFrequencies ---------------------------
(***************************************************************************)
(* Small instances of Frequencies for TLC: blocks of five frequencies, of  *)
(* which a table makes some too coarse.                                    *)
(***************************************************************************)
EXTENDS Frequencies, TLC

\* A table whose frequencies fine are quantised finely, the others coarsely.
Quant(fine) == [j \in Frequency |-> IF j \in fine THEN 16 ELSE 99]
Pair(luma, chroma) == (0 :> luma) @@ (1 :> chroma)

High == Quant({0, 2, 4})
Low == Quant({0, 1, 2})
Few == Quant({0})

\* Two tables, one for all components, and one with too few frequencies.
MCImages == {Pair(High, Low), Pair(Low, NoTable), Pair(High, Few)}
MCStandard == (75 :> Pair(Low, Few)) @@ (90 :> Pair(Quant({0, 1, 2, 3}), High))
MCLists == {<<3, 1>>}
=============================================================================
