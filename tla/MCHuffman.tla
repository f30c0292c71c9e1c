----------------------------- MODULE MCHuffman ------------------------------
(***************************************************************************)
(* Small instances of Huffman for TLC.                                     *)
(***************************************************************************)
EXTENDS Huffman

CONSTANTS
    Often,       \* how often a symbol may occur
    MaxGiven     \* codes of a table that is given

\* At least one symbol was counted; symbol 0 occurs often or not at all.
MCCounts ==
    {cnt \in [Symbols -> Often] :
        cnt[0] \in {0, Max(Often)} /\ \E s \in Symbols : cnt[s] > 0}

\* Any numbers of codes, legal or not, for some symbols, one of them twice.
MCTables ==
    {[bits |-> b, huffval |-> v] :
        b \in {c \in [1 .. MaxLength -> 0 .. MaxGiven - 1] :
                  MapThenSumSet(LAMBDA l : c[l], DOMAIN c) = MaxGiven},
        v \in {<<3, 0, 1>>, <<0, 1, 0>>}}

\* Codes of one and of three bits; of two and of three, and those again, that
\* were shortened from four; and one symbol only.
FewCounts ==
    {[s \in Symbols |-> IF s = 0 THEN 5 ELSE IF s < 4 THEN 1 ELSE 0],
     [s \in Symbols |-> IF s = 0 THEN 0 ELSE 1],
     [s \in Symbols |-> IF s = 0 THEN 5 ELSE Min({s, 3})],
     [s \in Symbols |-> IF s = NumSymbols - 1 THEN 2 ELSE 0]}
=============================================================================
