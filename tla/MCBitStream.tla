---------------------------- MODULE MCBitStream -----------------------------
(***************************************************************************)
(* A small instance of BitStream for TLC.                                  *)
(***************************************************************************)
EXTENDS BitStream

\* With 3 bits, coefficients hold bits of two bytes, and some messages end in
\* the middle of one.
MCCodes == [bits : {1, 3, 4, 7, 8}, lsbs : BOOLEAN]

\* Values at and near the limits of the encoder, and on both sides of 0.
MCCovers == {-1023, -1021, -5, 6, 1023}
MCMessages == {<<>>, <<255>>, <<0, 165>>}
MCChanges == {-1023, -4, 0, 3, 511}
=============================================================================
