------------------------------- MODULE MCSteg -------------------------------
(***************************************************************************)
(* Small instances of Steg and StegLink for TLC.                           *)
(***************************************************************************)
EXTENDS StegLink

\* Two rings whose draws permute frequencies and MCUs differently.
RingA == [i \in 0 .. NList - 1 |-> (7 * i + 3) % 11]
RingB == [i \in 0 .. NList - 1 |-> (5 * i * i + 1) % 13]
MCRings == {RingA, RingB}
=============================================================================
