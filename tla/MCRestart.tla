------------------------------ MODULE MCRestart -----------------------------
(***************************************************************************)
(* Small instances of Restart for TLC.                                     *)
(***************************************************************************)
EXTENDS Restart, TLC

\* Blocks of 18 coefficients: a run of zeros can be too long for one symbol.
Luminance(n) ==
    [k \in 0 .. 17 |-> CASE k = 0 -> n - 14
                         [] k = 1 /\ n % 3 = 0 -> -3
                         [] k = 17 /\ n % 4 < 2 -> 2
                         [] OTHER -> 0]
Chrominance(n) == [k \in 0 .. 17 |-> IF k = 0 THEN 3 - (n % 7) ELSE 0]

MCWrong == {Invalid, SOI, EOI, 0, 3}

MCImage == [n \in 1 .. 28 |-> <<Luminance(n), Chrominance(n)>>]
=============================================================================
