----------------------------- MODULE MCChannels -----------------------------
(***************************************************************************)
(* Small instances of Channels for TLC.                                    *)
(***************************************************************************)
EXTENDS Channels, TLC

Mcus3(y, u, v) == (0 :> y) @@ (1 :> u) @@ (2 :> v)

\* Three components alike; half the chroma in one direction; a chroma
\* component larger than the other.
SmallImages == {Mcus3(9, 9, 9), Mcus3(14, 7, 7), Mcus3(10, 8, 9)}

\* Colour at half the resolution in both directions (4:2:0).
HalvedImages == {Mcus3(40, 10, 10)}


MCUses == {<<0>>, <<0, 1>>, <<0, 1, 2>>, <<2, 0, 1>>}
AllThree == {<<0, 1, 2>>}
=============================================================================
