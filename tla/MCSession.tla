----------------------------- MODULE MCSession ------------------------------
(***************************************************************************)
(* Small instances of Session for TLC.                                     *)
(***************************************************************************)
EXTENDS Session, TLC

File(y, u, v, wrong) ==
    [mcus |-> (0 :> y) @@ (1 :> u) @@ (2 :> v), damage |-> wrong]
Triple(a, b, c) == (0 :> a) @@ (1 :> b) @@ (2 :> c)

\* Three components alike; 4:2:0, whose chroma has no room for a header; files
\* that cannot be read.
MCImages == {File(9, 9, 9, "none"), File(9, 4, 4, "none"),
             File(9, 9, 9, "no image"), File(9, 9, 9, "header"),
             File(9, 9, 9, "coefficients")}

\* Three components, and two with a gap; a fresh configuration has one.
MCComponents == {Triple(0, 1, 2), Triple(0, 0, 2)}
=============================================================================
