------------------------------- MODULE MCEcc -------------------------------
(***************************************************************************)
(* Small instances of Ecc for TLC: blocks of 12 bytes, 7 of them text.     *)
(***************************************************************************)
EXTENDS Ecc

\* Messages of one to four blocks, the last one empty, full or in between.  42
\* bytes have room for three blocks and the header, 48 for four blocks only.
MCJobs ==
    [room : {42}, len : {0, 7, 15, 21}, raw : {TRUE}]
        \cup [room : {48}, len : {6, 21}, raw : {TRUE}]
        \cup [room : {42}, len : {15}, raw : {FALSE}]

\* Any one or two bytes, which can be corrected, and three, which cannot.
MCDamages == {{}, 1 .. 3} \cup kSubset(1, 1 .. 12) \cup kSubset(2, 1 .. 12)

=============================================================================
