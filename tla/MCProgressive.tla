---------------------------- MODULE MCProgressive ---------------------------
(***************************************************************************)
(* A small instance of Progressive for TLC: three sets of jobs.            *)
(***************************************************************************)
EXTENDS Progressive

\* DC coefficients, which go up and down.
DcValues == <<-3, 2, 1, 3>>

\* An image with the AC coefficients of these blocks, in another order in every
\* component.
ImageOf(f) ==
    LET turned(n, c) == ((n + c - 2) % NumBlocks) + 1
    IN  [c \in Components |-> [n \in 1 .. NumBlocks |-> [k \in Coefs |->
            IF k = 0 THEN DcValues[turned(n, c)] ELSE f[turned(n, c)][k]]]]

\* No, one and many coefficients; with zeros before, between and after them;
\* of one bit and more; and one that has too many.
SomePatterns ==
    {<<0, 0, 0, 0, 0>>, <<0, 0, 0, 0, 1>>, <<2, 0, 0, 0, -1>>, <<3, -3, 3, 2, 3>>,
     <<-2, 3, 0, 0, 2>>, <<0, 1, 0, 0, -3>>}

LargePatterns == {<<0, 0, 0, 0, 0>>, <<1, -2, 0, 0, 0>>, <<9, 0, 0, 0, 0>>}

All == <<1, 2, 3>>
Job(scans, im, every) == [scans |-> scans, image |-> im, interval |-> every]

\* All AC coefficients but their last bit, and the last bit: four blocks with
\* every combination of six patterns, without restarts.
TwoScans ==
    <<Scan(All, 0, 0, 0, 0), Scan(<<1>>, 1, DCTSIZE2 - 1, 0, 1),
      Scan(<<1>>, 1, DCTSIZE2 - 1, 1, 0)>>

EveryImage ==
    {Job(TwoScans, ImageOf(f), 0) : f \in [1 .. NumBlocks -> SomePatterns]}

\* The recommended scripts, with restarts; the files may be cut anywhere.
Simple == {jpeg_simple_progression(b) : b \in BOOLEAN}

Recommended ==
    LET none == <<0, 0, 0, 0, 0>>
        some == <<2, 0, 0, 0, -1>>
        all == <<3, -3, 3, 2, 1>>
    IN  {Job(s, ImageOf(<<none, some, all, none>>), 2) : s \in Simple}

\* Up to three scans, legal or not; images with a coefficient that is too large.
AnyScan ==
    {Scan(b[1], b[2], b[3], ah, al) :
        b \in {<<All, 0, 0>>, <<<<1>>, 0, 2>>, <<<<1>>, 1, 1>>, <<<<1>>, 1, 2>>, <<<<1>>, 2, 1>>},
        ah \in 0 .. 2, al \in 0 .. 2}

AnyScripts == UNION {[1 .. n -> AnyScan] : n \in 0 .. 2}
              \cup {<<Scan(All, 0, 0, 0, 1)>> \o s : s \in [1 .. 2 -> AnyScan]}

EveryScript ==
    {Job(s, ImageOf([n \in 1 .. NumBlocks |-> p]), 0) : s \in AnyScripts, p \in LargePatterns}

MCJobs == EveryImage \cup Recommended \cup EveryScript

AnyFillers == {<<0, 0>>, <<1, 0>>, <<RunMax - 1, 0>>, <<0, 1>>, <<RunMax - 1, 1>>}
=============================================================================
