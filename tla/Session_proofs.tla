--------------------------- MODULE Session_proofs ---------------------------
(***************************************************************************)
(* Proofs about the life of a configuration: libjpeg is in step with       *)
(* needFinishDecompress until a call fails, and no error handler is missing *)
(* but after the two failures that leave something to be finished; a reused *)
(* configuration embeds as a fresh one would, and the pieces it makes lie  *)
(* inside the message.  All hold for every image, message and number of    *)
(* files.                                                                  *)
(***************************************************************************)
EXTENDS Session, TLAPS

\* The end of a configuration puts everything back.
LEMMA EndsBlank ==
    ASSUME NEW how, Ends(how)
    PROVE  /\ end' = how /\ failed' = failed
           /\ src' = "start" /\ dst' = "start"
           /\ needFinish' = FALSE /\ coefs' = "none"
    BY DEF Ends, Blank

\* The two failures of a source, and what all of jel_embed and jel_extract do.
LEMMA SourceFailsFailed ==
    ASSUME NEW kind, SourceFails(kind)
    PROVE  /\ end' = end /\ failed' = failed \cup {kind}
           /\ dst' = dst /\ dstErr' = dstErr /\ srcErr' = "dead"
    BY DEF SourceFails

\* What an embedding that gets as far as the coefficients leaves behind.
LEMMA EmbeddingLeaves ==
    ASSUME NEW len, NEW written, Embedding(len, written)
    PROVE  end' = end /\ srcErr' = "dead" /\ dstErr' = "dead"
    BY DEF Embedding

-----------------------------------------------------------------------------
\* As long as no call has failed, needFinishDecompress tells the state of the
\* decompression, and the compression is ready (LibjpegInStep).
THEOREM LibjpegAlwaysInStep == Spec => []LibjpegInStep
<1>1. Init => LibjpegInStep
  BY DEF Init, Blank, LibjpegInStep
<1>2. ASSUME LibjpegInStep, [Next]_vars
      PROVE  LibjpegInStep'
  <2> USE <1>2
  <2>1. CASE \E how : Ends(how)
    BY <2>1, EndsBlank DEF LibjpegInStep
  <2>2. CASE \E kind : SourceFails(kind)
    BY <2>2, SourceFailsFailed DEF LibjpegInStep
  <2>3. CASE SetSource
    BY <2>3 DEF SetSource, LibjpegInStep
  <2>4. CASE SetComponents \/ SetDensity \/ jel_capacity \/ EmbedOutside \/ ExtractOutside
    BY <2>4 DEF SetComponents, SetDensity, jel_capacity, EmbedOutside, ExtractOutside,
                libjpeg, LibjpegInStep
  <2>5. CASE jel_embed
    BY <2>5 DEF jel_embed, LibjpegInStep
  <2>6. CASE EmbedWriteFails
    BY <2>6 DEF EmbedWriteFails, LibjpegInStep
  <2>7. CASE jel_extract
    BY <2>7 DEF jel_extract, Extracting, LibjpegInStep
  <2>8. CASE UNCHANGED vars
    BY <2>8 DEF vars, libjpeg, LibjpegInStep
  <2>9. CASE SourceUnhandled \/ SourceMixed \/ SourceDestroyed \/ UseFreed
             \/ FreeUnhandled \/ jel_free
    BY <2>1, <2>9 DEF SourceUnhandled, SourceMixed, SourceDestroyed, UseFreed,
                      FreeUnhandled, jel_free, Unhandled, Freed
  <2>10. CASE SetFpSourceFails \/ SetMemSourceFails
    BY <2>2, <2>10 DEF SetFpSourceFails, SetMemSourceFails
  <2> QED
    BY <2>3, <2>4, <2>5, <2>6, <2>7, <2>8, <2>9, <2>10 DEF Next
<1> QED
  BY <1>1, <1>2, PTL DEF Spec

-----------------------------------------------------------------------------
\* What is left to be finished was begun in a call that had set the handlers,
\* and that failed if it cannot be finished.
Handled ==
    /\ needFinish => srcErr = "dead"
    /\ needFinish /\ src # "stopping" => "coefficients" \in failed
    /\ dst # "start" => dstErr = "dead" /\ "write" \in failed

\* libjpeg never ends the process, and jumps into the frame of a call that has
\* returned only after one of the two failures (HandlersLive).
THEOREM HandlersAlwaysLive == Spec => []HandlersLive
<1>1. Init => HandlersLive /\ Handled
  BY DEF Init, Blank, HandlersLive, Handled
<1>2. ASSUME HandlersLive, Handled, [Next]_vars
      PROVE  HandlersLive' /\ Handled'
  <2> USE <1>2
  <2>1. ASSUME NEW how, Ends(how), how # "exit",
               how = "dead handler" => failed \cap {"coefficients", "write"} # {}
        PROVE  HandlersLive' /\ Handled'
    BY <2>1, EndsBlank DEF HandlersLive, Handled
  <2>2. CASE SourceUnhandled
    <3>1. CASE CannotFinish /\ Unhandled(srcErr)
      BY <2>1, <3>1 DEF CannotFinish, Unhandled, Handled
    <3>2. CASE dst # "start" /\ Unhandled(dstErr)
      BY <2>1, <3>2 DEF Unhandled, Handled
    <3> QED
      BY <2>2, <3>1, <3>2 DEF SourceUnhandled
  <2>3. CASE FreeUnhandled
    BY <2>1, <2>3 DEF FreeUnhandled, CannotFinish, Unhandled, Handled
  <2>4. CASE SourceMixed \/ SourceDestroyed \/ UseFreed \/ jel_free
    BY <2>1, <2>4 DEF SourceMixed, SourceDestroyed, UseFreed, jel_free, Freed
  <2>5. CASE SetFpSourceFails
    <3>1. PICK kind : /\ SourceFails(kind)
                      /\ needFinish' => kind = "coefficients"
      BY <2>5 DEF SetFpSourceFails
    <3> QED
      BY <3>1, SourceFailsFailed DEF HandlersLive, Handled
  <2>6. CASE SetMemSourceFails
    BY <2>6, SourceFailsFailed DEF SetMemSourceFails, HandlersLive, Handled
  <2>7. CASE SetSource
    BY <2>7 DEF SetSource, HandlersLive, Handled
  <2>8. ASSUME UNCHANGED <<src, dst, srcErr, dstErr, needFinish, failed>>,
               end' \in {end, "division", "outside"}
        PROVE  HandlersLive' /\ Handled'
    <3>1. Handled'
      BY <2>8 DEF Handled
    <3>2. HandlersLive'
      BY <2>8 DEF HandlersLive
    <3> QED
      BY <3>1, <3>2
  <2>9. CASE SetComponents \/ SetDensity \/ jel_capacity \/ EmbedOutside \/ ExtractOutside
    <3>1. UNCHANGED <<src, dst, srcErr, dstErr, needFinish, failed>>
      BY <2>9 DEF SetComponents, SetDensity, jel_capacity, EmbedOutside,
                  ExtractOutside, libjpeg
    <3>2. end' \in {end, "division", "outside"}
      BY <2>9 DEF SetComponents, SetDensity, jel_capacity, EmbedOutside, ExtractOutside
    <3> QED
      BY <2>8, <3>1, <3>2
  <2>10. CASE jel_embed
    BY <2>10, EmbeddingLeaves DEF jel_embed, HandlersLive, Handled
  <2>11. CASE EmbedWriteFails
    BY <2>11, EmbeddingLeaves DEF EmbedWriteFails, HandlersLive, Handled
  <2>12. CASE jel_extract
    BY <2>12 DEF jel_extract, Extracting, HandlersLive, Handled
  <2>13. CASE UNCHANGED vars
    BY <2>13 DEF vars, libjpeg, HandlersLive, Handled
  <2> QED
    BY <2>2, <2>3, <2>4, <2>5, <2>6, <2>7, <2>9, <2>10, <2>11, <2>12, <2>13
    DEF Next
<1>3. HandlersLive /\ Handled => HandlersLive
  OBVIOUS
<1> QED
  BY <1>1, <1>2, <1>3, PTL DEF Spec

-----------------------------------------------------------------------------
(* The values of the variables the capacities and the pieces rest on.      *)

Pieces == [own : BOOLEAN, at : Int, len : Int]

\* The image is one that was opened as long as there are coefficients of it.
SessionType ==
    /\ components \in [Chans -> -1 .. 2]
    /\ capacity \in [Chans -> Int]
    /\ pieces \in [Chans -> Pieces]
    /\ density \in Int
    /\ coefs = "held" => image \in Images

\* The capacities are those of the image, the components and the density there
\* are, if the caller has asked for them.
CurrentCapacity ==
    current => \A c \in Used : capacity[c] = Capacity(Mcus(c), density)

\* The capacity of a channel is a number, and no more than its bytes.
LEMMA CapacityNumber ==
    ASSUME NEW n \in Nat, NEW d \in Int
    PROVE  /\ Capacity(n, d) \in Int
           /\ Capacity(n, d) <= ImageBits(n) \div 8
<1> DEFINE b == ImageBits(n)
           p == d * b
<1>1. b \in Nat /\ p \in Int
    BY ChannelAssumption DEF ImageBits
<1>2. d > 0 /\ d < 100 => p <= 100 * b
  <2> HAVE d > 0 /\ d < 100
  <2>1. PICK e \in Nat : 100 = d + e
    <3>1. 100 - d \in Nat /\ 100 = d + (100 - d)
        OBVIOUS
    <3> QED
        BY <3>1
  <2>2. (d + e) * b = d * b + e * b /\ e * b \in Nat
      BY <1>1, <2>1
  <2> QED
      BY <1>1, <2>1, <2>2
<1>3. Capacity(n, d) = ((IF d > 0 /\ d < 100 THEN p \div 100 ELSE b) \div 8) - 6
    BY DEF Capacity, ImageCapacity, HeaderBits
<1> HIDE DEF p, b
<1>4. (IF d > 0 /\ d < 100 THEN p \div 100 ELSE b) \in Int
      /\ (IF d > 0 /\ d < 100 THEN p \div 100 ELSE b) <= b
    BY <1>1, <1>2
<1> DEFINE r == IF d > 0 /\ d < 100 THEN p \div 100 ELSE b
<1>5. r \in Int /\ r <= b /\ Capacity(n, d) = (r \div 8) - 6
    BY <1>3, <1>4
<1> HIDE DEF r
<1>6. Capacity(n, d) \in Int /\ Capacity(n, d) <= b \div 8
    BY <1>1, <1>5
<1> QED
    BY <1>6 DEF b

\* The MCUs of a channel in use.
LEMMA McusNumber ==
    ASSUME SessionType, coefs = "held", NEW c \in Used
    PROVE  /\ Mcus(c) \in Nat \ {0}
           /\ \E x \in Chans : Mcus(c) = image.mcus[x]
           /\ c \in Chans
<1>1. c \in Chans /\ components[c] \in Chans
    BY DEF SessionType, Used, Chans
<1>2. image.mcus \in [Chans -> Nat \ {0}]
    BY SessionAssumption DEF SessionType, Chans
<1> QED
    BY <1>1, <1>2 DEF Mcus

\* The capacities an embedding or extraction works with are numbers.
LEMMA CapacitiesNumbers ==
    ASSUME SessionType, coefs = "held"
    PROVE  /\ Capacities(density) \in [Chans -> Int]
           /\ CapacitiesOf \in [Chans -> Int]
<1>1. \A c \in Used : Capacity(Mcus(c), density) \in Int
    BY McusNumber, CapacityNumber DEF SessionType
<1>2. Capacities(density) \in [Chans -> Int]
    BY <1>1 DEF Capacities, SessionType
<1> QED
    BY <1>2 DEF CapacitiesOf, SessionType

-----------------------------------------------------------------------------
(* The pieces of a message.                                                *)

\* Conversions give numbers.
LEMMA UnsignedType ==
    ASSUME NEW x \in Int
    PROVE  /\ Unsigned(x) \in 0 .. Word - 1
           /\ Signed(x) \in Int
BY SessionAssumption DEF Unsigned, Signed

\* So do the shares, if there is anything to share in.
LEMMA ShareType ==
    ASSUME NEW cap \in [Chans -> Int], NEW c \in Chans, NEW n \in Int,
           Unsigned(Total(cap)) # 0
    PROVE  Share(cap, c, n) \in Nat
<1>1. /\ Total(cap) \in Int /\ cap[c] \in Int /\ Word \in Nat \ {0}
    BY SessionAssumption DEF Total, Chans
<1>2. Unsigned(Total(cap)) \in Nat \ {0} /\ Unsigned(cap[c]) \in Int
    BY <1>1, UnsignedType
<1> DEFINE p == Unsigned(cap[c]) * n
<1>3. p \in Int
    BY <1>2
<1>4. Unsigned(p) \in Nat
  <2> HIDE DEF p
  <2> QED
      BY <1>1, <1>3, UnsignedType
<1> QED
    BY <1>2, <1>4 DEF Share, p

\* What is cut off leaves a number.
LEMMA CutType ==
    ASSUME NEW len \in Nat, NEW cap \in [Chans -> Int]
    PROVE  Cut(len, cap) \in Nat /\ Cut(len, cap) <= len
<1>1. Total(cap) \in Int
    BY DEF Total, Chans
<1>2. Unsigned(Total(cap)) \in Nat
    BY <1>1, UnsignedType, SessionAssumption
<1> QED
    BY <1>2 DEF Cut

\* The pieces of a message are pieces.
LEMMA SetMessageType ==
    ASSUME NEW len \in Nat, NEW cap \in [Chans -> Int],
           NEW before \in [Chans -> Pieces],
           components[1] # -1 => Unsigned(Total(cap)) # 0
    PROVE  SetMessage(len, cap, before) \in [Chans -> Pieces]
<1> DEFINE n == Cut(len, cap)
           q0 == Share(cap, 0, n)
           q1 == Share(cap, 1, n)
           q2 == Share(cap, 2, n)
           sum == Unsigned(q0 + q1 + q2)
           n0 == q0 + (IF sum < n THEN n - sum ELSE 0)
           left == Unsigned(n - n0 - q1)
           old == [c \in Chans |-> [before[c] EXCEPT !.own = FALSE]]
           piece(at, m) == [own |-> TRUE, at |-> Signed(at), len |-> Signed(m)]
<1>1. SetMessage(len, cap, before) =
        IF components[1] = -1
          THEN [old EXCEPT ![0] = piece(0, n)]
          ELSE [old EXCEPT ![0] = piece(0, n0), ![1] = piece(n0, q1),
                           ![2] = IF left > 0 THEN piece(n0 + q1, left) ELSE @]
    BY DEF SetMessage
<1>2. n \in Nat
    BY CutType
<1>3. old \in [Chans -> Pieces]
    BY DEF Pieces
<1>4. \A at, m \in Int : piece(at, m) \in Pieces
    BY UnsignedType DEF Pieces
<1>5. components[1] # -1 => q0 \in Nat /\ q1 \in Nat /\ q2 \in Nat
    BY <1>2, ShareType DEF Chans
<1> HIDE DEF n, q0, q1, q2, old
<1>6. components[1] # -1 => sum \in Int /\ n0 \in Int /\ left \in Int
  <2> HAVE components[1] # -1
  <2>1. sum \in Int
      BY <1>5, UnsignedType, SessionAssumption
  <2> HIDE DEF sum
  <2>2. n0 \in Int
      BY <1>2, <1>5, <2>1
  <2> HIDE DEF n0
  <2>3. n - n0 - q1 \in Int
      BY <1>2, <1>5, <2>2
  <2>4. left \in Int
      BY <2>3, UnsignedType, SessionAssumption
  <2> QED
      BY <2>1, <2>2, <2>4
<1> HIDE DEF sum, n0, left
<1>7. CASE components[1] = -1
  <2>1. piece(0, n) \in Pieces
      BY <1>2, <1>4
  <2> HIDE DEF piece
  <2> QED
      BY <1>1, <1>3, <1>7, <2>1
<1>8. CASE components[1] # -1
  <2>1. /\ piece(0, n0) \in Pieces /\ piece(n0, q1) \in Pieces
        /\ piece(n0 + q1, left) \in Pieces
    <3>1. n0 + q1 \in Int
        BY <1>5, <1>6, <1>8
    <3> QED
        BY <1>4, <1>5, <1>6, <1>8, <3>1
  <2> HIDE DEF piece
  <2> QED
      BY <1>1, <1>3, <1>8, <2>1
<1> QED
    BY <1>7, <1>8

\* A piece of an earlier call.
Disowned(piece) == [piece EXCEPT !.own = FALSE]

\* What the pieces were before shows only where they are not written.
LEMMA SetMessageFrom ==
    ASSUME NEW len, NEW cap, NEW before, NEW other, NEW c \in Chans
    PROVE  \/ SetMessage(len, cap, before)[c] = SetMessage(len, cap, other)[c]
           \/ /\ SetMessage(len, cap, before)[c] = Disowned(before[c])
              /\ SetMessage(len, cap, other)[c] = Disowned(other[c])
<1> DEFINE n == Cut(len, cap)
           q0 == Share(cap, 0, n)
           q1 == Share(cap, 1, n)
           q2 == Share(cap, 2, n)
           sum == Unsigned(q0 + q1 + q2)
           n0 == q0 + (IF sum < n THEN n - sum ELSE 0)
           left == Unsigned(n - n0 - q1)
           old(b) == [x \in Chans |-> [b[x] EXCEPT !.own = FALSE]]
           piece(at, m) == [own |-> TRUE, at |-> Signed(at), len |-> Signed(m)]
           a0 == piece(0, n)
           b0 == piece(0, n0)
           b1 == piece(n0, q1)
           b2 == piece(n0 + q1, left)
<1>1. \A b : SetMessage(len, cap, b) =
        IF components[1] = -1
          THEN [old(b) EXCEPT ![0] = a0]
          ELSE [old(b) EXCEPT ![0] = b0, ![1] = b1,
                              ![2] = IF left > 0 THEN b2 ELSE @]
    BY DEF SetMessage
<1> HIDE DEF left, a0, b0, b1, b2
<1>2. \A b : SetMessage(len, cap, b)[c] =
        IF components[1] = -1
          THEN IF c = 0 THEN a0 ELSE [b[c] EXCEPT !.own = FALSE]
          ELSE CASE c = 0 -> b0
                 [] c = 1 -> b1
                 [] c = 2 -> IF left > 0 THEN b2
                                         ELSE [b[c] EXCEPT !.own = FALSE]
  <2> TAKE b
  <2> DEFINE f == old(b)
  <2>1. DOMAIN f = Chans /\ f[c] = [b[c] EXCEPT !.own = FALSE]
      OBVIOUS
  <2>2. SetMessage(len, cap, b) =
          IF components[1] = -1
            THEN [f EXCEPT ![0] = a0]
            ELSE [f EXCEPT ![0] = b0, ![1] = b1,
                           ![2] = IF left > 0 THEN b2 ELSE @]
      BY <1>1
  <2> HIDE DEF f
  <2>3. c \in {0, 1, 2} /\ Chans = {0, 1, 2}
      BY DEF Chans
  <2> QED
      BY <2>1, <2>2, <2>3
<1>3. c \in {0, 1, 2}
    BY DEF Chans
<1> QED
    BY <1>2, <1>3 DEF Disowned

-----------------------------------------------------------------------------
(* What each call leaves behind.                                           *)

\* A channel leaves a density to the next.
LEMMA StuffDensityType ==
    ASSUME SessionType, coefs = "held", NEW ps \in [Chans -> Pieces],
           NEW c \in Chans, NEW d \in Int
    PROVE  StuffDensity(ps, c, d) \in Int
<1>1. CASE c \in Used
  <2> DEFINE b == ImageBits(Mcus(c))
             e == 100 * StreamBits(ps[c].len) + b - 1
  <2>1. Mcus(c) \in Nat \ {0} /\ McuBits \in Nat \ {0} /\ ps[c].len \in Int
      BY <1>1, McusNumber, ChannelAssumption DEF Pieces
  <2>2. \A u, v \in Nat \ {0} : u * v \in Nat \ {0}
    <3> TAKE u, v \in Nat \ {0}
    <3>1. PICK w \in Nat : u = w + 1
      <4>1. u - 1 \in Nat /\ u = (u - 1) + 1
          OBVIOUS
      <4> QED
          BY <4>1
    <3>2. (w + 1) * v = w * v + v /\ w * v \in Nat
        BY <3>1
    <3> QED
        BY <3>1, <3>2
  <2>3. b \in Nat \ {0}
      BY <2>1, <2>2 DEF ImageBits
  <2> HIDE DEF b
  <2>4. e \in Int
      BY <2>1, <2>3 DEF StreamBits, HeaderBits
  <2> HIDE DEF e
  <2>5. e \div b \in Int
      BY <2>3, <2>4
  <2>6. StreamDensity(Mcus(c), d, ps[c].len) \in Int
      BY <2>5 DEF StreamDensity, e, b
  <2> QED
      BY <2>6 DEF StuffDensity
<1>2. CASE c \notin Used
    BY <1>2 DEF StuffDensity
<1> QED
    BY <1>1, <1>2

\* The end of a configuration.
LEMMA EndsFresh ==
    ASSUME NEW how, Ends(how)
    PROVE  SessionType' /\ ~ current' /\ did' = NoCall
<1>1. Blank.components \in [Chans -> -1 .. 2]
    BY DEF Blank, Chans
<1>2. Blank.capacity \in [Chans -> Int] /\ Blank.pieces \in [Chans -> Pieces]
    BY DEF Blank, NoPiece, Pieces
<1>3. Blank.density \in Int /\ Blank.coefs = "none"
    BY DEF Blank, Unspecified
<1> QED
    BY <1>1, <1>2, <1>3 DEF Ends, SessionType

\* A source is opened, or cannot be.
LEMMA SourceFresh ==
    ASSUME SessionType, SetFpSourceFails \/ SetMemSourceFails \/ SetSource
    PROVE  SessionType' /\ ~ current' /\ did' = NoCall
<1>1. /\ UNCHANGED <<components, density, capacity, pieces>>
      /\ did' = NoCall /\ current' = FALSE
      /\ image' \in Images
    BY DEF SetFpSourceFails, SetMemSourceFails, SetSource, SourceFails,
           OpenFile, settings
<1> QED
    BY <1>1 DEF SessionType

\* The calls that set or ask for something.
LEMMA SettingFresh ==
    ASSUME SessionType, SetComponents \/ SetDensity \/ jel_capacity
    PROVE  SessionType' /\ CurrentCapacity' /\ did' = NoCall
<1>1. CASE SetComponents
  <2>1. /\ UNCHANGED <<density, capacity, pieces, coefs, image>>
        /\ did' = NoCall /\ ~ current'
      BY <1>1 DEF SetComponents, libjpeg
  <2>2. components' \in [Chans -> -1 .. 2]
    <3>1. PICK u \in Components :
            components' =
              [u EXCEPT ![1] = IF u[1] = u[0] THEN -1 ELSE u[1],
                        ![2] = IF u[2] \in {u[0], u[1]} THEN -1 ELSE u[2]]
        BY <1>1 DEF SetComponents
    <3>2. u \in [0 .. 2 -> -1 .. 2]
        BY SessionAssumption
    <3> QED
        BY <3>1, <3>2 DEF Chans
  <2> QED
      BY <2>1, <2>2 DEF SessionType, CurrentCapacity
<1>2. CASE SetDensity
  <2>1. /\ UNCHANGED <<components, capacity, pieces, coefs, image>>
        /\ did' = NoCall /\ ~ current'
        /\ density' \in Densities \cup {Unspecified}
      BY <1>2 DEF SetDensity, libjpeg
  <2> QED
      BY <2>1, SessionAssumption
      DEF SessionType, CurrentCapacity, Unspecified
<1>3. CASE jel_capacity
  <2>1. /\ UNCHANGED <<components, density, pieces, coefs, image>>
        /\ did' = NoCall /\ current' = (coefs = "held")
        /\ capacity' = IF coefs = "held" THEN Capacities(density) ELSE capacity
      BY <1>3 DEF jel_capacity, libjpeg, settings
  <2>2. SessionType'
      BY <2>1, CapacitiesNumbers DEF SessionType
  <2>3. ASSUME current' PROVE \A c \in Used : capacity'[c] = Capacity(Mcus(c), density)
      BY <2>1, <2>3 DEF Capacities, Used
  <2>4. Used' = Used /\ \A c : Mcus(c)' = Mcus(c)
      BY <2>1 DEF Used, Mcus
  <2>5. CurrentCapacity'
      BY <2>1, <2>3, <2>4 DEF CurrentCapacity, Capacity, ImageCapacity, ImageBits
  <2> QED
      BY <2>1, <2>2, <2>5
<1> QED
    BY <1>1, <1>2, <1>3

\* Embedding.
LEMMA EmbeddingType ==
    ASSUME SessionType, NEW len \in Nat, NEW written, Embedding(len, written),
           coefs' = "held" => coefs = "held"
    PROVE  SessionType' /\ ~ current'
<1> DEFINE ps == SetMessage(len, CapacitiesOf, pieces)
<1>1. /\ coefs = "held" /\ ~ Divides
      /\ UNCHANGED <<components, image>>
      /\ capacity' = CapacitiesOf
      /\ pieces' = ps
      /\ density' = Stuffing(ps, density).density
      /\ current' = FALSE
    BY DEF Embedding
<1>2. CapacitiesOf \in [Chans -> Int]
    BY <1>1, CapacitiesNumbers
<1>3. ps \in [Chans -> Pieces]
    BY <1>1, <1>2, SetMessageType DEF SessionType, Divides
<1> HIDE DEF ps
<1>4. density' \in Int
  <2> DEFINE d1 == StuffDensity(ps, 0, density)
             d2 == StuffDensity(ps, 1, d1)
             d3 == StuffDensity(ps, 2, d2)
  <2>1. d1 \in Int
      BY <1>1, <1>3, StuffDensityType DEF SessionType, Chans
  <2> HIDE DEF d1
  <2>2. d2 \in Int
      BY <1>1, <1>3, <2>1, StuffDensityType DEF Chans
  <2> HIDE DEF d2
  <2>3. d3 \in Int
      BY <1>1, <1>3, <2>2, StuffDensityType DEF Chans
  <2> QED
      BY <1>1, <2>3 DEF Stuffing, d1, d2
<1> QED
    BY <1>1, <1>2, <1>3, <1>4 DEF SessionType

\* Extracting.
LEMMA ExtractingType ==
    ASSUME SessionType, Extracting
    PROVE  SessionType' /\ ~ current'
<1> DEFINE cap == CapacitiesOf
<1>1. coefs = "held" /\ cap \in [Chans -> Int]
    BY CapacitiesNumbers DEF Extracting
<1> HIDE DEF cap
<1>2. \A c \in Chans : Room(cap, c) \in Pieces
    BY <1>1 DEF Room, Pieces, Chans
<1>3. /\ UNCHANGED <<components, image>>
      /\ capacity' = cap /\ current' = FALSE /\ coefs' = "freed"
    BY DEF Extracting, cap
<1>4. PICK found \in SUBSET Used :
        /\ pieces' = [c \in Chans |->
             IF c \in found THEN [Room(cap, c) EXCEPT !.len = Lesser(@, 1)]
                            ELSE Room(cap, c)]
        /\ density' \in IF found = {} THEN {density} ELSE Densities
    BY DEF Extracting, cap
<1>5. pieces' \in [Chans -> Pieces]
    BY <1>2, <1>4 DEF Pieces, Lesser
<1>6. density' \in Int
    BY <1>4, SessionAssumption DEF SessionType
<1> QED
    BY <1>1, <1>3, <1>5, <1>6 DEF SessionType

-----------------------------------------------------------------------------
(* A call that owes nothing to those before it.                            *)

\* A caller who has asked for the capacities has those of a fresh
\* configuration.
LEMMA CarefulCapacities ==
    ASSUME SessionType, CurrentCapacity, Careful
    PROVE  CapacitiesOf = [c \in Chans |-> IF c \in Used
                             THEN Capacity(Mcus(c), density) ELSE 0]
<1> DEFINE fresh == [c \in Chans |-> IF c \in Used
                       THEN Capacity(Mcus(c), density) ELSE 0]
<1>1. \A c \in Chans : capacity[c] = fresh[c]
    BY DEF Careful, CurrentCapacity
<1>2. capacity = fresh
    BY <1>1 DEF SessionType
<1>3. Capacities(density) = fresh
    BY DEF Capacities, Careful
<1> QED
    BY <1>2, <1>3 DEF CapacitiesOf

\* The channels look at nothing of the pieces but the lengths.
LEMMA StuffingLens ==
    ASSUME NEW ps, NEW qs, NEW d, \A c \in Used : ps[c].len = qs[c].len
    PROVE  Stuffing(ps, d) = Stuffing(qs, d)
<1>1. \A c, e : StuffDensity(ps, c, e) = StuffDensity(qs, c, e)
    BY DEF StuffDensity
<1>2. \A c, e : StuffResult(ps, c, e) = StuffResult(qs, c, e)
    BY DEF StuffResult
<1> QED
    BY <1>1, <1>2 DEF Stuffing

\* They look at the same components of the same image.
LEMMA StuffingFrame ==
    ASSUME UNCHANGED <<components, image>>
    PROVE  Stuffing(FreshPieces, did.density)' =
              Stuffing(FreshPieces', did'.density)
<1> DEFINE fp == FreshPieces
           d0 == did.density
           d1 == StuffDensity(fp, 0, d0)
           d2 == StuffDensity(fp, 1, d1)
           d3 == StuffDensity(fp, 2, d2)
           r0 == StuffResult(fp, 0, d0)
           r1 == StuffResult(fp, 1, d1)
           r2 == StuffResult(fp, 2, d2)
<1>1. Stuffing(fp, d0)' = Stuffing(fp', d0')
  <2> HIDE DEF fp, d0
  <2>2. d1' = StuffDensity(fp', 0, d0') /\ r0' = StuffResult(fp', 0, d0')
      BY DEF StuffDensity, StuffResult, Used, Mcus
  <2> HIDE DEF d1, r0
  <2>3. d2' = StuffDensity(fp', 1, d1') /\ r1' = StuffResult(fp', 1, d1')
      BY DEF StuffDensity, StuffResult, Used, Mcus
  <2> HIDE DEF d2, r1
  <2>4. d3' = StuffDensity(fp', 2, d2') /\ r2' = StuffResult(fp', 2, d2')
      BY DEF StuffDensity, StuffResult, Used, Mcus
  <2> HIDE DEF d3, r2
  <2>5. Stuffing(fp', d0') =
          [density |-> d3', results |-> <<r0', r1', r2'>>]
      BY <2>2, <2>3, <2>4 DEF Stuffing
  <2>6. Stuffing(fp, d0)' = [density |-> d3', results |-> <<r0', r1', r2'>>]
      BY DEF Stuffing, d1, d2, d3, r0, r1, r2
  <2> QED
      BY <2>5, <2>6
<1> QED
    BY <1>1

\* A fresh configuration makes the same pieces.
LEMMA PiecesFrame ==
    ASSUME UNCHANGED components
    PROVE  FreshPieces' =
             IF did'.call = "extract"
               THEN [c \in Chans |-> Room(FreshCapacity', c)]
               ELSE SetMessage(did'.len, FreshCapacity',
                               [c \in Chans |-> NoPiece])
<1> DEFINE cap == FreshCapacity
           len == did.len
           none == [c \in Chans |-> NoPiece]
<1>1. none' = none
    BY DEF NoPiece
<1> HIDE DEF cap, len, none
<1>2. SetMessage(len, cap, none)' = SetMessage(len', cap', none)
    BY <1>1 DEF SetMessage
<1>3. [c \in Chans |-> Room(cap, c)]' = [c \in Chans |-> Room(cap', c)]
    BY DEF Room
<1>4. FreshPieces' = IF did'.call = "extract"
                       THEN [c \in Chans |-> Room(cap, c)]'
                       ELSE SetMessage(len, cap, none)'
    BY DEF FreshPieces, cap, len, none
<1> QED
    BY <1>2, <1>3, <1>4 DEF cap, len, none

\* What a fresh configuration does with a call is known when it is made.
LEMMA FreshFrame ==
    ASSUME UNCHANGED <<components, image>>, did'.density = density,
           NEW fresh, fresh = [c \in Chans |-> IF c \in Used
                                THEN Capacity(Mcus(c), density) ELSE 0]
    PROVE  /\ FreshCapacity' = fresh
           /\ did'.call = "embed" =>
                FreshPieces' = SetMessage(did'.len, fresh,
                                          [c \in Chans |-> NoPiece])
           /\ did'.call = "extract" =>
                FreshPieces' = [c \in Chans |-> Room(fresh, c)]
           /\ Stuffing(FreshPieces, did.density)' =
                Stuffing(FreshPieces', density)
<1>1. FreshCapacity' = fresh
    BY DEF FreshCapacity, Capacity, ImageCapacity, ImageBits, Mcus, Used
<1> QED
    BY <1>1, PiecesFrame, StuffingFrame

\* An embedding is as a fresh configuration does it.
LEMMA EmbeddingFresh ==
    ASSUME SessionType, CurrentCapacity, NEW len \in Nat,
           NEW written \in BOOLEAN, Embedding(len, written)
    PROVE  AsFresh'
<1> DEFINE ps == SetMessage(len, CapacitiesOf, pieces)
           fresh == [c \in Chans |-> IF c \in Used
                       THEN Capacity(Mcus(c), density) ELSE 0]
           none == [c \in Chans |-> NoPiece]
           qs == SetMessage(len, fresh, none)
<1>1. /\ coefs = "held" /\ ~ Divides
      /\ UNCHANGED <<components, image>>
      /\ pieces' = ps
      /\ did' = [call |-> "embed", len |-> len,
                 ret |-> IF written THEN Returned(Stuffing(ps, density).results)
                                    ELSE JEL_ERR_JPEG,
                 density |-> density, careful |-> Careful /\ NothingLeft(ps)]
    BY DEF Embedding
<1>2. did'.call = "embed" /\ did'.density = density /\ did'.len = len
      /\ did'.careful = (Careful /\ NothingLeft(ps))
    BY <1>1
<1> SUFFICES ASSUME Careful, NothingLeft(ps)
             PROVE  /\ \A c \in Used' : Bytes(pieces'[c]) = Bytes(FreshPieces'[c])
                    /\ did'.ret \in
                         {Returned(Stuffing(FreshPieces, did.density)'.results),
                          JEL_ERR_JPEG}
    BY <1>2 DEF AsFresh, Bytes, Returned
<1>3. CapacitiesOf = fresh
    BY CarefulCapacities
<1>4. FreshPieces' = qs
      /\ Stuffing(FreshPieces, did.density)' = Stuffing(FreshPieces', density)
    BY <1>1, <1>2, FreshFrame
<1>5. none \in [Chans -> Pieces]
    BY DEF NoPiece, Pieces
<1> HIDE DEF fresh, none
<1>6. ps \in [Chans -> Pieces]
    BY <1>1, CapacitiesNumbers, SetMessageType DEF SessionType, Divides
<1>7. Used' = Used /\ Used \subseteq Chans
    BY <1>1 DEF Used
<1>8. ASSUME NEW c \in Used
      PROVE  Bytes(ps[c]) = Bytes(qs[c]) /\ ps[c].len = qs[c].len
  <2>1. \/ ps[c] = qs[c]
        \/ ps[c] = Disowned(pieces[c]) /\ qs[c] = Disowned(none[c])
      BY <1>3, <1>7, SetMessageFrom
  <2> HIDE DEF ps, qs
  <2>2. CASE ps[c] = qs[c]
      BY <2>2
  <2>3. CASE ps[c] = Disowned(pieces[c]) /\ qs[c] = Disowned(none[c])
    <3>1. c \in Chans /\ pieces[c] \in Pieces
        BY <1>7 DEF SessionType
    <3>2. ps[c].own = FALSE
        BY <2>3, <3>1 DEF Pieces, Disowned
    <3>3. ps[c].len = 0
        BY <3>2 DEF NothingLeft
    <3>4. ps[c].at \in Int
        BY <1>6, <3>1 DEF Pieces
    <3>5. qs[c].at = 0 /\ qs[c].len = 0
        BY <2>3, <3>1 DEF NoPiece, none, Disowned
    <3> QED
        BY <3>3, <3>4, <3>5 DEF Bytes
  <2> QED
      BY <2>1, <2>2, <2>3
<1> HIDE DEF ps, qs
<1>9. Stuffing(ps, density) = Stuffing(qs, density)
    BY <1>8, StuffingLens
<1>10. did'.ret \in {Returned(Stuffing(ps, density).results), JEL_ERR_JPEG}
    BY <1>1
<1> QED
    BY <1>1, <1>4, <1>7, <1>8, <1>9, <1>10

\* An extraction too.
LEMMA ExtractingFresh ==
    ASSUME SessionType, CurrentCapacity, Extracting
    PROVE  AsFresh'
<1> DEFINE cap == CapacitiesOf
           fresh == [c \in Chans |-> IF c \in Used
                       THEN Capacity(Mcus(c), density) ELSE 0]
<1>1. /\ UNCHANGED <<components, image>>
      /\ did' = [call |-> "extract", rooms |-> [c \in Used |-> Room(cap, c)],
                 density |-> density, careful |-> Careful]
    BY DEF Extracting
<1>2. did'.call = "extract" /\ did'.density = density
      /\ did'.careful = Careful
      /\ did'.rooms = [c \in Used |-> Room(cap, c)]
    BY <1>1
<1> SUFFICES ASSUME Careful
             PROVE  \A c \in Used' : did'.rooms[c] = FreshPieces'[c]
    BY <1>2 DEF AsFresh
<1>3. cap = fresh
    BY CarefulCapacities
<1>4. FreshPieces' = [c \in Chans |-> Room(fresh, c)]
    BY <1>1, <1>2, FreshFrame
<1>5. Used' = Used /\ Used \subseteq Chans
    BY <1>1 DEF Used
<1> HIDE DEF cap, fresh
<1> QED
    BY <1>2, <1>3, <1>4, <1>5

\* What a call that is no embedding or extraction forgets, or leaves alone.
LEMMA AsFreshForgets == did' = NoCall => AsFresh'
BY DEF AsFresh, NoCall

\* What AsFresh depends on.
LEMMA AsFreshFrame ==
    ASSUME AsFresh, UNCHANGED <<did, pieces, components, image>>
    PROVE  AsFresh'
<1>1. FreshCapacity' = FreshCapacity
    BY DEF FreshCapacity, Capacity, ImageCapacity, ImageBits, Mcus, Used
<1>2. FreshPieces' = FreshPieces
    BY <1>1, PiecesFrame DEF FreshPieces
<1>3. Stuffing(FreshPieces, did.density)' = Stuffing(FreshPieces, did.density)
    BY <1>2, StuffingFrame
<1>4. Used' = Used
    BY DEF Used
<1> QED
    BY <1>2, <1>3, <1>4 DEF AsFresh, Bytes, Returned

FreshInv == SessionType /\ CurrentCapacity /\ AsFresh

\* Every call keeps what makes the next one as good as one to a fresh
\* configuration.
LEMMA FreshNext == FreshInv /\ [Next]_vars => FreshInv'
<1> SUFFICES ASSUME FreshInv, [Next]_vars PROVE FreshInv'
    OBVIOUS
<1> USE DEF FreshInv
<1>1. CASE \E how : Ends(how)
    BY <1>1, EndsFresh, AsFreshForgets DEF CurrentCapacity
<1>2. CASE SourceUnhandled \/ SourceMixed \/ SourceDestroyed \/ UseFreed
           \/ FreeUnhandled \/ jel_free
    BY <1>1, <1>2
    DEF SourceUnhandled, SourceMixed, SourceDestroyed, UseFreed,
        FreeUnhandled, jel_free, Unhandled, Freed
<1>3. CASE SetFpSourceFails \/ SetMemSourceFails \/ SetSource
    BY <1>3, SourceFresh, AsFreshForgets DEF CurrentCapacity
<1>4. CASE SetComponents \/ SetDensity \/ jel_capacity
    BY <1>4, SettingFresh, AsFreshForgets
<1>5. CASE EmbedOutside \/ ExtractOutside \/ UNCHANGED vars
  <2>1. UNCHANGED <<did, pieces, components, image, density, capacity, coefs,
                    current>>
      BY <1>5 DEF EmbedOutside, ExtractOutside, vars, libjpeg, settings
  <2>2. SessionType'
      BY <2>1 DEF SessionType
  <2>3. CurrentCapacity'
      BY <2>1 DEF CurrentCapacity, Used, Mcus, Capacity, ImageCapacity,
                  ImageBits
  <2> QED
      BY <2>1, <2>2, <2>3, AsFreshFrame
<1>6. CASE jel_embed \/ EmbedWriteFails
  <2>1. PICK len \in Lens, written \in BOOLEAN : Embedding(len, written)
      BY <1>6 DEF jel_embed, EmbedWriteFails
  <2>2. len \in Nat
      BY SessionAssumption
  <2>3. coefs' = "held" => coefs = "held"
      BY <1>6 DEF jel_embed, EmbedWriteFails
  <2> QED
      BY <2>1, <2>2, <2>3, EmbeddingType, EmbeddingFresh DEF CurrentCapacity
<1>7. CASE jel_extract
    BY <1>7, ExtractingType, ExtractingFresh DEF jel_extract, CurrentCapacity
<1> QED
    BY <1>2, <1>3, <1>4, <1>5, <1>6, <1>7 DEF Next

\* A new configuration is a fresh one.
LEMMA FreshInit == Init => FreshInv
<1> SUFFICES ASSUME Init PROVE FreshInv
    OBVIOUS
<1>1. Blank.components \in [Chans -> -1 .. 2]
    BY DEF Blank, Chans
<1>2. Blank.capacity \in [Chans -> Int] /\ Blank.pieces \in [Chans -> Pieces]
    BY DEF Blank, NoPiece, Pieces
<1>3. Blank.density \in Int /\ Blank.coefs = "none"
    BY DEF Blank, Unspecified
<1>4. SessionType
    BY <1>1, <1>2, <1>3 DEF Init, SessionType
<1>5. CurrentCapacity /\ AsFresh
    BY DEF Init, CurrentCapacity, AsFresh, NoCall
<1> QED
    BY <1>4, <1>5 DEF FreshInv

\* A configuration that has been used is as good as a fresh one to a careful
\* caller, whatever the images, the messages, and the calls before (AsFresh).
THEOREM AlwaysAsFresh == Spec => []AsFresh
<1>1. FreshInv => AsFresh
    BY DEF FreshInv
<1> QED
    BY <1>1, FreshInit, FreshNext, PTL DEF Spec

-----------------------------------------------------------------------------
(* The pieces are inside.                                                  *)

\* The bytes of three components of any image can be counted in an int.
CountsBytes ==
    \E b \in Nat :
        /\ 3 * b < Word \div 2
        /\ \A i \in Images, x \in Chans : ImageBits(i.mcus[x]) \div 8 <= b

\* No capacity is more than b.
AtMost(b) == \A c \in Chans : capacity[c] <= b

\* The shares of a number do not add up to more than that number, even if
\* the products wrap around.
LEMMA SharesFit ==
    ASSUME NEW cap \in [Chans -> Nat], NEW n \in Nat,
           Total(cap) > 0, Total(cap) < Word
    PROVE  /\ Share(cap, 0, n) \in Nat
           /\ Share(cap, 1, n) \in Nat
           /\ Share(cap, 2, n) \in Nat
           /\ Share(cap, 0, n) + Share(cap, 1, n) + Share(cap, 2, n) <= n
<1> DEFINE t == Total(cap)
           p(c) == cap[c] * n
           u(c) == Unsigned(p(c))
           q(c) == u(c) \div t
<1>1. /\ Word \in Nat \ {0} /\ t \in Nat \ {0} /\ t < Word
      /\ 0 \in Chans /\ 1 \in Chans /\ 2 \in Chans
      /\ t = cap[0] + cap[1] + cap[2]
    BY SessionAssumption DEF Total, Chans
<1>2. \A x \in Nat : x < Word => Unsigned(x) = x
  <2> TAKE x \in Nat
  <2> HAVE x < Word
  <2>1. x = Word * (x \div Word) + (x % Word) /\ x \div Word = 0
      BY <1>1
  <2> QED
      BY <1>1, <2>1 DEF Unsigned
<1>3. \A x \in Nat : Unsigned(x) \in Nat /\ Unsigned(x) <= x
    BY <1>1 DEF Unsigned
<1>4. ASSUME NEW c \in Chans
      PROVE  Share(cap, c, n) = q(c) /\ q(c) \in Nat /\ t * q(c) <= cap[c] * n
  <2>1. cap[c] \in Nat /\ cap[c] < Word
      BY <1>1 DEF Chans
  <2>2. Unsigned(cap[c]) = cap[c] /\ Unsigned(t) = t
      BY <1>1, <1>2, <2>1
  <2>3. p(c) \in Nat
      BY <2>1
  <2>4. Share(cap, c, n) = q(c)
      BY <2>2 DEF Share
  <2> DEFINE pc == p(c)
             uc == u(c)
  <2>5. uc \in Nat /\ uc <= pc
    <3> HIDE DEF pc
    <3>1. pc \in Nat
        BY <2>3 DEF pc
    <3>2. uc = Unsigned(pc)
        BY DEF pc
    <3> HIDE DEF uc
    <3> QED
        BY <1>3, <3>1, <3>2
  <2> HIDE DEF uc, pc
  <2>6. uc \div t \in Nat /\ t * (uc \div t) <= uc
      BY <1>1, <2>5
  <2>7. q(c) = uc \div t
      BY DEF uc
  <2> HIDE DEF q
  <2>8. t * q(c) \in Nat /\ q(c) \in Nat
      BY <1>1, <2>6, <2>7
  <2>9. t * q(c) <= uc
      BY <2>6, <2>7
  <2>10. t * q(c) <= pc
      BY <2>3, <2>5, <2>8, <2>9 DEF pc
  <2> QED
      BY <2>4, <2>8, <2>10 DEF pc
<1> DEFINE q0 == q(0)
           q1 == q(1)
           q2 == q(2)
           s == q0 + q1 + q2
           p0 == cap[0] * n
           p1 == cap[1] * n
           p2 == cap[2] * n
<1>5. /\ q0 \in Nat /\ t * q0 <= p0
      /\ q1 \in Nat /\ t * q1 <= p1
      /\ q2 \in Nat /\ t * q2 <= p2
    BY <1>1, <1>4
<1>6. Share(cap, 0, n) = q0 /\ Share(cap, 1, n) = q1 /\ Share(cap, 2, n) = q2
    BY <1>1, <1>4
<1>7. /\ p0 \in Nat /\ p1 \in Nat /\ p2 \in Nat
      /\ t * n = p0 + p1 + p2
    BY <1>1
<1> HIDE DEF q0, q1, q2, p0, p1, p2, t
<1>8. s \in Nat /\ t * s = t * q0 + t * q1 + t * q2
    BY <1>1, <1>5
<1>9. t * s <= t * n
  <2>1. t * q0 \in Nat /\ t * q1 \in Nat /\ t * q2 \in Nat
      BY <1>1, <1>5
  <2> QED
      BY <1>5, <1>7, <1>8, <2>1
<1>10. s <= n
  <2> SUFFICES ASSUME s > n PROVE FALSE
      BY <1>8
  <2> HIDE DEF s
  <2>1. PICK d \in Nat : s = n + 1 + d
    <3>1. s - n - 1 \in Nat /\ s = n + 1 + (s - n - 1)
        BY <1>8
    <3> QED
        BY <3>1
  <2>2. t * s = t * n + t + t * d /\ t * d \in Nat /\ t * n \in Nat
      BY <1>1, <2>1
  <2> QED
      BY <1>1, <1>9, <2>2
<1> QED
    BY <1>5, <1>6, <1>10 DEF s

\* So no piece of a message begins or ends outside of it.
LEMMA PiecesFit ==
    ASSUME NEW cap \in [Chans -> Nat], NEW len \in Nat,
           NEW before \in [Chans -> Pieces], NEW c \in Chans,
           Total(cap) < Word \div 2,
           components[1] # -1 => Total(cap) > 0
    PROVE  ~ Outside(SetMessage(len, cap, before)[c], len)
<1> DEFINE n == Cut(len, cap)
           q0 == Share(cap, 0, n)
           q1 == Share(cap, 1, n)
           q2 == Share(cap, 2, n)
           sum == Unsigned(q0 + q1 + q2)
           n0 == q0 + (IF sum < n THEN n - sum ELSE 0)
           left == Unsigned(n - n0 - q1)
           old == [x \in Chans |-> Disowned(before[x])]
           piece(at, m) == [own |-> TRUE, at |-> Signed(at), len |-> Signed(m)]
<1>1. SetMessage(len, cap, before) =
        IF components[1] = -1
          THEN [old EXCEPT ![0] = piece(0, n)]
          ELSE [old EXCEPT ![0] = piece(0, n0), ![1] = piece(n0, q1),
                           ![2] = IF left > 0 THEN piece(n0 + q1, left) ELSE @]
    BY DEF SetMessage, Disowned
<1>2. Word \in Nat \ {0} /\ Total(cap) \in Nat /\ Chans = {0, 1, 2}
    BY SessionAssumption DEF Total, Chans
<1>3. \A x \in Nat : x < Word \div 2 => Unsigned(x) = x /\ Signed(x) = x
  <2> TAKE x \in Nat
  <2> HAVE x < Word \div 2
  <2>1. x < Word
      BY <1>2
  <2>2. x = Word * (x \div Word) + (x % Word) /\ x \div Word = 0
      BY <1>2, <2>1
  <2>3. Unsigned(x) = x
      BY <1>2, <2>2 DEF Unsigned
  <2> QED
      BY <2>3 DEF Signed
<1>4. n \in Nat /\ n <= len /\ n <= Total(cap)
  <2>1. Unsigned(Total(cap)) = Total(cap)
      BY <1>2, <1>3
  <2> QED
      BY <1>2, <2>1 DEF Cut
<1>5. DOMAIN old = Chans /\ old[c].own = FALSE
    BY DEF Pieces, Disowned
<1>6. \A at, m : piece(at, m).at = Signed(at) /\ piece(at, m).len = Signed(m)
    OBVIOUS
<1> HIDE DEF old, n
<1>7. CASE components[1] = -1
  <2>1. SetMessage(len, cap, before)[c] = IF c = 0 THEN piece(0, n) ELSE old[c]
    <3> HIDE DEF piece
    <3> QED
        BY <1>1, <1>2, <1>5, <1>7
  <2>2. Signed(0) = 0 /\ Signed(n) = n
      BY <1>2, <1>3, <1>4
  <2>3. piece(0, n).at = 0 /\ piece(0, n).len = n
      BY <1>6, <2>2
  <2> HIDE DEF piece
  <2> QED
      BY <1>4, <1>5, <2>1, <2>3 DEF Outside
<1>8. CASE components[1] # -1
  <2>1. q0 \in Nat /\ q1 \in Nat /\ q2 \in Nat /\ q0 + q1 + q2 <= n
    <3>1. Total(cap) > 0 /\ Total(cap) < Word
        BY <1>2, <1>8
    <3> QED
        BY <1>4, <3>1, SharesFit
  <2> HIDE DEF q0, q1, q2
  <2>2. sum = q0 + q1 + q2
      BY <1>2, <1>3, <1>4, <2>1
  <2>3. n0 = n - q1 - q2 /\ n0 \in Nat
      BY <1>4, <2>1, <2>2
  <2> HIDE DEF sum, n0
  <2>4. left = q2
    <3>1. n - n0 - q1 = q2 /\ q2 < Word \div 2
        BY <1>2, <1>4, <2>1, <2>3
    <3> QED
        BY <1>3, <2>1, <3>1
  <2> HIDE DEF left
  <2>5. /\ Signed(0) = 0 /\ Signed(n0) = n0 /\ Signed(q1) = q1
        /\ Signed(n0 + q1) = n0 + q1 /\ Signed(left) = q2
      BY <1>2, <1>3, <1>4, <2>1, <2>3, <2>4
  <2>6. /\ piece(0, n0).at = 0 /\ piece(0, n0).len = n0
        /\ piece(n0, q1).at = n0 /\ piece(n0, q1).len = q1
        /\ piece(n0 + q1, left).at = n0 + q1 /\ piece(n0 + q1, left).len = q2
      BY <1>6, <2>5
  <2> HIDE DEF piece
  <2>7. SetMessage(len, cap, before)[c] \in
            {piece(0, n0), piece(n0, q1), piece(n0 + q1, left), old[c]}
      BY <1>1, <1>2, <1>5, <1>8
  <2> QED
      BY <1>4, <1>5, <2>1, <2>3, <2>6, <2>7 DEF Outside
<1> QED
    BY <1>7, <1>8

\* The capacities a call works with are bounded like those there are.
LEMMA CapacitiesBound ==
    ASSUME NEW b \in Nat,
           \A i \in Images, x \in Chans : ImageBits(i.mcus[x]) \div 8 <= b,
           SessionType, coefs = "held", AtMost(b), NEW c \in Chans
    PROVE  /\ Capacities(density)[c] <= b
           /\ CapacitiesOf[c] <= b
<1>1. ASSUME c \in Used PROVE Capacity(Mcus(c), density) <= b
  <2>1. /\ Mcus(c) \in Nat /\ density \in Int /\ image \in Images
        /\ \E x \in Chans : Mcus(c) = image.mcus[x]
      BY <1>1, McusNumber DEF SessionType
  <2>2. ImageBits(Mcus(c)) \div 8 <= b
      BY <2>1
  <2>3. /\ Capacity(Mcus(c), density) \in Int
        /\ Capacity(Mcus(c), density) <= ImageBits(Mcus(c)) \div 8
      BY <2>1, CapacityNumber
  <2>4. ImageBits(Mcus(c)) \div 8 \in Int
    <3>1. ImageBits(Mcus(c)) \in Nat
        BY <2>1, ChannelAssumption DEF ImageBits
    <3> QED
        BY <3>1
  <2> QED
      BY <2>2, <2>3, <2>4
<1>2. Capacities(density)[c] <= b
    BY <1>1 DEF Capacities, AtMost
<1> QED
    BY <1>2 DEF CapacitiesOf, AtMost

\* The capacities are those of a call, or what they were.
LEMMA AtMostNext ==
    ASSUME NEW b \in Nat,
           \A i \in Images, x \in Chans : ImageBits(i.mcus[x]) \div 8 <= b,
           SessionType, AtMost(b), [Next]_vars
    PROVE  AtMost(b)'
<1>1. CASE \E how : Ends(how)
    BY <1>1 DEF Ends, Blank, AtMost
<1>2. CASE SourceUnhandled \/ SourceMixed \/ SourceDestroyed \/ UseFreed
           \/ FreeUnhandled \/ jel_free
    BY <1>1, <1>2
    DEF SourceUnhandled, SourceMixed, SourceDestroyed, UseFreed,
        FreeUnhandled, jel_free, Unhandled, Freed
<1>3. ASSUME UNCHANGED capacity PROVE AtMost(b)'
    BY <1>3 DEF AtMost
<1>4. CASE \/ SetFpSourceFails \/ SetMemSourceFails \/ SetSource
           \/ SetComponents \/ SetDensity \/ EmbedOutside \/ ExtractOutside
           \/ UNCHANGED vars
    BY <1>3, <1>4
    DEF SetFpSourceFails, SetMemSourceFails, SetSource, SourceFails,
        SetComponents, SetDensity, EmbedOutside, ExtractOutside, vars
<1>5. CASE jel_capacity
  <2>1. CASE coefs = "held"
      BY <1>5, <2>1, CapacitiesBound DEF jel_capacity, AtMost
  <2>2. CASE coefs # "held"
      BY <1>3, <1>5, <2>2 DEF jel_capacity
  <2> QED
      BY <2>1, <2>2
<1>6. CASE jel_embed \/ EmbedWriteFails \/ jel_extract
  <2>1. coefs = "held" /\ capacity' = CapacitiesOf
      BY <1>6
      DEF jel_embed, EmbedWriteFails, Embedding, jel_extract, Extracting
  <2> QED
      BY <2>1, CapacitiesBound DEF AtMost
<1> QED
    BY <1>2, <1>4, <1>5, <1>6 DEF Next

\* What PiecesInside excepts.
Excepted ==
    \/ \E c \in Used : Capacity(Mcus(c), density) < 0
    \/ \E c \in Chans : capacity[c] < 0
    \/ \E c \in Chans \ Used : capacity[c] # 0

\* Otherwise the capacities are naturals, and there are none besides those of
\* the channels in use.
LEMMA CapacitiesNat ==
    ASSUME SessionType, coefs = "held", ~ Excepted
    PROVE  /\ CapacitiesOf \in [Chans -> Nat]
           /\ \A c \in Chans \ Used : CapacitiesOf[c] = 0
<1>1. \A c \in Chans : capacity[c] \in Nat
    BY DEF SessionType, Excepted
<1>2. \A c \in Used : Capacity(Mcus(c), density) \in Nat
    BY McusNumber, CapacityNumber DEF SessionType, Excepted
<1>3. \A c \in Chans \ Used : capacity[c] = 0
    BY DEF Excepted
<1>4. Capacities(density) \in [Chans -> Nat]
    BY <1>1, <1>2 DEF Capacities
<1>5. capacity \in [Chans -> Nat]
    BY <1>1 DEF SessionType
<1>6. \A c \in Chans \ Used : Capacities(density)[c] = 0
    BY <1>3 DEF Capacities
<1> QED
    BY <1>3, <1>4, <1>5, <1>6 DEF CapacitiesOf

\* A piece is outside only in the excepted cases.
LEMMA InsideOutside ==
    ASSUME NEW b \in Nat, 3 * b < Word \div 2,
           \A i \in Images, x \in Chans : ImageBits(i.mcus[x]) \div 8 <= b,
           SessionType, AtMost(b), EmbedOutside \/ ExtractOutside,
           end' = "outside", ~ Excepted
    PROVE  FALSE
<1> DEFINE cap == CapacitiesOf
<1>1. coefs = "held"
    BY DEF EmbedOutside, ExtractOutside
<1>2. /\ cap \in [Chans -> Nat] /\ \A c \in Chans \ Used : cap[c] = 0
      /\ \A c \in Chans : cap[c] <= b
    BY <1>1, CapacitiesNat, CapacitiesBound
<1>3. 0 \in Chans /\ 1 \in Chans /\ 2 \in Chans /\ Word \in Nat \ {0}
      /\ Chans = {0, 1, 2}
    BY SessionAssumption DEF Chans
<1> HIDE DEF cap
<1>4. Total(cap) \in Nat /\ Total(cap) < Word \div 2
    BY <1>2, <1>3 DEF Total
<1>5. Used \subseteq Chans
    BY DEF Used
<1>6. CASE EmbedOutside
  <2>1. PICK len \in Lens, c \in Used :
          /\ ~ Divides
          /\ Outside(SetMessage(len, cap, pieces)[c], len)
      BY <1>6 DEF EmbedOutside, cap
  <2>2. components[1] # -1 => Total(cap) > 0
    <3>1. Unsigned(0) = 0
        BY <1>3 DEF Unsigned
    <3> QED
        BY <1>4, <2>1, <3>1 DEF Divides, cap
  <2>3. len \in Nat
      BY SessionAssumption
  <2> QED
      BY <1>2, <1>4, <1>5, <2>1, <2>2, <2>3, PiecesFit DEF SessionType
<1>7. CASE ExtractOutside
  <2>1. PICK c \in Used : Outside(Room(cap, c), BufferSize(cap))
      BY <1>7 DEF ExtractOutside, cap
  <2>2. BufferSize(cap) = cap[0] + cap[1] + cap[2]
      BY <1>2, <1>3 DEF BufferSize
  <2>3. cap[0] \in Nat /\ cap[1] \in Nat /\ cap[2] \in Nat /\ c \in {0, 1, 2}
      BY <1>2, <1>3, <1>5
  <2> QED
      BY <2>1, <2>2, <2>3 DEF Outside, Room
<1> QED
    BY <1>6, <1>7

\* Every step keeps the pieces inside.
LEMMA InsideNext ==
    ASSUME NEW b \in Nat, 3 * b < Word \div 2,
           \A i \in Images, x \in Chans : ImageBits(i.mcus[x]) \div 8 <= b,
           SessionType, AtMost(b), PiecesInside, [Next]_vars
    PROVE  PiecesInside'
<1> SUFFICES ASSUME end' = "outside" PROVE PiecesInside'
    BY DEF PiecesInside
<1>1. UNCHANGED <<components, image, density, capacity>>
      /\ (EmbedOutside \/ ExtractOutside \/ end = "outside")
  <2>1. ASSUME NEW how, Ends(how) PROVE how = "outside"
      BY <2>1, EndsBlank
  <2>2. CASE SourceUnhandled \/ SourceMixed \/ SourceDestroyed \/ UseFreed
             \/ FreeUnhandled \/ jel_free
    <3>1. ~ Ends("exit") /\ ~ Ends("dead handler") /\ ~ Ends("freed")
          /\ ~ Ends("mixed") /\ ~ Ends("released")
        BY <2>1
    <3>2. \A err : ~ Unhandled(err)
        BY <3>1 DEF Unhandled
    <3> QED
        BY <2>2, <3>1, <3>2
        DEF SourceUnhandled, SourceMixed, SourceDestroyed, UseFreed,
            FreeUnhandled, jel_free, Freed
  <2>3. CASE \/ SetFpSourceFails \/ SetMemSourceFails \/ SetSource
             \/ SetComponents \/ SetDensity \/ jel_capacity
             \/ jel_embed \/ EmbedWriteFails \/ jel_extract
      BY <2>3
      DEF SetFpSourceFails, SetMemSourceFails, SetSource, SourceFails,
          SetComponents, SetDensity, jel_capacity, jel_embed, Embedding,
          EmbedWriteFails, jel_extract, Extracting
  <2>4. CASE EmbedOutside \/ ExtractOutside
      BY <2>4 DEF EmbedOutside, ExtractOutside, settings
  <2>5. CASE UNCHANGED vars
      BY <2>5 DEF vars, settings
  <2> QED
      BY <2>2, <2>3, <2>4, <2>5 DEF Next
<1>2. Excepted
    BY <1>1, InsideOutside DEF PiecesInside, Excepted
<1>3. Excepted'
    BY <1>1, <1>2
    DEF Excepted, Used, Mcus, Capacity, ImageCapacity, ImageBits
<1> QED
    BY <1>3 DEF PiecesInside, Excepted

\* The pieces of a message are in the message and those extracted in the
\* buffer, whatever the images, the messages and the calls before, but in the
\* cases excepted, if the bytes of an image can be counted (PiecesInside).
THEOREM AlwaysInside ==
    ASSUME CountsBytes
    PROVE  Spec => []PiecesInside
<1>1. PICK b \in Nat :
        /\ 3 * b < Word \div 2
        /\ \A i \in Images, x \in Chans : ImageBits(i.mcus[x]) \div 8 <= b
    BY DEF CountsBytes
<1>2. Init => AtMost(b) /\ PiecesInside
    BY <1>1 DEF Init, Blank, AtMost, PiecesInside
<1>3. FreshInv /\ AtMost(b) /\ PiecesInside /\ [Next]_vars
        => AtMost(b)' /\ PiecesInside'
    BY <1>1, AtMostNext, InsideNext DEF FreshInv
<1> QED
    BY <1>2, <1>3, FreshInit, FreshNext, PTL DEF Spec

=============================================================================
