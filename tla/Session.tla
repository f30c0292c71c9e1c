------------------------------ MODULE Session -------------------------------
(***************************************************************************)
(* The life of one configuration: the calls of jel.c in any order a caller *)
(* may make them, over several images, with images that cannot be read and *)
(* destinations that cannot be written.  What a call leaves behind for the *)
(* next one is here: the states of the two libjpeg objects, the flag that  *)
(* the decompression must be finished, the error handlers, the             *)
(* coefficients, capacity[], data_ptr[] and data_lengths[], mcu_density.   *)
(*                                                                         *)
(* A call is one action.  There is no ECC; images have three components.   *)
(***************************************************************************)
EXTENDS Channel, FiniteSets

CONSTANTS
    Images,      \* MCUs of components 0, 1, 2, and what is wrong with the file
    Components,  \* the arguments of jel_set_components
    Densities,   \* the mcu_density a caller may set
    Lens,        \* the lengths of messages
    MaxFiles,    \* the files opened in the life of a configuration
    Word         \* the range of unsigned integers

Damages == {"none", "no image", "header", "coefficients"}

ASSUME SessionAssumption ==
    /\ Images \subseteq [mcus : [0 .. 2 -> Nat \ {0}], damage : Damages]
    /\ Components \subseteq {u \in [0 .. 2 -> -1 .. 2] : u[0] # -1}
    /\ Densities \subseteq 1 .. 100
    /\ Lens \subseteq Nat
    /\ MaxFiles \in Nat
    /\ Word \in Nat \ {0}

VARIABLES
    end,         \* "running", or how the life of the configuration ended
    src,         \* srcinfo.global_state
    dst,         \* dstinfo.global_state
    srcErr,      \* srcinfo.err: that of _jel_init, or that of a call returned
    dstErr,      \* dstinfo.err
    needFinish,  \* needFinishDecompress
    coefs,       \* cfg->coefs: NULL, or what it points to is held or freed
    manager,     \* srcinfo.src: none, or that for files or for memory
    files,       \* how many files have been opened
    image,       \* the image opened last
    components,  \* cfg->components
    capacity,    \* cfg->capacity
    pieces,      \* cfg->data_ptr and data_lengths: own, if the pointer is into
                 \* the buffer of the last call, at where, and how long
    density,     \* cfg->mcu_density
    did,         \* history: the last call, for the properties
    failed,      \* history: the ways in which calls have failed
    wanted,      \* history: the density the caller set last
    current      \* history: jel_capacity has been called for the image, the
                 \* components and the density there are

libjpeg == <<src, dst, srcErr, dstErr, needFinish, coefs>>
settings == <<components, density, wanted>>
vars == <<end, libjpeg, manager, files, image, settings, capacity, pieces, did, failed, current>>

-----------------------------------------------------------------------------
Chans == 0 .. 2
Used == {c \in Chans : components[c] # -1}
Total(f) == f[0] + f[1] + f[2]
Mcus(c) == image.mcus[components[c]]

\* Conversions between int and an unsigned integer.
Unsigned(n) == n % Word
Signed(n) == IF Unsigned(n) < Word \div 2 THEN Unsigned(n) ELSE Unsigned(n) - Word

NoCall == [call |-> "none"]
NoPiece == [own |-> FALSE, at |-> 0, len |-> 0]

\* All but the history, as _jel_init leaves it.
Blank ==
    [src |-> "start", dst |-> "start", srcErr |-> "std", dstErr |-> "std",
     needFinish |-> FALSE, coefs |-> "none",
     components |-> [c \in Chans |-> IF c = 0 THEN 0 ELSE -1],
     capacity |-> [c \in Chans |-> 0],
     pieces |-> [c \in Chans |-> NoPiece],
     density |-> Unspecified]

\* The configuration comes to its end: nothing is left to know of it.
Ends(how) ==
    /\ end' = how
    /\ src' = Blank.src
    /\ dst' = Blank.dst
    /\ srcErr' = Blank.srcErr
    /\ dstErr' = Blank.dstErr
    /\ needFinish' = Blank.needFinish
    /\ coefs' = Blank.coefs
    /\ components' = Blank.components
    /\ capacity' = Blank.capacity
    /\ pieces' = Blank.pieces
    /\ density' = Blank.density
    /\ wanted' = Unspecified
    /\ did' = NoCall
    /\ current' = FALSE
    /\ manager' = "none"
    /\ UNCHANGED <<files, image, failed>>

\* An error in libjpeg outside of a call that has set a handler: that of
\* _jel_init ends the process, one of an earlier call jumps into its frame.
Unhandled(err) == Ends(IF err = "std" THEN "exit" ELSE "dead handler")

\* Something is used that was freed, or never there.
Freed == Ends("freed")

-----------------------------------------------------------------------------
(* jel_set_fp_source and jel_set_mem_source.                               *)

\* jpeg_finish_decompress raises an error.
CannotFinish == needFinish /\ src # "stopping"

\* The state jpeg_read_header and jpeg_read_coefficients begin with.
Started == IF needFinish THEN "start" ELSE src

\* The coefficients of an image before are freed when its reading is finished.
CoefsLeft == IF needFinish /\ coefs = "held" THEN "freed" ELSE coefs

\* The state the reading of file i ends in.  A header that failed after its
\* SOI is where the next reading goes on.
Reads(i) ==
    CASE Started = "in markers" -> "in markers"
      [] Started # "in markers" /\ i.damage = "no image" -> "in header"
      [] Started # "in markers" /\ i.damage = "header" -> "in markers"
      [] Started # "in markers" /\ i.damage = "coefficients" -> "reading"
      [] Started # "in markers" /\ i.damage = "none" -> "stopping"

\* The handlers are set too late for jpeg_finish_decompress, and never for
\* dstinfo.
SourceUnhandled ==
    /\ end = "running"
    /\ src # "destroyed"
    /\ \/ CannotFinish /\ Unhandled(srcErr)
       \/ /\ \E i \in Images : Reads(i) = "stopping"
          /\ ~CannotFinish
          /\ dst # "start"
          /\ Unhandled(dstErr)

\* The data source of a file is smaller than that of memory, and laid out
\* otherwise: one that is taken for the other is overrun, or reads anywhere.
SourceMixed ==
    /\ end = "running"
    /\ src # "destroyed"
    /\ ~CannotFinish
    /\ manager # "none"
    /\ Ends("mixed")

\* A destroyed object has no memory to work with.
SourceDestroyed ==
    /\ end = "running"
    /\ src = "destroyed"
    /\ Freed

OpenFile ==
    /\ files < MaxFiles
    /\ files' = files + 1
    /\ image' \in Images

\* The first source decides on what the others must be.
Manager(kind) ==
    /\ manager \in {"none", kind}
    /\ manager' = kind

SourceFails(kind) ==
    /\ OpenFile
    /\ failed' = failed \cup {kind}
    /\ srcErr' = "dead"
    /\ did' = NoCall
    /\ current' = FALSE
    /\ UNCHANGED <<end, dst, dstErr, settings, capacity, pieces>>

\* A file that is no image leaves libjpeg where it can begin again, a header
\* that is wrong, where it cannot, and wrong coefficients leave the flag set.
SetFpSourceFails ==
    /\ end = "running"
    /\ src # "destroyed"
    /\ ~CannotFinish
    /\ Manager("file")
    /\ SourceFails(IF Reads(image') = "reading" THEN "coefficients" ELSE "header")
    /\ Reads(image') # "stopping"
    /\ src' = Reads(image')
    /\ needFinish' = (Reads(image') = "reading")
    /\ coefs' = CoefsLeft

\* Mutant: the flag is left set.
SetMemSourceFailsFlag ==
    /\ end = "running"
    /\ src # "destroyed"
    /\ SourceFails("memory")
    /\ \/ CannotFinish /\ UNCHANGED manager
       \/ ~CannotFinish /\ Reads(image') # "stopping" /\ Manager("memory")
    /\ src' = "destroyed"
    /\ needFinish' = (needFinish \/ Reads(image') = "reading")
    /\ coefs' = IF coefs = "held" THEN "freed" ELSE coefs

\* The object is destroyed.
SetMemSourceFails ==
    /\ end = "running"
    /\ src # "destroyed"
    /\ SourceFails("memory")
    /\ \/ CannotFinish /\ UNCHANGED manager
       \/ ~CannotFinish /\ Reads(image') # "stopping" /\ Manager("memory")
    /\ src' = "destroyed"
    /\ needFinish' = FALSE
    /\ coefs' = IF coefs = "held" THEN "freed" ELSE coefs

SetSource ==
    /\ end = "running"
    /\ src # "destroyed"
    /\ ~CannotFinish
    /\ dst = "start"
    /\ \E kind \in {"file", "memory"} : Manager(kind)
    /\ OpenFile
    /\ Reads(image') = "stopping"
    /\ src' = "stopping"
    /\ srcErr' = "dead"
    /\ needFinish' = TRUE
    /\ coefs' = "held"
    /\ did' = NoCall
    /\ current' = FALSE
    /\ UNCHANGED <<end, dst, dstErr, settings, capacity, pieces, failed>>

-----------------------------------------------------------------------------
(* jel_set_components, JEL_PROP_MCU_DENSITY, jel_capacity.                 *)

\* A component that is there already is left out, whatever follows it.
SetComponents ==
    /\ end = "running"
    /\ \E u \in Components :
          components' =
            [u EXCEPT ![1] = IF u[1] = u[0] THEN -1 ELSE u[1],
                      ![2] = IF u[2] \in {u[0], u[1]} THEN -1 ELSE u[2]]
    /\ did' = NoCall
    /\ current' = FALSE
    /\ UNCHANGED <<end, libjpeg, manager, files, image, density, wanted, capacity, pieces, failed>>

SetDensity ==
    /\ end = "running"
    /\ density' \in Densities \cup {Unspecified}
    /\ wanted' = density'
    /\ did' = NoCall
    /\ current' = FALSE
    /\ UNCHANGED <<end, libjpeg, manager, files, image, components, capacity, pieces, failed>>

\* Mutant: what was computed before is kept.
CapacitiesKept(d) ==
    [c \in Chans |-> IF c \in Used /\ capacity[c] <= 0 THEN Capacity(Mcus(c), d)
                                                       ELSE capacity[c]]

\* Only the entries of the channels in use are written.
Capacities(d) ==
    [c \in Chans |-> IF c \in Used THEN Capacity(Mcus(c), d) ELSE capacity[c]]

jel_capacity ==
    /\ end = "running"
    /\ coefs # "freed"
    /\ capacity' = IF coefs = "held" THEN Capacities(density) ELSE capacity
    /\ did' = NoCall
    /\ current' = (coefs = "held")
    /\ UNCHANGED <<end, libjpeg, manager, files, image, settings, pieces, failed>>

\* jel_embed and jel_extract compute it only if there seems to be none.
CapacitiesOf == IF capacity[0] <= 0 THEN Capacities(density) ELSE capacity

-----------------------------------------------------------------------------
(* jel_embed.                                                              *)

\* The message is cut to what there is room for.
Cut(len, cap) == IF len > Unsigned(Total(cap)) THEN Unsigned(Total(cap)) ELSE len

\* Mutant: the shares are rounded up.
ShareUp(cap, c, n) ==
    Unsigned(Unsigned(cap[c]) * n + Total(cap) - 1) \div Unsigned(Total(cap))

Share(cap, c, n) == Unsigned(Unsigned(cap[c]) * n) \div Unsigned(Total(cap))

\* ijel_set_message: the pieces of a message.  Entries that are not written
\* are those before the call.
SetMessage(len, cap, before) ==
    LET n == Cut(len, cap)
        sum == Unsigned(Share(cap, 0, n) + Share(cap, 1, n) + Share(cap, 2, n))
        n0 == Share(cap, 0, n) + (IF sum < n THEN n - sum ELSE 0)
        n1 == Share(cap, 1, n)
        left == Unsigned(n - n0 - n1)
        old == [c \in Chans |-> [before[c] EXCEPT !.own = FALSE]]
        piece(at, m) == [own |-> TRUE, at |-> Signed(at), len |-> Signed(m)]
    IN  IF components[1] = -1
          THEN [old EXCEPT ![0] = piece(0, n)]
          ELSE [old EXCEPT ![0] = piece(0, n0), ![1] = piece(n0, n1),
                           ![2] = IF left > 0 THEN piece(n0 + n1, left) ELSE @]

\* A piece that is not in the message.
Outside(p, len) == p.own /\ (p.len < 0 \/ p.at < 0 \/ p.at + p.len > len)

\* ijel_stuff_message, channel by channel: the density each leaves to the
\* next, and what each returns.
StuffDensity(ps, c, d) ==
    IF c \in Used /\ ~Overflows(Mcus(c), d, ps[c].len)
      THEN StreamDensity(Mcus(c), d, ps[c].len) ELSE d
StuffResult(ps, c, d) ==
    IF c \notin Used THEN 0
    ELSE IF Overflows(Mcus(c), d, ps[c].len) THEN JEL_ERR_MSG_OVERFLOW
    ELSE ps[c].len

Stuffing(ps, d) ==
    LET d1 == StuffDensity(ps, 0, d)
        d2 == StuffDensity(ps, 1, d1)
    IN  [density |-> StuffDensity(ps, 2, d2),
         results |-> <<StuffResult(ps, 0, d), StuffResult(ps, 1, d1),
                       StuffResult(ps, 2, d2)>>]

JEL_ERR_JPEG == -1

\* The first error, or the sum.
Returned(results) ==
    LET wrong == {k \in 1 .. 3 : results[k] < 0}
    IN  IF wrong = {} THEN results[1] + results[2] + results[3]
        ELSE results[CHOOSE k \in wrong : \A j \in wrong : k <= j]

\* The pieces of the channels in use are all this call's, or empty.
NothingLeft(ps) == \A c \in Used : ps[c].own \/ ps[c].len = 0

\* The call owes nothing to the calls before it: its capacities and its density
\* are the caller's, and the channels not in use have no capacity.
Careful ==
    current /\ density = wanted /\ \A c \in Chans \ Used : capacity[c] = 0

\* The capacities do not add up to anything: ijel_set_message divides by 0.
Divides == components[1] # -1 /\ Unsigned(Total(CapacitiesOf)) = 0

EmbedOutside ==
    /\ end = "running"
    /\ coefs = "held"
    /\ \/ Divides /\ end' = "division"
       \/ /\ ~Divides
          /\ \E len \in Lens, c \in Used :
                Outside(SetMessage(len, CapacitiesOf, pieces)[c], len)
          /\ end' = "outside"
    /\ UNCHANGED <<libjpeg, manager, files, image, settings, capacity, pieces, did, failed, current>>

\* All that is done besides the writing of the image.
Embedding(len, written) ==
    LET ps == SetMessage(len, CapacitiesOf, pieces)
        stuffed == Stuffing(ps, density)
    IN  /\ end = "running"
        /\ coefs = "held"
        /\ ~Divides
        /\ \A c \in Used : ~Outside(ps[c], len)
        /\ capacity' = CapacitiesOf
        /\ pieces' = ps
        /\ density' = stuffed.density
        /\ srcErr' = "dead"
        /\ dstErr' = "dead"
        /\ did' = [call |-> "embed", len |-> len,
                   ret |-> IF written THEN Returned(stuffed.results) ELSE JEL_ERR_JPEG,
                   density |-> density, careful |-> Careful /\ NothingLeft(ps)]
        /\ current' = FALSE
        /\ UNCHANGED <<end, manager, files, image, components, wanted>>

jel_embed ==
    /\ \E len \in Lens : Embedding(len, TRUE)
    /\ dst = "start"
    /\ src' = "start"
    /\ needFinish' = FALSE
    /\ coefs' = "freed"
    /\ UNCHANGED <<dst, failed>>

\* The destination cannot take the image, or could not the last time:
\* the compression is never ended.
EmbedWriteFails ==
    /\ \E len \in Lens : Embedding(len, FALSE)
    /\ dst' = "writing"
    /\ failed' = failed \cup {"write"}
    /\ UNCHANGED <<src, needFinish, coefs>>

-----------------------------------------------------------------------------
(* jel_extract, with a buffer of the size jel_capacity returns.            *)

\* ijel_set_buffer.
Room(cap, c) ==
    [own |-> TRUE, len |-> cap[c],
     at |-> CASE c = 0 -> 0 [] c = 1 -> cap[0] [] c = 2 -> cap[0] + cap[1]]

BufferSize(cap) ==
    LET of(c) == IF c \in Used THEN cap[c] ELSE 0 IN  of(0) + of(1) + of(2)

ExtractOutside ==
    /\ end = "running"
    /\ coefs = "held"
    /\ LET cap == CapacitiesOf
       IN  \E c \in Used : Outside(Room(cap, c), BufferSize(cap))
    /\ end' = "outside"
    /\ UNCHANGED <<libjpeg, manager, files, image, settings, capacity, pieces, did, failed, current>>

Extracting ==
    LET cap == CapacitiesOf
    IN  /\ end = "running"
        /\ coefs = "held"
        /\ \A c \in Used : ~Outside(Room(cap, c), BufferSize(cap))
        /\ capacity' = cap
        \* A channel in which a message is found tells its length and density.
        /\ \E found \in SUBSET Used :
             /\ pieces' = [c \in Chans |->
                  IF c \in found THEN [Room(cap, c) EXCEPT !.len = Lesser(@, 1)]
                                 ELSE Room(cap, c)]
             /\ density' \in IF found = {} THEN {density}
                                           ELSE Densities
        /\ did' = [call |-> "extract", rooms |-> [c \in Used |-> Room(cap, c)],
                   density |-> density, careful |-> Careful]
        /\ src' = "start"
        /\ srcErr' = "dead"
        /\ coefs' = "freed"
        /\ current' = FALSE
        /\ UNCHANGED <<end, manager, files, image, components, wanted, dst, dstErr, failed>>

\* Mutant: the flag is left set.
ExtractKeepsFlag == Extracting /\ UNCHANGED needFinish

jel_extract == Extracting /\ needFinish' = FALSE

\* The coefficients are asked for when there are none.
UseFreed ==
    /\ end = "running"
    /\ coefs # "held"
    /\ Freed

-----------------------------------------------------------------------------
(* jel_free.                                                               *)

FreeUnhandled ==
    /\ end = "running"
    /\ CannotFinish
    /\ Unhandled(srcErr)

jel_free ==
    /\ end = "running"
    /\ ~CannotFinish
    /\ Ends("released")

-----------------------------------------------------------------------------
\* _jel_init.
Init ==
    /\ end = "running"
    /\ src = Blank.src
    /\ dst = Blank.dst
    /\ srcErr = Blank.srcErr
    /\ dstErr = Blank.dstErr
    /\ needFinish = Blank.needFinish
    /\ coefs = Blank.coefs
    /\ components = Blank.components
    /\ capacity = Blank.capacity
    /\ pieces = Blank.pieces
    /\ density = Blank.density
    /\ wanted = Unspecified
    /\ did = NoCall
    /\ current = FALSE
    /\ manager = "none"
    /\ files = 0
    /\ image = CHOOSE i \in Images : TRUE     \* not looked at before one is opened
    /\ failed = {}

Next ==
    \/ SourceUnhandled \/ SourceMixed \/ SourceDestroyed
    \/ SetFpSourceFails \/ SetMemSourceFails \/ SetSource
    \/ SetComponents \/ SetDensity \/ jel_capacity
    \/ EmbedOutside \/ jel_embed \/ EmbedWriteFails
    \/ ExtractOutside \/ jel_extract \/ UseFreed
    \/ FreeUnhandled \/ jel_free

Spec == Init /\ [][Next]_vars

-----------------------------------------------------------------------------
(* What must hold.                                                         *)

\* As long as no call has failed, the decompression has to be finished exactly
\* when it can be, the coefficients are there exactly then, and the
\* compression can begin: every further image can be opened.
LibjpegInStep ==
    failed = {} =>
        /\ needFinish <=> src = "stopping"
        /\ needFinish <=> coefs = "held"
        /\ dst = "start"

\* libjpeg never ends the process, and jumps to the frame of a call that has
\* returned only after jel_set_fp_source or jel_embed has failed.
HandlersLive ==
    /\ end # "exit"
    /\ end = "dead handler" => failed \cap {"coefficients", "write"} # {}

\* The capacities and the pieces of a fresh configuration (_jel_init) with the
\* same components and density, for the same image.
FreshCapacity == [c \in Chans |->
    IF c \in Used THEN Capacity(Mcus(c), did.density) ELSE 0]
FreshPieces ==
    IF did.call = "extract" THEN [c \in Chans |-> Room(FreshCapacity, c)]
    ELSE SetMessage(did.len, FreshCapacity, [c \in Chans |-> NoPiece])

Bytes(piece) == piece.at .. piece.at + piece.len - 1

\* A configuration that has been used is as good as a fresh one to a caller
\* that asks for the capacity of every image and sets the density again, if
\* no channel in use has kept a length of an earlier call, and none that is
\* not in use a capacity.
AsFresh ==
    did.call # "none" /\ did.careful =>
        IF did.call = "extract"
          THEN \A c \in Used : did.rooms[c] = FreshPieces[c]
          ELSE /\ \A c \in Used : Bytes(pieces[c]) = Bytes(FreshPieces[c])
               /\ did.ret \in {Returned(Stuffing(FreshPieces, did.density).results),
                               JEL_ERR_JPEG}

\* The pieces of a message are in the message, and those that are extracted in
\* the buffer, unless a channel has no room for its header or one that is
\* not in use has kept its capacity.
PiecesInside ==
    end = "outside" =>
        \/ \E c \in Used : Capacity(Mcus(c), density) < 0
        \/ \E c \in Chans : capacity[c] < 0
        \/ \E c \in Chans \ Used : capacity[c] # 0
=============================================================================
