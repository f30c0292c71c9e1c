-------------------------------- MODULE Link --------------------------------
(***************************************************************************)
(* What jel_embed and jel_extract promise (jel.h): a message no longer     *)
(* than the capacity of the image is hidden, never refused, and whoever    *)
(* knows the settings and the seed finds exactly that message.  Nothing is *)
(* said of coefficients, PRNs or walks.                                    *)
(***************************************************************************)
EXTENDS Integers

VARIABLES
    len,      \* bytes to send
    room,     \* what jel_capacity tells the sender
    able,     \* the receiver has the sender's seed and enough capacity
    phase,    \* how far the message has come
    whole,    \* the image holds all of the message
    correct   \* the receiver has the message, and its length

vars == <<len, room, able, phase, whole, correct>>

Init ==
    /\ len \in Nat
    /\ room \in Nat
    /\ able \in BOOLEAN
    /\ phase = "sending"
    /\ whole = FALSE
    /\ correct = FALSE

\* jel_embed refuses: only a message that is too long.
Refuse ==
    /\ phase = "sending"
    /\ len > room
    /\ phase' = "refused"
    /\ UNCHANGED <<len, room, able, whole, correct>>

\* jel_embed returns the length of the message.  One that is too long for
\* the density that was asked for may be cut.
Hide ==
    /\ phase = "sending"
    /\ phase' = "hidden"
    /\ whole' \in BOOLEAN
    /\ len <= room => whole'
    /\ UNCHANGED <<len, room, able, correct>>

\* jel_extract returns: the message, to a receiver that is able to read it;
\* anything at all to another.
Find ==
    /\ phase = "hidden"
    /\ phase' = "found"
    /\ correct' \in BOOLEAN
    /\ able /\ whole => correct'
    /\ UNCHANGED <<len, room, able, whole>>

Next == Refuse \/ Hide \/ Find

Spec == Init /\ [][Next]_vars
=============================================================================
