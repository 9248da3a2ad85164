------------------------------- MODULE OtaSlot -------------------------------
(***************************************************************************)
(* What app_ota promises about the upload slot, without threads, locks,    *)
(* callbacks or error codes: the slot is closed (its contents mean         *)
(* nothing), open (it holds the first units of an image whose size is      *)
(* known), or sealed (it holds a whole image that MCUboot was asked for).  *)
(***************************************************************************)
EXTENDS Integers

CONSTANT Capacity          \* size of the slot

VARIABLES phase, image, want

slotVars == <<phase, image, want>>

Prefix(n) == 0 .. n - 1

SlotInit == phase = "closed" /\ image = {} /\ want = 0

\* A fresh session for an image that fits.
Open == \E n \in 1 .. Capacity :
    phase' = "open" /\ image' = {} /\ want' = n

\* The image grows at its end, never beyond its size.
Append == \E have \in 0 .. Capacity, more \in 1 .. Capacity :
    /\ phase = "open"
    /\ image = Prefix(have)
    /\ have + more <= want
    /\ image' = Prefix(have + more)
    /\ UNCHANGED <<phase, want>>

\* Only a whole image is handed to MCUboot.
Seal ==
    /\ phase = "open"
    /\ image = Prefix(want)
    /\ phase' = "sealed"
    /\ UNCHANGED <<image, want>>

\* A failure, an abort, a new begin or a reset ends the session.
Close ==
    /\ phase # "closed"
    /\ phase' = "closed" /\ image' = {} /\ want' = 0

SlotNext == Open \/ Append \/ Seal \/ Close

SlotSpec == SlotInit /\ [][SlotNext]_slotVars
=============================================================================
