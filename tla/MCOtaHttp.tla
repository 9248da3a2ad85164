------------------------------ MODULE MCOtaHttp ------------------------------
(***************************************************************************)
(* Bounds for model checking OtaHttp: a slot of a few cells, images up to  *)
(* one more than the slot, one redirect, 32-bit arithmetic scaled down.    *)
(***************************************************************************)
EXTENDS OtaHttp

AllOpts   == [header: BOOLEAN, auto: BOOLEAN]
AutoOnly  == {[header |-> FALSE, auto |-> TRUE]}
MCSizes   == 0 .. SlotSize + 1
MCOffsets == 0 .. SlotSize
MCLens    == 1 .. SlotSize
=============================================================================
