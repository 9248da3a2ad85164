------------------------------ MODULE MCAppOta ------------------------------
(***************************************************************************)
(* Bounds for model checking AppOta: two callers, a slot of a few cells,   *)
(* sizes up to one more than the slot, chunks up to one more than          *)
(* UINT16_MAX stands for.                                                  *)
(***************************************************************************)
EXTENDS AppOta

MCSizes   == 0 .. SlotSize + 1
MCOffsets == 0 .. SlotSize
MCLens    == 0 .. MaxChunk + 1
=============================================================================
