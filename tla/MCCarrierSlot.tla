--------------------------- MODULE MCCarrierSlot ---------------------------
(* Small instances of one carrier slot. *)
EXTENDS CarrierSlot
CONSTANTS s1, s2, k1, x1
=============================================================================
