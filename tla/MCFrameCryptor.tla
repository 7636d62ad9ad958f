--------------------------- MODULE MCFrameCryptor ---------------------------
(***************************************************************************)
(* FrameCryptor for TLC: the slots of suspended calls are interchangeable. *)
(***************************************************************************)
EXTENDS FrameCryptor, TLC

SlotSymmetry == Permutations(CallSlots)
=============================================================================
