--------------------------- MODULE MCFlashStorage ---------------------------
(***************************************************************************)
(* The instance of FlashStorage that TLC checks.  Payloads are compared    *)
(* only for equality, so they are interchangeable.                         *)
(***************************************************************************)
EXTENDS FlashStorage, TLC

PayloadSymmetry == Permutations(Payload)
=============================================================================
