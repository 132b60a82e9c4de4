----------------------------- MODULE MCDelivery -----------------------------
(***************************************************************************)
(* Small instances of Delivery.                                            *)
(***************************************************************************)
EXTENDS Delivery, TLC

Interchangeable == Permutations(Pushes) \cup Permutations(Slots)
=============================================================================
