---------------------------- MODULE MCSelectLoop ----------------------------
(* Small instances of SelectLoop; peers are interchangeable in safety runs. *)
EXTENDS SelectLoop, TLC

PeerSymmetry == Permutations(Client)
=============================================================================
