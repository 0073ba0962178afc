------------------------------ MODULE MCChannel ------------------------------
(* Instances of Channel for TLC; the bounds are in the .cfg files. *)
EXTENDS Channel, TLC

ClientSymmetry == Permutations(Client)

=============================================================================
