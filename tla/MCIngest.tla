------------------------------ MODULE MCIngest ------------------------------
(* Instances of Ingest for TLC; the bounds are in the .cfg files. *)
EXTENDS Ingest, TLC

WorkerSymmetry == Permutations(Worker)

=============================================================================
