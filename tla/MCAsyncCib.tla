----------------------------- MODULE MCAsyncCib -----------------------------
(* Instances of AsyncCib for TLC. *)
EXTENDS AsyncCib, TLC

ClientSymmetry == Permutations(Clients)
=============================================================================
