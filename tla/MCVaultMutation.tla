-------------------------- MODULE MCVaultMutation --------------------------
(***************************************************************************)
(* Instances of VaultMutation for TLC: the .cfg files give the constants   *)
(* model values, and this module the symmetry of those that are alike.     *)
(***************************************************************************)
EXTENDS VaultMutation, TLC

\* A call is told from another only by what it does, and so is a process.
\* Notes are not symmetric: only some of them are targets or sources.
Symmetry == Permutations(Requests) \cup Permutations(Procs)

=============================================================================
