--------------------------- MODULE MCMigrationApply ---------------------------
(* Instances of MigrationApply for TLC.                                    *)
EXTENDS MigrationApply, TLC

(* One file of each kind, and the two kinds that a rollback treats apart.  *)
EveryKind == <<"modified", "added", "deleted">>
TwoKinds == <<"modified", "added">>

Symmetry == Permutations(Procs)
=============================================================================
