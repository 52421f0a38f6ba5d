----------------------------- MODULE MCDocuments -----------------------------
(* Small instances of Documents for TLC.                                   *)
EXTENDS Documents, TLC

CONSTANTS r1, r2, text

(* Records are only ever compared for equality.                            *)
Symmetry == Permutations(Records)
=============================================================================
