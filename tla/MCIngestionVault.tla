--------------------------- MODULE MCIngestionVault ---------------------------
(* Instances of IngestionVault for TLC.                                    *)
EXTENDS IngestionVault, TLC

CONSTANTS s1, k1, k2, r1, r2, c1, c2

Request(k, s, purge) == [key |-> k, source |-> s, purge |-> purge]

(* One capture of a document.                                              *)
OneCapture == c1 :> Request(k1, s1, FALSE)

(* A document, and a second version of it.                                 *)
TwoVersions == c1 :> Request(k1, s1, FALSE) @@ c2 :> Request(k2, s1, FALSE)

(* A document, and a version that replaces it.                             *)
Replacement == c1 :> Request(k1, s1, FALSE) @@ c2 :> Request(k2, s1, TRUE)

Recovery == [c \in Captures |-> IF c = c1 THEN r1 ELSE r2]

Symmetry == Permutations(Workers)
=============================================================================
