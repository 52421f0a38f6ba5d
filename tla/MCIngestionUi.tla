---------------------------- MODULE MCIngestionUi ----------------------------
(* The ingestion queue with the plugin's workers and the UI server, for    *)
(* TLC.  Workers are interchangeable.                                      *)
EXTENDS IngestionUi, TLC

CONSTANTS s1, v1, v2, k1, k2

KeyOfUpload == <<s1, v1>> :> k1 @@ <<s1, v2>> :> k2

Symmetry == Permutations(Workers)
=============================================================================
