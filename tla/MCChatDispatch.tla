--------------------------- MODULE MCChatDispatch ---------------------------
(* Instances of ChatDispatch for TLC.                                      *)
EXTENDS ChatDispatch, TLC
CONSTANTS k1, k2, root, tip
OneSession == [k \in {k1, k2} |-> root]
TwoSessions == k1 :> root @@ k2 :> tip
=============================================================================
