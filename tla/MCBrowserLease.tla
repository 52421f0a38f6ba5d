--------------------------- MODULE MCBrowserLease ---------------------------
(* Small instances of BrowserLease for TLC.                                *)
EXTENDS BrowserLease, TLC

(* Operation ids, arguments and keys are only ever compared for equality.  *)
Symmetry == Permutations(OpIds) \cup Permutations(Args) \cup Permutations(RequestKeys)
=============================================================================
