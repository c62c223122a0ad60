--------------------------- MODULE MCReadingsStore ---------------------------
(***************************************************************************)
(* Instances of ReadingsStore for TLC.                                     *)
(***************************************************************************)
EXTENDS ReadingsStore, TLC

CONSTANTS s1, s2, a1, a2

\* Two sensors of two accounts.
OneEach == s1 :> a1 @@ s2 :> a2
=============================================================================
