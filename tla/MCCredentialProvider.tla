------------------------ MODULE MCCredentialProvider ------------------------
(***************************************************************************)
(* CredentialProvider and the documented claims for TLC.                   *)
(***************************************************************************)
EXTENDS DocumentedClaims, TLC

\* Threads are interchangeable.
Symmetry == Permutations(Callers)
=============================================================================
