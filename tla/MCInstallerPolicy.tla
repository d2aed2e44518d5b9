------------------------- MODULE MCInstallerPolicy -------------------------
(* Three policies with two values each: one can be restored, the next be   *)
(* in progress and the last still untouched.                               *)
EXTENDS InstallerPolicy

MCSetting == [p \in Policies |-> p % 2]
=============================================================================
