-------------------------- MODULE DocumentedClaims --------------------------
(***************************************************************************)
(* What README.md of the repository says of the provider, stated over      *)
(* CredentialProvider.  Each formula here is one the code does not keep;   *)
(* the run that checks it shows how.                                       *)
(***************************************************************************)
EXTENDS CredentialProvider

\* LogonUI is going to come back to the selected tile by itself.
ReentryUnderWay ==
  \/ submit
  \/ notified
  \/ refresh.pc = "notify"
  \/ refresh.pc = "armed" /\ refresh.gen = g.generation

\* Section 4: after AUTH_PENDING the provider asks for CredentialsChanged
\* again, so a pending answer is polled for.
PendingIsPolled ==
  AllIdle /\ selected /\ advised /\ g.awaiting => ReentryUnderWay

\* Section 14: that the provider starts a broker again after a success is a
\* defect, so a tile is not submitted by itself on top of a success.
NoSubmitAfterSuccess ==
  response.kind = "credential" => ~submit

\* Section 12: a failed authentication leaves the broker its window and the
\* session open, while the provider answers "not finished".
FailKeepsSession ==
  AllIdle /\ selected /\ response.why = "AUTH_FAIL" => session.connected
=============================================================================
