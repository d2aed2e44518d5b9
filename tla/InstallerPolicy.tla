--------------------------- MODULE InstallerPolicy ---------------------------
(***************************************************************************)
(* The policy values of Dot1xCP_Setup.iss: setup saves what it finds,      *)
(* writes its own settings, and the uninstaller puts the saved values      *)
(* back.  An upgrade runs the old version's uninstaller first.             *)
(*                                                                         *)
(* The policies are numbered in the order of the script.  One step is one  *)
(* call of BackupPolicyDword or RestorePolicyDword, or one [Registry]      *)
(* line; the machine may go down, or setup be cancelled, between any two.  *)
(* Setup installs in 64-bit mode, where HKLM and HKLM64 are the same view. *)
(* Registry calls, whose results the script ignores, are taken to succeed. *)
(***************************************************************************)
EXTENDS Integers

CONSTANTS
  N,        \* how many policy values the script handles
  Values,   \* DWORD values
  Absent,   \* the value does not exist
  Setting   \* what the [Registry] section writes, by policy

Policies == 1 .. N

ASSUME InstallerAssumption ==
  /\ N \in Nat \ {0}
  /\ Absent \notin Values
  /\ Setting \in [Policies -> Values]

VARIABLES
  policy,     \* the values under HKLM
  backup,     \* the _Present and _Value pairs under PolicyBackupKey
  installed,  \* the uninstall key exists
  phase,      \* what setup or the uninstaller is doing
  at,         \* the policy it has come to
  upgrading,  \* the uninstaller was started by setup
  user,       \* history: the user's own value of each policy
  torn        \* history: setup stopped between its first policy write and
              \* the registration of the uninstaller

vars == <<policy, backup, installed, phase, at, upgrading, user, torn>>

Maybe    == Values \cup {Absent}
NoBackup == [saved |-> FALSE, value |-> Absent]
Saved(v) == [saved |-> TRUE, value |-> v]   \* _Present is 0 when v is Absent

Phases == {"rest", "old", "restore", "backup", "ready", "write"}

TypeOK ==
  /\ policy \in [Policies -> Maybe]
  /\ backup \in [Policies -> [saved: BOOLEAN, value: Maybe]]
  /\ installed \in BOOLEAN
  /\ phase \in Phases
  /\ at \in 1 .. N + 1
  /\ upgrading \in BOOLEAN
  /\ user \in [Policies -> Maybe]
  /\ torn \in BOOLEAN

Init ==
  /\ policy \in [Policies -> Maybe]
  /\ backup = [p \in Policies |-> NoBackup]
  /\ installed = FALSE
  /\ phase = "rest"
  /\ at = 1
  /\ upgrading = FALSE
  /\ user = policy
  /\ torn = FALSE

Enter(ph) == phase' = ph /\ at' = 1

-----------------------------------------------------------------------------
(* Setup.                                                                   *)

\* Mutant: setup saves the values without removing the old version first.
PrepareToInstall_KeepsOld ==
  /\ phase = "rest"
  /\ Enter("backup")
  /\ upgrading' = installed
  /\ UNCHANGED <<policy, backup, installed, user, torn>>

\* TryGetExistingUninstallCommand decides whether an uninstaller is run.
PrepareToInstall ==
  /\ phase = "rest"
  /\ Enter(IF installed THEN "old" ELSE "backup")
  /\ upgrading' = installed
  /\ UNCHANGED <<policy, backup, installed, user, torn>>

\* Exec of the old uninstaller fails, or it leaves before its first step with
\* an exit code other than 0: setup stops.
OldDoesNotRun ==
  /\ phase = "old"
  /\ Enter("rest")
  /\ UNCHANGED <<policy, backup, installed, upgrading, user, torn>>

OldRuns ==
  /\ phase = "old"
  /\ Enter("restore")
  /\ UNCHANGED <<policy, backup, installed, upgrading, user, torn>>

\* BackupPolicyRegistryValues, one policy at a time.
BackupPolicyDword ==
  /\ phase = "backup" /\ at <= N
  /\ backup' = [backup EXCEPT ![at] = Saved(policy[at])]
  /\ at' = at + 1
  /\ UNCHANGED <<policy, installed, phase, upgrading, user, torn>>

BackupDone ==
  /\ phase = "backup" /\ at = N + 1
  /\ Enter("ready")
  /\ UNCHANGED <<policy, backup, installed, upgrading, user, torn>>

\* The files are copied, or the user cancels before that is done.
Cancelled ==
  /\ phase = "ready"
  /\ Enter("rest")
  /\ UNCHANGED <<policy, backup, installed, upgrading, user, torn>>

FilesCopied ==
  /\ phase = "ready"
  /\ Enter("write")
  /\ UNCHANGED <<policy, backup, installed, upgrading, user, torn>>

\* A [Registry] line.
WritePolicy ==
  /\ phase = "write" /\ at <= N
  /\ policy' = [policy EXCEPT ![at] = Setting[at]]
  /\ at' = at + 1
  /\ UNCHANGED <<backup, installed, phase, upgrading, user, torn>>

\* Inno Setup registers the uninstaller after the [Registry] section.
Registered ==
  /\ phase = "write" /\ at = N + 1
  /\ installed' = TRUE
  /\ Enter("rest")
  /\ UNCHANGED <<policy, backup, upgrading, user, torn>>

-----------------------------------------------------------------------------
(* The uninstaller.                                                         *)

Uninstall ==
  /\ phase = "rest" /\ installed
  /\ Enter("restore")
  /\ upgrading' = FALSE
  /\ UNCHANGED <<policy, backup, installed, user, torn>>

\* Mutant: a policy the user did not have is left as setup set it.
RestorePolicyDword_NoDelete ==
  /\ phase = "restore" /\ at <= N
  /\ policy' = IF backup[at].saved /\ backup[at].value # Absent
               THEN [policy EXCEPT ![at] = backup[at].value] ELSE policy
  /\ backup' = [backup EXCEPT ![at] = NoBackup]
  /\ at' = at + 1
  /\ UNCHANGED <<installed, phase, upgrading, user, torn>>

\* CurUninstallStepChanged(usUninstall) restores one policy after the other;
\* what was not saved is left alone, what was absent is deleted again, and
\* the backup goes.
RestorePolicyDword ==
  /\ phase = "restore" /\ at <= N
  /\ policy' = IF backup[at].saved
               THEN [policy EXCEPT ![at] = backup[at].value] ELSE policy
  /\ backup' = [backup EXCEPT ![at] = NoBackup]
  /\ at' = at + 1
  /\ UNCHANGED <<installed, phase, upgrading, user, torn>>

\* Files and the uninstall key go; setup goes on when it started this.
UninstallSucceeds ==
  /\ phase = "restore" /\ at = N + 1
  /\ installed' = FALSE
  /\ Enter(IF upgrading THEN "backup" ELSE "rest")
  /\ UNCHANGED <<policy, backup, upgrading, user, torn>>

\* The uninstaller fails after that step: it stays registered, and setup
\* stops on its exit code.
UninstallFails ==
  /\ phase = "restore" /\ at = N + 1
  /\ Enter("rest")
  /\ UNCHANGED <<policy, backup, installed, upgrading, user, torn>>

-----------------------------------------------------------------------------
(* The surroundings.                                                        *)

PowerFails ==
  /\ phase # "rest"
  /\ torn' = (torn \/ (phase = "write" /\ at > 1))
  /\ Enter("rest")
  /\ UNCHANGED <<policy, backup, installed, upgrading, user>>

\* The user changes a policy.  While the product is installed and holds a
\* saved value, that saved value is the one to come back.
UserSets(p, v) ==
  /\ phase = "rest"
  /\ policy' = [policy EXCEPT ![p] = v]
  /\ user' = IF installed /\ backup[p].saved THEN user
             ELSE [user EXCEPT ![p] = v]
  /\ UNCHANGED <<backup, installed, phase, at, upgrading, torn>>

Next ==
  \/ PrepareToInstall \/ OldDoesNotRun \/ OldRuns
  \/ BackupPolicyDword \/ BackupDone \/ Cancelled \/ FilesCopied
  \/ WritePolicy \/ Registered
  \/ Uninstall \/ RestorePolicyDword \/ UninstallSucceeds \/ UninstallFails
  \/ PowerFails
  \/ \E p \in Policies, v \in Maybe : UserSets(p, v)

Spec == Init /\ [][Next]_vars

-----------------------------------------------------------------------------

(***************************************************************************)
(* Whatever sequence of installations, upgrades, cancelled and failed      *)
(* setups, failed removals and power failures there was, once the product  *)
(* is gone every policy has the user's own value again, or is absent       *)
(* again.  The one way to lose a value is a setup that stops between its   *)
(* first policy write and the registration of its uninstaller.             *)
(***************************************************************************)
PoliciesComeBack ==
  phase = "rest" /\ ~installed /\ ~torn => policy = user

(***************************************************************************)
(* While the product is installed a policy is either still the user's or   *)
(* has the user's value in the backup: an upgrade never saves the values   *)
(* the old version wrote as if they were the user's.                       *)
(***************************************************************************)
BackupIsTheUsers ==
  installed /\ ~torn =>
    \A p \in Policies : IF backup[p].saved THEN backup[p].value = user[p]
                                           ELSE policy[p] = user[p]
=============================================================================
