--------------------------- MODULE InstallerProofs ---------------------------
(***************************************************************************)
(* The user's policies come back, for any number of policies and values,   *)
(* any settings, and any order of setups, removals and failures.           *)
(***************************************************************************)
EXTENDS InstallerPolicy, TLAPS

InstallerTypes ==
  /\ policy \in [Policies -> Maybe]
  /\ backup \in [Policies -> [saved: BOOLEAN, value: Maybe]]
  /\ installed \in BOOLEAN
  /\ phase \in Phases
  /\ at \in Nat \ {0}
  /\ user \in [Policies -> Maybe]

\* The user's value of p is in the backup or still in place.
Kept(p) == IF backup[p].saved THEN backup[p].value = user[p]
                              ELSE policy[p] = user[p]

\* When the uninstall key is there, and how far a loop over the policies got.
PhaseInv ==
  /\ phase \in {"old", "restore"} => installed
  /\ phase \in {"backup", "ready", "write"} => ~installed
  /\ phase = "restore" => \A p \in Policies : p < at => ~backup[p].saved

\* The user's values, as long as no setup was torn: out of the way of setup
\* while it is not installed, and saved before setup writes the first one.
ValuesInv ==
  /\ installed => \A p \in Policies : Kept(p)
  /\ ~installed /\ phase # "write" => \A p \in Policies : policy[p] = user[p]
  /\ phase = "backup" => \A p \in Policies : p < at => backup[p] = Saved(user[p])
  /\ phase \in {"ready", "write"} => \A p \in Policies : backup[p] = Saved(user[p])
  /\ phase = "write" => \A p \in Policies : p >= at => policy[p] = user[p]

InstallerInv ==
  /\ InstallerTypes
  /\ PhaseInv
  /\ ~torn => ValuesInv

LEMMA InstallerInit == Init => InstallerInv
<1>. SUFFICES ASSUME Init PROVE InstallerInv
  OBVIOUS
<1>1. [p \in Policies |-> NoBackup] \in [Policies -> [saved: BOOLEAN, value: Maybe]]
  BY DEF NoBackup, Maybe
<1>2. InstallerTypes
  <2>1. policy \in [Policies -> Maybe] /\ user \in [Policies -> Maybe]
    BY DEF Init
  <2>2. phase \in Phases /\ installed \in BOOLEAN /\ at \in Nat \ {0}
    <3>1. phase = "rest" /\ installed = FALSE /\ at = 1
      BY Zenon DEF Init
    <3>2. phase \in Phases
      BY <3>1 DEF Phases
    <3>3. installed \in BOOLEAN
      BY <3>1, Zenon
    <3>4. at \in Nat \ {0}
      BY <3>1
    <3>. QED BY <3>2, <3>3, <3>4
  <2>3. backup \in [Policies -> [saved: BOOLEAN, value: Maybe]]
    BY <1>1, Zenon DEF Init
  <2>. QED BY <2>1, <2>2, <2>3 DEF InstallerTypes
<1>3. PhaseInv /\ ValuesInv
  BY DEF Init, PhaseInv, ValuesInv
<1>. QED BY <1>2, <1>3 DEF InstallerInv

LEMMA InstallerTypesKept ==
  ASSUME InstallerTypes, [Next]_vars
  PROVE  InstallerTypes'
<1>. USE DEF InstallerTypes
<1>1. CASE PrepareToInstall \/ OldDoesNotRun \/ OldRuns \/ BackupDone \/ Cancelled
           \/ FilesCopied \/ Registered \/ Uninstall \/ UninstallSucceeds
           \/ UninstallFails \/ PowerFails
  <2>1. UNCHANGED <<policy, backup, user>> /\ at' = 1
    BY <1>1 DEF PrepareToInstall, OldDoesNotRun, OldRuns, BackupDone, Cancelled,
       FilesCopied, Registered, Uninstall, UninstallSucceeds, UninstallFails,
       PowerFails, Enter
  <2>2. phase' \in Phases /\ installed' \in BOOLEAN
    BY <1>1 DEF PrepareToInstall, OldDoesNotRun, OldRuns, BackupDone, Cancelled,
       FilesCopied, Registered, Uninstall, UninstallSucceeds, UninstallFails,
       PowerFails, Enter, Phases
  <2>. QED BY <2>1, <2>2
<1>2. CASE BackupPolicyDword
  <2>1. at \in Policies /\ at + 1 \in Nat \ {0}
    BY <1>2, InstallerAssumption DEF BackupPolicyDword, Policies
  <2>2. policy[at] \in Maybe
    BY <2>1
  <2>3. Saved(policy[at]) \in [saved: BOOLEAN, value: Maybe]
    BY <2>2 DEF Saved
  <2>4. backup' \in [Policies -> [saved: BOOLEAN, value: Maybe]]
    BY <1>2, <2>3 DEF BackupPolicyDword
  <2>. QED BY <1>2, <2>1, <2>4 DEF BackupPolicyDword
<1>3. CASE WritePolicy
  <2>1. at \in Policies /\ at + 1 \in Nat \ {0}
    BY <1>3, InstallerAssumption DEF WritePolicy, Policies
  <2>2. Setting[at] \in Maybe
    BY <2>1, InstallerAssumption DEF Maybe
  <2>3. policy' \in [Policies -> Maybe]
    BY <1>3, <2>2 DEF WritePolicy
  <2>. QED BY <1>3, <2>1, <2>3 DEF WritePolicy
<1>4. CASE RestorePolicyDword
  <2>1. at \in Policies /\ at + 1 \in Nat \ {0}
    BY <1>4, InstallerAssumption DEF RestorePolicyDword, Policies
  <2>2. NoBackup \in [saved: BOOLEAN, value: Maybe]
    BY DEF NoBackup, Maybe
  <2>3. backup' \in [Policies -> [saved: BOOLEAN, value: Maybe]]
    BY <1>4, <2>2 DEF RestorePolicyDword
  <2>4. backup[at].value \in Maybe
    BY <2>1
  <2>5. policy' \in [Policies -> Maybe]
    BY <1>4, <2>4 DEF RestorePolicyDword
  <2>. QED BY <1>4, <2>1, <2>3, <2>5 DEF RestorePolicyDword
<1>5. ASSUME NEW p \in Policies, NEW v \in Maybe, UserSets(p, v)
      PROVE  InstallerTypes'
  BY <1>5 DEF UserSets
<1>6. CASE UNCHANGED vars
  BY <1>6 DEF vars
<1>. QED BY <1>1, <1>2, <1>3, <1>4, <1>5, <1>6 DEF Next

LEMMA PhasesKept ==
  ASSUME InstallerTypes, PhaseInv, [Next]_vars
  PROVE  PhaseInv'
<1>. USE DEF InstallerTypes, PhaseInv
<1>1. CASE PrepareToInstall \/ OldDoesNotRun \/ OldRuns \/ BackupDone \/ Cancelled
           \/ FilesCopied \/ Registered \/ Uninstall \/ UninstallSucceeds
           \/ UninstallFails \/ PowerFails
  BY <1>1 DEF PrepareToInstall, OldDoesNotRun, OldRuns, BackupDone, Cancelled,
     FilesCopied, Registered, Uninstall, UninstallSucceeds, UninstallFails,
     PowerFails, Enter, Policies
<1>2. CASE BackupPolicyDword \/ WritePolicy
  BY <1>2 DEF BackupPolicyDword, WritePolicy
<1>3. CASE RestorePolicyDword
  BY <1>3 DEF RestorePolicyDword, NoBackup, Policies
<1>4. ASSUME NEW p \in Policies, NEW v \in Maybe, UserSets(p, v) PROVE PhaseInv'
  BY <1>4 DEF UserSets
<1>5. CASE UNCHANGED vars
  BY <1>5 DEF vars
<1>. QED BY <1>1, <1>2, <1>3, <1>4, <1>5 DEF Next

\* A step that moves setup from one stage to the next writes no value.
LEMMA ValuesKeptByControl ==
  ASSUME InstallerTypes, PhaseInv, ValuesInv, ~torn',
         \/ PrepareToInstall \/ OldDoesNotRun \/ OldRuns \/ BackupDone
         \/ Cancelled \/ FilesCopied \/ Registered \/ Uninstall
         \/ UninstallSucceeds \/ UninstallFails \/ PowerFails
  PROVE  ValuesInv'
<1>. USE DEF InstallerTypes, PhaseInv, ValuesInv, Kept, Enter
<1>0. \A p \in Policies : p \in Nat /\ p >= 1 /\ (at = N + 1 => p < at)
  BY InstallerAssumption DEF Policies
<1>1. CASE PrepareToInstall \/ OldDoesNotRun \/ OldRuns \/ Cancelled \/ Uninstall
  BY <1>0, <1>1 DEF PrepareToInstall, OldDoesNotRun, OldRuns, Cancelled, Uninstall
<1>2. CASE BackupDone
  BY <1>0, <1>2 DEF BackupDone
<1>3. CASE FilesCopied
  BY <1>0, <1>3 DEF FilesCopied
<1>4. CASE Registered
  BY <1>0, <1>4 DEF Registered, Saved
<1>5. CASE UninstallSucceeds \/ UninstallFails
  BY <1>0, <1>5 DEF UninstallSucceeds, UninstallFails
<1>6. CASE PowerFails
  <2>1. phase = "write" => \A p \in Policies : policy[p] = user[p]
    <3>1. ~(phase = "write" /\ at > 1)
      BY <1>6, Zenon DEF PowerFails
    <3>2. phase = "write" => at = 1
      BY <3>1
    <3>. QED BY <1>0, <3>2
  <2>. QED BY <1>6, <2>1 DEF PowerFails
<1>. QED BY <1>1, <1>2, <1>3, <1>4, <1>5, <1>6

LEMMA ValuesKept ==
  ASSUME InstallerInv, [Next]_vars, ~torn'
  PROVE  ValuesInv'
<1>. USE DEF InstallerInv, InstallerTypes, PhaseInv
<1>0. ~torn /\ ValuesInv
  <2>1. CASE PowerFails
    BY <2>1, Zenon DEF PowerFails
  <2>2. CASE UNCHANGED torn
    BY <2>2
  <2>. QED BY <2>1, <2>2 DEF Next, vars, PrepareToInstall, OldDoesNotRun, OldRuns,
     BackupPolicyDword, BackupDone, Cancelled, FilesCopied, WritePolicy,
     Registered, Uninstall, RestorePolicyDword, UninstallSucceeds,
     UninstallFails, UserSets
<1>1. CASE BackupPolicyDword
  <2>1. /\ phase = "backup" /\ ~installed /\ at \in Policies
        /\ backup' = [backup EXCEPT ![at] = Saved(policy[at])]
        /\ at' = at + 1 /\ UNCHANGED <<policy, user, phase, installed>>
    BY <1>1, InstallerAssumption DEF BackupPolicyDword, Policies
  <2>2. policy[at] = user[at]
    BY <1>0, <2>1 DEF ValuesInv
  <2>3. \A p \in Policies : p < at + 1 => p < at \/ p = at
    BY DEF Policies
  <2>4. \A p \in Policies : p < at' => backup'[p] = Saved(user[p])
    BY <1>0, <2>1, <2>2, <2>3 DEF ValuesInv
  <2>. QED BY <1>0, <2>1, <2>4 DEF ValuesInv
<1>2. CASE WritePolicy
  <2>1. /\ phase = "write" /\ ~installed /\ at' = at + 1
        /\ policy' = [policy EXCEPT ![at] = Setting[at]]
        /\ UNCHANGED <<backup, user, phase, installed>>
    BY <1>2 DEF WritePolicy
  <2>2. \A p \in Policies : p >= at + 1 => p >= at /\ p # at
    BY DEF Policies
  <2>. QED BY <1>0, <2>1, <2>2 DEF ValuesInv
<1>3. CASE RestorePolicyDword
  <2>1. /\ phase = "restore" /\ installed
        /\ policy' = IF backup[at].saved THEN [policy EXCEPT ![at] = backup[at].value]
                                         ELSE policy
        /\ backup' = [backup EXCEPT ![at] = NoBackup]
        /\ UNCHANGED <<user, phase, installed>> /\ ~NoBackup.saved
    BY <1>3 DEF RestorePolicyDword, NoBackup
  <2>2. ASSUME NEW p \in Policies PROVE Kept(p)'
    <3>1. Kept(p)
      BY <1>0, <2>1 DEF ValuesInv
    <3>2. CASE p = at
      <4>1. ~backup'[p].saved /\ policy'[p] = user[p]
        BY <2>1, <3>1, <3>2 DEF Kept
      <4>. QED BY <2>1, <4>1 DEF Kept
    <3>3. CASE p # at
      <4>1. backup'[p] = backup[p] /\ policy'[p] = policy[p]
        BY <2>1, <3>3
      <4>. QED BY <2>1, <3>1, <4>1 DEF Kept
    <3>. QED BY <3>2, <3>3
  <2>. QED BY <2>1, <2>2 DEF ValuesInv
<1>4. ASSUME NEW p \in Policies, NEW v \in Maybe, UserSets(p, v)
      PROVE  ValuesInv'
  BY <1>0, <1>4 DEF UserSets, ValuesInv, Kept
<1>5. CASE UNCHANGED vars
  BY <1>0, <1>5 DEF vars, ValuesInv, Kept
<1>. QED BY <1>0, <1>1, <1>2, <1>3, <1>4, <1>5, ValuesKeptByControl DEF Next

LEMMA InstallerNext == InstallerInv /\ [Next]_vars => InstallerInv'
BY InstallerTypesKept, PhasesKept, ValuesKept DEF InstallerInv

-----------------------------------------------------------------------------

(***************************************************************************)
(* BackupPolicyDword, RestorePolicyDword and the order setup calls them in *)
(* bring every policy back, unless a setup was torn between its first      *)
(* [Registry] line and its registration.                                   *)
(***************************************************************************)
THEOREM PoliciesAreRestored == Spec => []PoliciesComeBack
<1>1. InstallerInv => PoliciesComeBack
  <2>. SUFFICES ASSUME InstallerInv, phase = "rest", ~installed, ~torn
                PROVE  policy = user
    BY DEF PoliciesComeBack
  <2>1. \A p \in Policies : policy[p] = user[p]
    BY DEF InstallerInv, ValuesInv
  <2>. QED BY <2>1 DEF InstallerInv, InstallerTypes
<1>. QED BY <1>1, InstallerInit, InstallerNext, PTL DEF Spec

(***************************************************************************)
(* An upgrade, which restores and then saves again, never takes the old    *)
(* version's settings for the user's.                                      *)
(***************************************************************************)
THEOREM BackupIsKept == Spec => []BackupIsTheUsers
<1>1. InstallerInv => BackupIsTheUsers
  BY DEF InstallerInv, ValuesInv, Kept, BackupIsTheUsers
<1>. QED BY <1>1, InstallerInit, InstallerNext, PTL DEF Spec
=============================================================================
