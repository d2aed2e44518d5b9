-------------------------- MODULE CredentialPacking --------------------------
(***************************************************************************)
(* PackAutoEx of src/auth/Serialization.cpp: PackageCache finds the        *)
(* package, CredentialLayout says what the blob looks like.  Threads pack  *)
(* the same credential, so that they race for one slot of the cache.       *)
(***************************************************************************)
EXTENDS PackageCache, CredentialLayout

CONSTANTS
  Msv, Kerberos,   \* the two packages
  Inputs           \* the credentials explored

ASSUME PackingAssumption == /\ Packages = {Msv, Kerberos}
                            /\ Inputs \subseteq Credentials

VARIABLES
  input,   \* the credential of the broker's message
  stage,   \* where each thread is inside PackAutoEx
  out      \* its Ser::Packed and the verdict

packVars == <<input, stage, out>>

PackInit ==
  /\ Init
  /\ input \in Inputs
  /\ stage = [t \in Threads |-> "idle"]
  /\ out = [t \in Threads |-> NothingPacked]

PackageOf(in) == IF UsesMsv(in) THEN Msv ELSE Kerberos

At(t, s) == stage' = [stage EXCEPT ![t] = s]

\* out = Packed{}; an empty user is refused before anything is asked for.
PackAutoEx(t) ==
  /\ stage[t] = "idle"
  /\ out' = [out EXCEPT ![t] = NothingPacked]
  /\ \/ /\ input.user = 0
        /\ UNCHANGED <<stage, vars>>
     \/ /\ input.user > 0
        /\ Resolve(t, PackageOf(input))
        /\ At(t, "resolve")
  /\ UNCHANGED input

ResolvePackage(t) ==
  /\ stage[t] = "resolve"
  /\ Resolving(t)
  /\ UNCHANGED packVars

\* Without a package, the logon id of an unlock, or memory: false.
PackFails(t) ==
  /\ stage[t] = "resolve" /\ pc[t] = "idle"
  /\ At(t, "idle")
  /\ UNCHANGED <<vars, input, out>>

PackSucceeds(t) ==
  /\ stage[t] = "resolve" /\ pc[t] = "idle" /\ id[t] # 0
  /\ out' = [out EXCEPT ![t] = Pack(input, id[t])]
  /\ At(t, "idle")
  /\ UNCHANGED <<vars, input>>

PackNext ==
  \E t \in Threads : \/ PackAutoEx(t) \/ ResolvePackage(t)
                      \/ PackFails(t) \/ PackSucceeds(t)

PackSpec == PackInit /\ [][PackNext]_<<vars, packVars>>

-----------------------------------------------------------------------------

(***************************************************************************)
(* What the LSA reads through each of the three descriptors of a local     *)
(* account is the field it names: byte by byte, in the blob the three      *)
(* copies left behind, the domain, the user and the password and nothing   *)
(* of a neighbour, and never beyond the blob even when a length has        *)
(* wrapped.  The blob of any account is handed to the package it is laid   *)
(* out for, under an id the LSA gave for it.  A domain account's blob has  *)
(* the provider's own addresses where the LSA expects offsets: it cannot   *)
(* be read, and is left out.                                               *)
(***************************************************************************)
LsaReadsTheFields ==
  \A t \in Threads : out[t].ok =>
    /\ UsesMsv(input) => \A f \in Fields : ReadsAs(input, out[t], f)
    /\ out[t].authPkg \in given[PackageOf(input)]
=============================================================================
