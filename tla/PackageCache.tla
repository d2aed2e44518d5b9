---------------------------- MODULE PackageCache ----------------------------
(***************************************************************************)
(* The lookup of LSA package ids in src/auth/SerializationAuth.cpp: one    *)
(* signed slot per package, filled without a lock by whichever thread      *)
(* comes first.                                                            *)
(*                                                                         *)
(* Nothing here relies on the LSA giving the same id twice or on an id     *)
(* that fits the signed slot.                                              *)
(***************************************************************************)
EXTENDS Integers

CONSTANTS
  Threads,   \* threads that may pack credentials at the same time
  Packages,  \* the two package names
  MaxLong,   \* the largest LONG
  Ids        \* the ULONG ids the LSA may give, 0 included

ASSUME LongAssumption == /\ MaxLong \in Nat
                         /\ Ids \subseteq 0 .. (2 * MaxLong + 1)

VARIABLES
  slot,      \* g_cachedKerberosPkg, g_cachedMsvPkg
  pc,        \* where each thread is
  pkg,       \* the package it asks for
  resolved,  \* its local id
  id,        \* what its last call returned, 0 when it failed
  handles,   \* LSA connections it holds
  given,     \* history: ids the LSA gave for a package, 0 and errors aside
  answers    \* history: ids a call returned for a package

vars == <<slot, pc, pkg, resolved, id, handles, given, answers>>

Steps == {"idle", "probe", "connect", "lookup", "publish"}

Init ==
  /\ slot = [p \in Packages |-> 0]
  /\ pc = [t \in Threads |-> "idle"]
  /\ pkg \in [Threads -> Packages]
  /\ resolved = [t \in Threads |-> 0]
  /\ id = [t \in Threads |-> 0]
  /\ handles = [t \in Threads |-> 0]
  /\ given = [p \in Packages |-> {}]
  /\ answers = [p \in Packages |-> {}]

TypeOK ==
  /\ slot \in [Packages -> -(MaxLong + 1) .. MaxLong]
  /\ pc \in [Threads -> Steps]
  /\ pkg \in [Threads -> Packages]
  /\ resolved \in [Threads -> Ids \cup {0}]
  /\ id \in [Threads -> 0 .. (2 * MaxLong + 1)]
  /\ handles \in [Threads -> Int]
  /\ given \in [Packages -> SUBSET Ids]
  /\ answers \in [Packages -> SUBSET (0 .. (2 * MaxLong + 1))]

\* The casts between ULONG and LONG.
ToLong(u)  == IF u > MaxLong THEN u - 2 * (MaxLong + 1) ELSE u
ToULong(l) == IF l < 0 THEN l + 2 * (MaxLong + 1) ELSE l

Goto(t, step) == pc' = [pc EXCEPT ![t] = step]

Answer(t, u) ==
  /\ id' = [id EXCEPT ![t] = u]
  /\ answers' = [answers EXCEPT ![pkg[t]] = @ \cup {u}]

-----------------------------------------------------------------------------

\* ResolveNegotiate or ResolveMsv.
Resolve(t, p) ==
  /\ pc[t] = "idle"
  /\ pkg' = [pkg EXCEPT ![t] = p]
  /\ id' = [id EXCEPT ![t] = 0]
  /\ Goto(t, "probe")
  /\ UNCHANGED <<slot, resolved, handles, given, answers>>

\* ResolvePkgCached: a positive slot answers the call.
Probe(t) ==
  /\ pc[t] = "probe"
  /\ LET cached == slot[pkg[t]] IN
     \/ /\ cached > 0
        /\ Answer(t, ToULong(cached))
        /\ Goto(t, "idle")
     \/ /\ cached <= 0
        /\ Goto(t, "connect")
        /\ UNCHANGED <<id, answers>>
  /\ UNCHANGED <<slot, pkg, resolved, handles, given>>

\* ResolvePkgA: LsaConnectUntrusted, which may fail.
Connect(t) ==
  /\ pc[t] = "connect"
  /\ \/ /\ handles' = [handles EXCEPT ![t] = @ + 1]
        /\ Goto(t, "lookup")
     \/ /\ Goto(t, "idle")
        /\ UNCHANGED handles
  /\ UNCHANGED <<slot, pkg, resolved, id, given, answers>>

closeLsa(t) == handles' = [handles EXCEPT ![t] = @ - 1]

\* Mutant: an id of 0 is taken for an answer.
LookupZero_IsAnId(t) ==
  /\ 0 \in Ids
  /\ closeLsa(t)
  /\ resolved' = [resolved EXCEPT ![t] = 0]
  /\ Goto(t, "publish")
  /\ UNCHANGED given

\* Mutant: the path for an id of 0 returns without closeLsa.
LookupZero_Leaks(t) ==
  /\ 0 \in Ids
  /\ Goto(t, "idle")
  /\ UNCHANGED <<resolved, given, handles>>

\* LsaLookupAuthenticationPackage fails, answers with an id of 0, which is a
\* failure too, or finds the package.  Each way closes the connection itself.
LookupFails(t) ==
  /\ closeLsa(t)
  /\ Goto(t, "idle")
  /\ UNCHANGED <<resolved, given>>

LookupZero(t) ==
  /\ 0 \in Ids
  /\ closeLsa(t)
  /\ Goto(t, "idle")
  /\ UNCHANGED <<resolved, given>>

LookupFinds(t) ==
  \E u \in Ids \ {0} :
    /\ closeLsa(t)
    /\ resolved' = [resolved EXCEPT ![t] = u]
    /\ given' = [given EXCEPT ![pkg[t]] = @ \cup {u}]
    /\ Goto(t, "publish")

Lookup(t) ==
  /\ pc[t] = "lookup"
  /\ LookupFails(t) \/ LookupZero(t) \/ LookupFinds(t)
  /\ UNCHANGED <<slot, pkg, id, answers>>

\* Mutant: the slot is stored, and the thread's own id returned.
Publish_Overwrites(t) ==
  /\ pc[t] = "publish"
  /\ slot' = [slot EXCEPT ![pkg[t]] = ToLong(resolved[t])]
  /\ Answer(t, resolved[t])
  /\ Goto(t, "idle")
  /\ UNCHANGED <<pkg, resolved, handles, given>>

\* InterlockedCompareExchange(&cacheSlot, resolved, 0).
Publish(t) ==
  /\ pc[t] = "publish"
  /\ LET prior == slot[pkg[t]] IN
     /\ slot' = IF prior = 0 THEN [slot EXCEPT ![pkg[t]] = ToLong(resolved[t])]
                             ELSE slot
     /\ Answer(t, IF prior > 0 THEN ToULong(prior) ELSE resolved[t])
  /\ Goto(t, "idle")
  /\ UNCHANGED <<pkg, resolved, handles, given>>

Resolving(t) == Probe(t) \/ Connect(t) \/ Lookup(t) \/ Publish(t)

Next ==
  \E t \in Threads : (\E p \in Packages : Resolve(t, p)) \/ Resolving(t)

Spec == Init /\ [][Next]_vars

-----------------------------------------------------------------------------

(***************************************************************************)
(* Once the slot holds a usable id, that id is what every call so far has  *)
(* returned and every later one will: two threads that resolved different  *)
(* ids at the same time agree on the one that was published first.         *)
(***************************************************************************)
AnswersAgree ==
  \A p \in Packages : slot[p] > 0 => answers[p] \subseteq {slot[p]}

(***************************************************************************)
(* A call that succeeds returns an id the LSA gave for that very package:  *)
(* never 0, never another package's, never one mangled by the signed slot. *)
(***************************************************************************)
AnswersComeFromLsa == \A p \in Packages : answers[p] \subseteq given[p]

(***************************************************************************)
(* Every LSA connection is closed once, on the error paths too: a thread   *)
(* holds one only between LsaConnectUntrusted and the end of the lookup.   *)
(***************************************************************************)
LsaHandlesReturned ==
  \A t \in Threads : handles[t] = (IF pc[t] = "lookup" THEN 1 ELSE 0)
=============================================================================
