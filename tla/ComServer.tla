------------------------------ MODULE ComServer ------------------------------
(***************************************************************************)
(* The COM side of the DLL: class factory, provider and tile objects with  *)
(* their reference counts (src/com/ClassFactory.cpp, the IUnknown parts of *)
(* src/core/ProviderCore.cpp), the lock count DllCanUnloadNow looks at,    *)
(* and the registry keys of DllRegisterServer (src/com/dllmain.cpp).       *)
(*                                                                         *)
(* A creating call is three steps: the constructor, with a reference of    *)
(* the call's own, QueryInterface, and the Release of that reference.      *)
(* Other clients, other creating calls and COM act between them.           *)
(***************************************************************************)
EXTENDS Integers, FiniteSets

CONSTANTS
  Objects,    \* addresses an object may be created at
  MaxRefs,    \* bound: references a client takes on one object
  MaxLocks    \* bound: LockServer(TRUE) calls not undone yet

ASSUME ComAssumption == /\ IsFiniteSet(Objects)
                        /\ MaxRefs \in Nat /\ MaxLocks \in Nat

VARIABLES
  kind,       \* what lives at an address
  ref,        \* its _ref
  call,       \* the creating call it is private to: "none", "new" after the
              \* constructor, "asked" after QueryInterface
  maker,      \* the factory whose CreateInstance that is
  held,       \* references its clients own
  lockCount,  \* g_LockCount
  locks,      \* LockServer(TRUE) calls of clients, not undone yet
  loaded,     \* the DLL is mapped
  keys        \* in the registry: the keys of the class, of its server and of
              \* the provider, and the server's path and threading model

objVars == <<kind, ref, call, maker, held>>
vars    == <<objVars, lockCount, locks, loaded, keys>>

Kinds == {"free", "factory", "provider", "tile"}

TypeOK ==
  /\ kind \in [Objects -> Kinds]
  /\ ref \in [Objects -> Int]
  /\ call \in [Objects -> {"none", "new", "asked"}]
  /\ maker \in [Objects -> Objects]
  /\ held \in [Objects -> Nat]
  /\ lockCount \in Int
  /\ locks \in Nat
  /\ loaded \in BOOLEAN
  /\ keys \in SUBSET {"clsid", "inproc", "path", "apartment", "provider"}

Init ==
  /\ kind = [o \in Objects |-> "free"]
  /\ ref = [o \in Objects |-> 0]
  /\ call = [o \in Objects |-> "none"]
  /\ maker = [o \in Objects |-> o]
  /\ held = [o \in Objects |-> 0]
  /\ lockCount = 0
  /\ locks = 0
  /\ loaded = FALSE
  /\ keys = {}

-----------------------------------------------------------------------------

\* COM maps the DLL it finds in the registry, with its globals initialised.
LoadLibrary ==
  /\ ~loaded /\ "path" \in keys
  /\ loaded' = TRUE
  /\ UNCHANGED <<objVars, lockCount, locks, keys>>

\* new: the constructor starts _ref at 1, a reference of the creating call.
\* Without memory the call returns and has done nothing.
New(o, k, f) ==
  /\ kind[o] = "free"
  /\ kind' = [kind EXCEPT ![o] = k]
  /\ ref' = [ref EXCEPT ![o] = 1]
  /\ call' = [call EXCEPT ![o] = "new"]
  /\ maker' = [maker EXCEPT ![o] = f]
  /\ UNCHANGED held

\* The factory's constructor counts it.
DllGetClassObject(o) ==
  /\ loaded
  /\ New(o, "factory", o)
  /\ lockCount' = lockCount + 1
  /\ UNCHANGED <<locks, loaded, keys>>

\* ClassFactory::CreateInstance on a factory the client holds.
CreateInstance(f, o) ==
  /\ kind[f] = "factory" /\ held[f] > 0 /\ call[f] = "none"
  /\ New(o, "provider", f)
  /\ UNCHANGED <<lockCount, locks, loaded, keys>>

\* Both then ask the new object for the client's interface, which it has or
\* has not; a pointer it gives away is a reference of the client's.
QueryInterface(o) ==
  /\ call[o] = "new"
  /\ call' = [call EXCEPT ![o] = "asked"]
  /\ \/ /\ ref' = [ref EXCEPT ![o] = @ + 1]
        /\ held' = [held EXCEPT ![o] = 1]
     \/ UNCHANGED <<ref, held>>
  /\ UNCHANGED <<kind, maker, lockCount, locks, loaded, keys>>

\* IUnknown::Release: the last reference deletes the object, and a factory
\* gives its count back.
Drop(o) ==
  /\ ref' = [ref EXCEPT ![o] = @ - 1]
  /\ kind' = IF ref[o] = 1 THEN [kind EXCEPT ![o] = "free"] ELSE kind
  /\ lockCount' = IF ref[o] = 1 /\ kind[o] = "factory"
                  THEN lockCount - 1 ELSE lockCount

\* The call is over: the object is its clients' alone.
Returns(o) ==
  /\ call' = [call EXCEPT ![o] = "none"]
  /\ maker' = [maker EXCEPT ![o] = o]

\* Mutant: a refused interface returns at once, before the Release.
CreatorReleases_EarlyReturn(o) ==
  /\ call[o] = "asked"
  /\ IF held[o] > 0 THEN Drop(o) ELSE UNCHANGED <<ref, kind, lockCount>>
  /\ Returns(o)
  /\ UNCHANGED <<held, locks, loaded, keys>>

\* The call gives its own reference up, whatever QueryInterface said.
CreatorReleases(o) ==
  /\ call[o] = "asked"
  /\ Drop(o)
  /\ Returns(o)
  /\ UNCHANGED <<held, locks, loaded, keys>>

\* testCPProvider::GetCredentialAt asks for no interface: the reference of the
\* constructor is the caller's.  No method runs in a DLL that is gone.
GetCredentialAt(p, o) ==
  /\ loaded
  /\ kind[p] = "provider" /\ held[p] > 0 /\ call[p] = "none"
  /\ kind[o] = "free"
  /\ kind' = [kind EXCEPT ![o] = "tile"]
  /\ ref' = [ref EXCEPT ![o] = 1]
  /\ held' = [held EXCEPT ![o] = 1]
  /\ UNCHANGED <<call, maker, lockCount, locks, loaded, keys>>

\* A client has an object once the call that created it has returned.
AddRef(o) ==
  /\ loaded
  /\ call[o] = "none"
  /\ held[o] > 0 /\ held[o] < MaxRefs
  /\ ref' = [ref EXCEPT ![o] = @ + 1]
  /\ held' = [held EXCEPT ![o] = @ + 1]
  /\ UNCHANGED <<kind, call, maker, lockCount, locks, loaded, keys>>

\* A client's Release.  It keeps a factory while a call on it is running.
MayRelease(o) ==
  /\ loaded
  /\ call[o] = "none"
  /\ held[o] > 0
  /\ held[o] > 1 \/ \A q \in Objects : call[q] # "none" => maker[q] # o

\* Mutant: every Release of a factory uncounts it.
Release_Uncounts(o) ==
  /\ MayRelease(o)
  /\ held' = [held EXCEPT ![o] = @ - 1]
  /\ ref' = [ref EXCEPT ![o] = @ - 1]
  /\ kind' = IF ref[o] = 1 THEN [kind EXCEPT ![o] = "free"] ELSE kind
  /\ lockCount' = IF kind[o] = "factory" THEN lockCount - 1 ELSE lockCount
  /\ UNCHANGED <<call, maker, locks, loaded, keys>>

Release(o) ==
  /\ MayRelease(o)
  /\ held' = [held EXCEPT ![o] = @ - 1]
  /\ Drop(o)
  /\ UNCHANGED <<call, maker, locks, loaded, keys>>

\* ClassFactory::LockServer; a client undoes only its own locks.
LockServer(f, fLock) ==
  /\ kind[f] = "factory" /\ held[f] > 0 /\ call[f] = "none"
  /\ IF fLock THEN locks < MaxLocks ELSE locks > 0
  /\ locks' = IF fLock THEN locks + 1 ELSE locks - 1
  /\ lockCount' = IF fLock THEN lockCount + 1 ELSE lockCount - 1
  /\ UNCHANGED <<objVars, loaded, keys>>

\* Mutant: outstanding server locks do not keep the DLL.
DllCanUnloadNow_IgnoresLocks ==
  /\ loaded
  /\ lockCount = locks
  /\ loaded' = FALSE
  /\ UNCHANGED <<objVars, lockCount, locks, keys>>

\* COM asks and unmaps the DLL on S_OK.  Providers and tiles do not count,
\* so this step is enabled while they live.
DllCanUnloadNow ==
  /\ loaded
  /\ lockCount = 0
  /\ loaded' = FALSE
  /\ UNCHANGED <<objVars, lockCount, locks, keys>>

-----------------------------------------------------------------------------
(* Registration.                                                            *)

\* The server's key, which brings the class's, its path and threading model,
\* then the provider's key.  A key that cannot be created ends the call and
\* takes nothing back; a value that cannot be written goes unnoticed.
DllRegisterServer ==
  /\ \/ UNCHANGED keys
     \/ \E values \in SUBSET {"path", "apartment"}, last \in SUBSET {"provider"} :
          keys' = keys \cup {"clsid", "inproc"} \cup values \cup last
  /\ UNCHANGED <<objVars, lockCount, locks, loaded>>

\* Three RegDeleteKeyW whose results are ignored.  A key with a subkey stays.
DllUnregisterServer ==
  /\ \E failed \in SUBSET {"inproc", "clsid", "provider"} :
       LET server == IF "inproc" \in failed THEN {}
                     ELSE {"inproc", "path", "apartment"}
           class  == IF "clsid" \in failed \/ "inproc" \in keys \ server
                     THEN {} ELSE {"clsid"}
       IN  keys' = keys \ (server \cup class \cup ({"provider"} \ failed))
  /\ UNCHANGED <<objVars, lockCount, locks, loaded>>

Next ==
  \/ LoadLibrary
  \/ \E o \in Objects :
       \/ DllGetClassObject(o) \/ QueryInterface(o) \/ CreatorReleases(o)
       \/ AddRef(o) \/ Release(o)
  \/ \E f, o \in Objects : CreateInstance(f, o) \/ GetCredentialAt(f, o)
  \/ \E f \in Objects : LockServer(f, TRUE) \/ LockServer(f, FALSE)
  \/ DllCanUnloadNow
  \/ DllRegisterServer \/ DllUnregisterServer

Spec == Init /\ [][Next]_vars

-----------------------------------------------------------------------------

Factories == {o \in Objects : kind[o] = "factory"}

(***************************************************************************)
(* Once the call that created it has returned, an object lives exactly as  *)
(* long as a client holds a reference to it: the creating calls hand out   *)
(* what QueryInterface gave and nothing of their own, and leave no object  *)
(* behind when it refuses.                                                 *)
(***************************************************************************)
ObjectsLiveWhileHeld ==
  \A o \in Objects : call[o] = "none" => (kind[o] = "free" <=> held[o] = 0)

(***************************************************************************)
(* g_LockCount is the number of live factories and outstanding locks, so   *)
(* it never goes below zero and the DLL is not pinned when both are gone.  *)
(***************************************************************************)
LockCountIsExact == lockCount = Cardinality(Factories) + locks

(***************************************************************************)
(* The DLL is never unmapped under a class factory, a server lock or a     *)
(* call that is creating an object, one whose factory is refused included: *)
(* the count falls only in that call's last statement.  Nothing is said of *)
(* providers, tiles and timers: nothing counts those.                      *)
(***************************************************************************)
FactoriesKeepTheDll ==
  ~loaded => Factories = {} /\ locks = 0 /\ \A o \in Objects : call[o] = "none"
=============================================================================
