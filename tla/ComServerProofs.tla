--------------------------- MODULE ComServerProofs ---------------------------
(***************************************************************************)
(* Objects, their counts and g_LockCount agree for any number of objects,  *)
(* references, locks and creating calls that run at the same time.         *)
(***************************************************************************)
EXTENDS ComServer, FiniteSetTheorems, TLAPS

ComTypes ==
  /\ kind \in [Objects -> Kinds]
  /\ ref \in [Objects -> Int]
  /\ call \in [Objects -> {"none", "new", "asked"}]
  /\ maker \in [Objects -> Objects]
  /\ held \in [Objects -> Nat]
  /\ lockCount \in Int
  /\ locks \in Nat

\* References are the clients' and, until it returns, the creating call's;
\* before QueryInterface no client has one.
CountInv ==
  \A o \in Objects :
    /\ ref[o] = held[o] + (IF call[o] = "none" THEN 0 ELSE 1)
    /\ kind[o] = "free" <=> ref[o] = 0
    /\ call[o] = "new" => held[o] = 0

\* A creating call runs on a factory: the one it creates, or one a client keeps.
MakerInv ==
  \A o \in Objects : call[o] # "none" =>
    /\ kind[maker[o]] = "factory"
    /\ maker[o] # o => call[maker[o]] = "none" /\ held[maker[o]] > 0

Unpinned == ~loaded => Factories = {} /\ locks = 0

ComInv ==
  /\ ComTypes
  /\ CountInv
  /\ MakerInv
  /\ LockCountIsExact
  /\ Unpinned

LEMMA FactoriesAreFinite ==
  IsFiniteSet(Factories) /\ Cardinality(Factories) \in Nat
<1>1. Factories \subseteq Objects
  BY DEF Factories
<1>. QED BY <1>1, ComAssumption, FS_Subset, FS_CardinalityType

LEMMA ComInit == Init => ComInv
<1>. SUFFICES ASSUME Init PROVE ComInv
  OBVIOUS
<1>1. ComTypes /\ CountInv /\ MakerInv
  BY DEF Init, ComTypes, CountInv, MakerInv, Kinds
<1>2. Factories = {}
  BY DEF Init, Factories
<1>3. LockCountIsExact /\ Unpinned
  BY <1>2, FS_EmptySet DEF Init, LockCountIsExact, Unpinned
<1>. QED BY <1>1, <1>3 DEF ComInv

-----------------------------------------------------------------------------
(* What the steps have in common.                                           *)

\* No object has come or gone, and no count has changed.
LEMMA ObjectsStay ==
  ASSUME ComInv, UNCHANGED <<objVars, lockCount, locks>>,
         loaded' \/ (Factories = {} /\ locks = 0)
  PROVE  ComInv'
BY DEF ComInv, ComTypes, CountInv, MakerInv, LockCountIsExact, Unpinned,
       Factories, objVars

\* A method runs on a factory a client holds, so the DLL is there.
LEMMA FactoryKeepsDll ==
  ASSUME ComInv, NEW f \in Objects, kind[f] = "factory"
  PROVE  loaded
BY DEF ComInv, Unpinned, Factories

\* The constructor: one more object, its reference the call's own.
LEMMA NewObject ==
  ASSUME ComInv, NEW o \in Objects, NEW k \in {"factory", "provider"},
         NEW f \in Objects, New(o, k, f), lockCount' \in Int, locks' = locks,
         k = "factory" => f = o,
         k = "provider" => kind[f] = "factory" /\ held[f] > 0 /\ call[f] = "none"
  PROVE  ComTypes' /\ CountInv' /\ MakerInv'
<1>. USE DEF ComInv, ComTypes
<1>1. ref[o] = 0 /\ held[o] = 0 /\ call[o] = "none"
  BY DEF New, CountInv
<1>2. CountInv'
  BY <1>1 DEF New, CountInv
<1>3. ASSUME NEW q \in Objects, call'[q] # "none"
      PROVE  /\ kind'[maker'[q]] = "factory"
             /\ maker'[q] # q => call'[maker'[q]] = "none" /\ held'[maker'[q]] > 0
  <2>1. CASE q = o
    BY <1>1, <2>1 DEF New
  <2>2. CASE q # o
    <3>1. call[q] # "none" /\ maker'[q] = maker[q] /\ maker[q] \in Objects
      BY <1>3, <2>2 DEF New
    <3>2. kind[maker[q]] = "factory" /\ maker[q] # o
      BY <3>1 DEF MakerInv, New
    <3>. QED BY <3>1, <3>2 DEF MakerInv, New
  <2>. QED BY <2>1, <2>2
<1>4. ComTypes'
  BY DEF New, Kinds
<1>. QED BY <1>2, <1>3, <1>4 DEF MakerInv

\* The code of Release counts down what it should.
LEMMA DropCounts ==
  ASSUME ComInv, NEW o \in Objects, kind[o] # "free", Drop(o),
         UNCHANGED <<locks, loaded>>, loaded
  PROVE  LockCountIsExact' /\ Unpinned' /\ lockCount' \in Int
<1>. USE DEF ComInv, ComTypes
<1>1. CASE ref[o] = 1 /\ kind[o] = "factory"
  <2>1. Factories' = Factories \ {o} /\ o \in Factories
    BY <1>1 DEF Drop, Factories
  <2>2. Cardinality(Factories') = Cardinality(Factories) - 1
    BY <2>1, FactoriesAreFinite, FS_RemoveElement
  <2>3. lockCount' = lockCount - 1
    BY <1>1 DEF Drop
  <2>. QED BY <2>2, <2>3, FactoriesAreFinite DEF LockCountIsExact, Unpinned
<1>2. CASE ~(ref[o] = 1 /\ kind[o] = "factory")
  <2>1. Factories' = Factories /\ lockCount' = lockCount
    BY <1>2 DEF Drop, Factories
  <2>. QED BY <2>1 DEF LockCountIsExact, Unpinned
<1>. QED BY <1>1, <1>2

-----------------------------------------------------------------------------
(* The steps.                                                               *)

LEMMA DllGetClassObjectStep ==
  ASSUME ComInv, NEW o \in Objects, DllGetClassObject(o)
  PROVE  ComInv'
<1>1. /\ New(o, "factory", o) /\ lockCount' = lockCount + 1
      /\ locks' = locks /\ loaded' = loaded /\ loaded
  BY DEF DllGetClassObject
<1>2. ComTypes' /\ CountInv' /\ MakerInv'
  BY <1>1, NewObject DEF ComInv, ComTypes
<1>3. Factories' = Factories \cup {o} /\ o \notin Factories
  BY <1>1 DEF New, ComInv, ComTypes, Factories
<1>4. Cardinality(Factories') = Cardinality(Factories) + 1
  BY <1>3, FactoriesAreFinite, FS_AddElement
<1>5. LockCountIsExact' /\ Unpinned'
  BY <1>1, <1>4, FactoriesAreFinite DEF ComInv, ComTypes, LockCountIsExact, Unpinned
<1>. QED BY <1>2, <1>5 DEF ComInv

LEMMA CreateInstanceStep ==
  ASSUME ComInv, NEW f \in Objects, NEW o \in Objects, CreateInstance(f, o)
  PROVE  ComInv'
<1>1. /\ kind[f] = "factory" /\ held[f] > 0 /\ call[f] = "none"
      /\ New(o, "provider", f) /\ UNCHANGED <<lockCount, locks, loaded>>
  BY DEF CreateInstance
<1>2. ComTypes' /\ CountInv' /\ MakerInv'
  BY <1>1, NewObject DEF ComInv, ComTypes
<1>3. Factories' = Factories
  BY <1>1 DEF New, ComInv, ComTypes, Factories
<1>. QED BY <1>1, <1>2, <1>3 DEF ComInv, LockCountIsExact, Unpinned

LEMMA QueryInterfaceStep ==
  ASSUME ComInv, NEW o \in Objects, QueryInterface(o)
  PROVE  ComInv'
<1>. USE DEF ComInv, ComTypes
<1>1. UNCHANGED <<kind, maker, lockCount, locks, loaded>> /\ call[o] = "new"
      /\ call' = [call EXCEPT ![o] = "asked"]
  BY DEF QueryInterface
<1>2. ref[o] = 1 /\ held[o] = 0
  BY <1>1 DEF CountInv
<1>3. CASE ref' = [ref EXCEPT ![o] = @ + 1] /\ held' = [held EXCEPT ![o] = 1]
  <2>1. ComTypes' /\ CountInv'
    BY <1>1, <1>2, <1>3 DEF CountInv
  <2>2. MakerInv'
    BY <1>1, <1>3 DEF MakerInv
  <2>. QED BY <1>1, <2>1, <2>2 DEF LockCountIsExact, Unpinned, Factories
<1>4. CASE UNCHANGED <<ref, held>>
  <2>1. ComTypes' /\ CountInv'
    BY <1>1, <1>2, <1>4 DEF CountInv
  <2>2. MakerInv'
    BY <1>1, <1>4 DEF MakerInv
  <2>. QED BY <1>1, <2>1, <2>2 DEF LockCountIsExact, Unpinned, Factories
<1>. QED BY <1>3, <1>4 DEF QueryInterface

LEMMA CreatorReleasesStep ==
  ASSUME ComInv, NEW o \in Objects, CreatorReleases(o)
  PROVE  ComInv'
<1>. USE DEF ComInv, ComTypes
<1>1. /\ call[o] = "asked" /\ Drop(o) /\ UNCHANGED <<held, locks, loaded>>
      /\ call' = [call EXCEPT ![o] = "none"] /\ maker' = [maker EXCEPT ![o] = o]
  BY DEF CreatorReleases, Returns
<1>2. ref[o] = held[o] + 1 /\ kind[o] # "free"
  BY <1>1 DEF CountInv
<1>3. loaded
  BY <1>1, FactoryKeepsDll DEF MakerInv
<1>4. LockCountIsExact' /\ Unpinned' /\ lockCount' \in Int
  BY <1>1, <1>2, <1>3, DropCounts
<1>5. ComTypes' /\ CountInv'
  BY <1>1, <1>2, <1>4 DEF Drop, CountInv, Kinds
<1>6. ASSUME NEW q \in Objects, call'[q] # "none"
      PROVE  /\ kind'[maker'[q]] = "factory"
             /\ maker'[q] # q => call'[maker'[q]] = "none" /\ held'[maker'[q]] > 0
  <2>1. q # o /\ call[q] # "none" /\ maker'[q] = maker[q] /\ maker[q] \in Objects
    BY <1>1, <1>6
  <2>2. maker[q] # o /\ kind[maker[q]] = "factory"
    BY <1>1, <2>1 DEF MakerInv
  <2>. QED BY <1>1, <2>1, <2>2 DEF MakerInv, Drop
<1>. QED BY <1>4, <1>5, <1>6 DEF MakerInv

LEMMA GetCredentialAtStep ==
  ASSUME ComInv, NEW p \in Objects, NEW o \in Objects, GetCredentialAt(p, o)
  PROVE  ComInv'
<1>. USE DEF ComInv, ComTypes
<1>1. /\ kind[o] = "free" /\ kind' = [kind EXCEPT ![o] = "tile"]
      /\ ref' = [ref EXCEPT ![o] = 1] /\ held' = [held EXCEPT ![o] = 1]
      /\ UNCHANGED <<call, maker, lockCount, locks, loaded>>
  BY DEF GetCredentialAt
<1>2. ref[o] = 0 /\ held[o] = 0 /\ call[o] = "none"
  BY <1>1 DEF CountInv
<1>3. ComTypes' /\ CountInv'
  BY <1>1, <1>2 DEF CountInv, Kinds
<1>4. MakerInv'
  BY <1>1 DEF MakerInv
<1>5. Factories' = Factories
  BY <1>1 DEF Factories
<1>. QED BY <1>1, <1>3, <1>4, <1>5 DEF LockCountIsExact, Unpinned

LEMMA AddRefStep ==
  ASSUME ComInv, NEW o \in Objects, AddRef(o)
  PROVE  ComInv'
<1>. USE DEF ComInv, ComTypes
<1>1. ComTypes' /\ CountInv'
  BY DEF AddRef, CountInv
<1>2. MakerInv'
  BY DEF AddRef, MakerInv
<1>. QED BY <1>1, <1>2 DEF AddRef, LockCountIsExact, Unpinned, Factories

LEMMA ReleaseStep ==
  ASSUME ComInv, NEW o \in Objects, Release(o)
  PROVE  ComInv'
<1>. USE DEF ComInv, ComTypes
<1>1. /\ loaded /\ call[o] = "none" /\ held[o] > 0
      /\ held' = [held EXCEPT ![o] = @ - 1] /\ Drop(o)
      /\ UNCHANGED <<call, maker, locks, loaded>>
  BY DEF Release, MayRelease
<1>2. ref[o] = held[o] /\ kind[o] # "free"
  BY <1>1 DEF CountInv
<1>3. LockCountIsExact' /\ Unpinned' /\ lockCount' \in Int
  BY <1>1, <1>2, DropCounts
<1>4. ComTypes' /\ CountInv'
  BY <1>1, <1>2, <1>3 DEF Drop, CountInv, Kinds
<1>5. ASSUME NEW q \in Objects, call'[q] # "none"
      PROVE  /\ kind'[maker'[q]] = "factory"
             /\ maker'[q] # q => call'[maker'[q]] = "none" /\ held'[maker'[q]] > 0
  <2>1. q # o /\ call[q] # "none" /\ maker'[q] = maker[q] /\ maker[q] \in Objects
    BY <1>1, <1>5
  <2>2. CASE maker[q] # o
    BY <1>1, <2>1, <2>2 DEF MakerInv, Drop
  <2>3. CASE maker[q] = o
    <3>1. held[o] > 1 /\ kind[o] = "factory"
      BY <2>1, <2>3 DEF Release, MayRelease, MakerInv
    <3>2. kind'[o] = kind[o] /\ held'[o] > 0
      BY <1>1, <1>2, <3>1 DEF Drop
    <3>. QED BY <1>1, <2>1, <2>3, <3>1, <3>2
  <2>. QED BY <2>2, <2>3
<1>. QED BY <1>3, <1>4, <1>5 DEF MakerInv

LEMMA LockServerStep ==
  ASSUME ComInv, NEW f \in Objects, NEW fLock \in BOOLEAN, LockServer(f, fLock)
  PROVE  ComInv'
<1>. USE DEF ComInv, ComTypes
<1>1. f \in Factories /\ UNCHANGED <<kind, ref, call, maker, held, loaded>>
  BY DEF LockServer, Factories, objVars
<1>2. loaded
  BY <1>1, FactoryKeepsDll DEF Factories
<1>3. Factories' = Factories /\ CountInv' /\ MakerInv'
  BY <1>1 DEF Factories, CountInv, MakerInv
<1>4. locks' \in Nat /\ lockCount' - lockCount = locks' - locks /\ lockCount' \in Int
  BY DEF LockServer
<1>. QED BY <1>1, <1>2, <1>3, <1>4, FactoriesAreFinite DEF LockCountIsExact, Unpinned

LEMMA UnloadStep ==
  ASSUME ComInv, DllCanUnloadNow
  PROVE  ComInv'
<1>1. lockCount = 0 /\ UNCHANGED <<objVars, lockCount, locks>>
  BY DEF DllCanUnloadNow
<1>2. Cardinality(Factories) = 0 /\ locks = 0
  BY <1>1, FactoriesAreFinite DEF ComInv, ComTypes, LockCountIsExact
<1>3. Factories = {}
  BY <1>2, FactoriesAreFinite, FS_EmptySet
<1>. QED BY <1>1, <1>2, <1>3, ObjectsStay

LEMMA ComNext == ComInv /\ [Next]_vars => ComInv'
<1>. SUFFICES ASSUME ComInv, [Next]_vars PROVE ComInv'
  OBVIOUS
<1>1. CASE LoadLibrary \/ DllRegisterServer \/ DllUnregisterServer \/ UNCHANGED vars
  <2>1. UNCHANGED <<objVars, lockCount, locks>> /\ (loaded' \/ loaded' = loaded)
    BY <1>1 DEF LoadLibrary, DllRegisterServer, DllUnregisterServer, vars
  <2>. QED BY <2>1, ObjectsStay DEF ComInv, Unpinned
<1>. QED BY <1>1, DllGetClassObjectStep, CreateInstanceStep, QueryInterfaceStep,
            CreatorReleasesStep, GetCredentialAtStep, AddRefStep, ReleaseStep,
            LockServerStep, UnloadStep
         DEF Next

-----------------------------------------------------------------------------

(***************************************************************************)
(* The three classes delete themselves with the last reference of their    *)
(* clients, and no creating call leaks or drops one, on the path where     *)
(* QueryInterface refuses either.                                          *)
(***************************************************************************)
THEOREM ObjectsAreHeld == Spec => []ObjectsLiveWhileHeld
<1>1. ComInv => ObjectsLiveWhileHeld
  BY DEF ComInv, ComTypes, CountInv, ObjectsLiveWhileHeld
<1>. QED BY <1>1, ComInit, ComNext, PTL DEF Spec

(***************************************************************************)
(* g_LockCount counts the live factories and the server locks.             *)
(***************************************************************************)
THEOREM LocksAreCounted == Spec => []LockCountIsExact
<1>1. ComInv => LockCountIsExact
  BY DEF ComInv
<1>. QED BY <1>1, ComInit, ComNext, PTL DEF Spec

(***************************************************************************)
(* DllCanUnloadNow lets COM unmap the DLL only when no factory, no server  *)
(* lock and no creating call is left.                                      *)
(***************************************************************************)
THEOREM DllOutlivesFactories == Spec => []FactoriesKeepTheDll
<1>1. ComInv => FactoriesKeepTheDll
  <2>1. ASSUME ComInv, NEW o \in Objects, call[o] # "none" PROVE loaded
    BY <2>1, FactoryKeepsDll DEF ComInv, ComTypes, MakerInv
  <2>. QED BY <2>1 DEF ComInv, Unpinned, FactoriesKeepTheDll
<1>. QED BY <1>1, ComInit, ComNext, PTL DEF Spec
=============================================================================
