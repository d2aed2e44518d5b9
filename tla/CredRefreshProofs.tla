-------------------------- MODULE CredRefreshProofs --------------------------
(***************************************************************************)
(* The delayed CredentialsChanged uses no events object after its last     *)
(* reference is gone and gives every reference back, for any number of     *)
(* requests, objects and session generations.                              *)
(***************************************************************************)
EXTENDS CredRefresh, TLAPS

RefreshTypes ==
  /\ refreshPending \in BOOLEAN
  /\ slot \in Pointers /\ slotContext \in Pointers
  /\ readers \in SUBSET Requests
  /\ ui \in [pc: UiSteps, new: Pointers]
  /\ pc \in [Requests -> Steps]
  /\ events \in [Requests -> Pointers]
  /\ context \in [Requests -> Pointers]
  /\ owned \in [Objects -> {"new", "held", "dropped"}]
  /\ rc \in [Objects -> Int]

\* Whoever is on the way owns g_refreshPending, and there is only one.
SlotOwner ==
  /\ OneRefreshInFlight
  /\ \A r \in Requests : pc[r] # "idle" => refreshPending

\* g_cpEventsLock: shared while the pointer is read and referenced, exclusive
\* while it is replaced, never both.
EventsLock ==
  /\ \A r \in Requests : r \in readers <=> pc[r] \in {"read", "addref", "unlock"}
  /\ ui.pc # "idle" => readers = {}

\* The pair g_cpEvents, g_cpEventsContext as the lock leaves it, and the
\* object a writer is about to store, which LogonUI holds for the call.
SlotInv ==
  /\ slot # None => slotContext = slot
  /\ ui.pc = "assign" => slot = None
  /\ ui.pc \in {"release", "assign"} /\ ui.new # None => owned[ui.new] = "held"

\* A request's copy of that pair, before and after it has its reference.
CopyInv ==
  \A r \in Requests :
    /\ pc[r] = "addref" => events[r] = slot /\ context[r] = slotContext /\ slot # None
    /\ pc[r] = "unlock" /\ events[r] # None => context[r] = events[r]
    /\ pc[r] \in {"alloc", "timer", "undo", "armed", "notify", "release"}
         => events[r] \in Objects /\ context[r] = events[r]

RefreshInv ==
  /\ RefreshTypes
  /\ SlotOwner
  /\ EventsLock
  /\ SlotInv
  /\ CopyInv
  /\ ReferencesBalance

\* Some request holds a reference of its own to o.
InUse(o) == \E r \in Requests : Holds(r) /\ events[r] = o

LEMMA RefreshInit == Init => RefreshInv
<1>. SUFFICES ASSUME Init PROVE RefreshInv
  OBVIOUS
<1>1. RefreshTypes
  <2>1. ui \in [pc: UiSteps, new: Pointers]
    BY DEF Init, Pointers, UiSteps
  <2>2. /\ pc \in [Requests -> Steps]
        /\ owned \in [Objects -> {"new", "held", "dropped"}]
        /\ rc \in [Objects -> Int]
    BY DEF Init, Steps
  <2>. QED BY <2>1, <2>2 DEF Init, RefreshTypes, Pointers
<1>2. SlotOwner /\ EventsLock /\ SlotInv /\ CopyInv
  BY DEF Init, SlotOwner, OneRefreshInFlight, EventsLock, SlotInv, CopyInv
<1>3. ReferencesBalance
  BY NoneAssumption DEF Init, ReferencesBalance, Holds
<1>. QED BY <1>1, <1>2, <1>3 DEF RefreshInv

-----------------------------------------------------------------------------
(* References.  An action changes one count, together with the one place   *)
(* that accounts for it.                                                    *)

\* Nothing that counts has changed.
LEMMA SameReferences ==
  ASSUME ReferencesBalance, UNCHANGED <<owned, slot, rc>>,
         \A o \in Objects : InUse(o)' <=> InUse(o)
  PROVE  ReferencesBalance'
BY DEF ReferencesBalance, InUse

\* A request has taken a reference.
LEMMA RequestTakes ==
  ASSUME RefreshTypes, ReferencesBalance, UNCHANGED <<owned, slot>>,
         NEW p \in Objects, AddRef(p), ~InUse(p), InUse(p)',
         \A o \in Objects : o # p => (InUse(o)' <=> InUse(o))
  PROVE  ReferencesBalance'
<1>1. rc' = [rc EXCEPT ![p] = @ + 1] /\ rc \in [Objects -> Int]
  BY DEF AddRef, RefreshTypes
<1>2. SUFFICES ASSUME NEW o \in Objects
               PROVE  rc'[o] = (IF owned'[o] = "held" THEN 1 ELSE 0)
                             + (IF slot' = o THEN 1 ELSE 0)
                             + (IF InUse(o)' THEN 1 ELSE 0)
  BY DEF ReferencesBalance, InUse
<1>3. rc[o] = (IF owned[o] = "held" THEN 1 ELSE 0)
            + (IF slot = o THEN 1 ELSE 0)
            + (IF InUse(o) THEN 1 ELSE 0)
  BY DEF ReferencesBalance, InUse
<1>4. CASE o = p
  BY <1>1, <1>3, <1>4
<1>5. CASE o # p
  <2>1. rc'[o] = rc[o] /\ (InUse(o)' <=> InUse(o))
    BY <1>1, <1>5
  <2>. QED BY <1>3, <2>1
<1>. QED BY <1>4, <1>5

\* A request has given its reference back.
LEMMA RequestGives ==
  ASSUME RefreshTypes, ReferencesBalance, UNCHANGED <<owned, slot>>,
         NEW p \in Objects, Release(p), InUse(p), ~InUse(p)',
         \A o \in Objects : o # p => (InUse(o)' <=> InUse(o))
  PROVE  ReferencesBalance'
<1>1. rc' = [rc EXCEPT ![p] = @ - 1] /\ rc \in [Objects -> Int]
  BY DEF Release, RefreshTypes
<1>2. SUFFICES ASSUME NEW o \in Objects
               PROVE  rc'[o] = (IF owned'[o] = "held" THEN 1 ELSE 0)
                             + (IF slot' = o THEN 1 ELSE 0)
                             + (IF InUse(o)' THEN 1 ELSE 0)
  BY DEF ReferencesBalance, InUse
<1>3. rc[o] = (IF owned[o] = "held" THEN 1 ELSE 0)
            + (IF slot = o THEN 1 ELSE 0)
            + (IF InUse(o) THEN 1 ELSE 0)
  BY DEF ReferencesBalance, InUse
<1>4. CASE o = p
  BY <1>1, <1>3, <1>4
<1>5. CASE o # p
  <2>1. rc'[o] = rc[o] /\ (InUse(o)' <=> InUse(o))
    BY <1>1, <1>5
  <2>. QED BY <1>3, <2>1
<1>. QED BY <1>4, <1>5
-----------------------------------------------------------------------------
(* The steps of a request.                                                  *)

\* While a request is on the way no other one is, so that only its own
\* references can change.
LEMMA OnlyMover ==
  ASSUME RefreshInv, NEW r \in Requests, pc[r] # "idle",
         NEW step \in Steps, Goto(r, step)
  PROVE  /\ \A s \in Requests : s # r => pc[s] = "idle" /\ pc'[s] = "idle"
         /\ pc' \in [Requests -> Steps] /\ pc'[r] = step
         /\ OneRefreshInFlight'
         /\ \A o \in Objects : InUse(o) <=> Holds(r) /\ events[r] = o
         /\ \A o \in Objects : InUse(o)' <=> Holds(r)' /\ events'[r] = o
<1>1. pc' = [pc EXCEPT ![r] = step] /\ pc \in [Requests -> Steps]
  BY DEF Goto, RefreshInv, RefreshTypes
<1>2. \A s \in Requests : s # r => pc[s] = "idle"
  BY DEF RefreshInv, SlotOwner, OneRefreshInFlight
<1>3. /\ \A s \in Requests : s # r => pc'[s] = "idle"
      /\ pc' \in [Requests -> Steps] /\ pc'[r] = step
  BY <1>1, <1>2
<1>4. OneRefreshInFlight'
  BY <1>3 DEF OneRefreshInFlight
<1>5. \A s \in Requests : s # r => ~Holds(s) /\ ~Holds(s)'
  BY <1>2, <1>3 DEF Holds
<1>. QED BY <1>2, <1>3, <1>4, <1>5 DEF InUse

LEMMA ClaimStep ==
  ASSUME RefreshInv, NEW r \in Requests, NEW g, Claim(r, g)
  PROVE  RefreshInv'
<1>. USE DEF RefreshInv
<1>1. pc' = [pc EXCEPT ![r] = "lock"] /\ \A s \in Requests : pc[s] = "idle"
  BY DEF Claim, Goto, SlotOwner
<1>2. UNCHANGED <<slot, slotContext, readers, ui, events, context, owned, rc>>
  BY DEF Claim, uiVars
<1>3. RefreshTypes'
  BY <1>1, <1>2 DEF Claim, RefreshTypes, Steps
<1>4. \A s \in Requests : pc'[s] = IF s = r THEN "lock" ELSE "idle"
  BY <1>1 DEF RefreshTypes
<1>5. SlotOwner'
  BY <1>4 DEF Claim, SlotOwner, OneRefreshInFlight
<1>6. EventsLock' /\ SlotInv' /\ CopyInv'
  BY <1>1, <1>2, <1>4 DEF EventsLock, SlotInv, CopyInv
<1>7. \A o \in Objects : InUse(o)' <=> InUse(o)
  BY <1>1, <1>4 DEF InUse, Holds
<1>. QED BY <1>2, <1>3, <1>5, <1>6, <1>7, SameReferences

LEMMA AcquireSharedStep ==
  ASSUME RefreshInv, NEW r \in Requests, AcquireShared(r)
  PROVE  RefreshInv'
<1>. USE DEF RefreshInv
<1>. DEFINE step == "read"
<1>1. pc[r] = "lock" /\ step \in Steps /\ Goto(r, step)
  BY DEF AcquireShared, Steps
<1>2. /\ \A s \in Requests : s # r => pc[s] = "idle" /\ pc'[s] = "idle"
      /\ pc' \in [Requests -> Steps] /\ pc'[r] = step
      /\ OneRefreshInFlight'
      /\ \A o \in Objects : InUse(o) <=> Holds(r) /\ events[r] = o
      /\ \A o \in Objects : InUse(o)' <=> Holds(r)' /\ events'[r] = o
  BY <1>1, OnlyMover
<1>3. UNCHANGED <<slot, slotContext, ui, owned, refreshPending, events, context, rc>>
  BY DEF AcquireShared, uiVars
<1>4. readers' = readers \cup {r} /\ ui.pc = "idle"
  BY DEF AcquireShared, WriterHolds
<1>5. RefreshTypes' /\ SlotOwner'
  BY <1>1, <1>2, <1>3, <1>4 DEF RefreshTypes, SlotOwner
<1>6. EventsLock' /\ SlotInv' /\ CopyInv'
  BY <1>1, <1>2, <1>3, <1>4 DEF EventsLock, SlotInv, CopyInv
<1>7. \A o \in Objects : InUse(o)' <=> InUse(o)
  BY <1>1, <1>2 DEF Holds
<1>. QED BY <1>3, <1>5, <1>6, <1>7, SameReferences

LEMMA ReadEventsStep ==
  ASSUME RefreshInv, NEW r \in Requests, ReadEvents(r)
  PROVE  RefreshInv'
<1>. USE DEF RefreshInv
<1>1. PICK step \in {"unlock", "addref"} : pc[r] = "read" /\ step \in Steps /\ Goto(r, step)
  BY DEF ReadEvents, Steps
<1>2. /\ \A s \in Requests : s # r => pc[s] = "idle" /\ pc'[s] = "idle"
      /\ pc' \in [Requests -> Steps] /\ pc'[r] = step
      /\ OneRefreshInFlight'
      /\ \A o \in Objects : InUse(o) <=> Holds(r) /\ events[r] = o
      /\ \A o \in Objects : InUse(o)' <=> Holds(r)' /\ events'[r] = o
  BY <1>1, OnlyMover
<1>3. UNCHANGED <<slot, slotContext, ui, owned, refreshPending, readers, rc>>
  BY DEF ReadEvents, uiVars
<1>4. /\ events' = [events EXCEPT ![r] = slot]
      /\ context' = [context EXCEPT ![r] = slotContext]
      /\ step = "addref" <=> slot # None
  BY <1>1, <1>2 DEF ReadEvents, Goto, RefreshTypes
<1>5. events'[r] = slot /\ context'[r] = slotContext
  BY <1>4 DEF RefreshTypes
<1>6. RefreshTypes' /\ SlotOwner'
  BY <1>1, <1>2, <1>3, <1>4 DEF RefreshTypes, SlotOwner
<1>7. EventsLock' /\ SlotInv'
  BY <1>1, <1>2, <1>3 DEF EventsLock, SlotInv
<1>8. CopyInv'
  BY <1>1, <1>2, <1>3, <1>4, <1>5 DEF CopyInv
<1>9. \A o \in Objects : InUse(o)' <=> InUse(o)
  BY <1>1, <1>2, <1>4, <1>5, NoneAssumption DEF Holds
<1>. QED BY <1>3, <1>6, <1>7, <1>8, <1>9, SameReferences

LEMMA AddRefEventsStep ==
  ASSUME RefreshInv, NEW r \in Requests, AddRefEvents(r)
  PROVE  RefreshInv'
<1>. USE DEF RefreshInv
<1>. DEFINE step == "unlock"
<1>1. pc[r] = "addref" /\ step \in Steps /\ Goto(r, step)
  BY DEF AddRefEvents, Steps
<1>2. /\ \A s \in Requests : s # r => pc[s] = "idle" /\ pc'[s] = "idle"
      /\ pc' \in [Requests -> Steps] /\ pc'[r] = step
      /\ OneRefreshInFlight'
      /\ \A o \in Objects : InUse(o) <=> Holds(r) /\ events[r] = o
      /\ \A o \in Objects : InUse(o)' <=> Holds(r)' /\ events'[r] = o
  BY <1>1, OnlyMover
<1>3. UNCHANGED <<slot, slotContext, ui, owned, refreshPending, readers, events, context>>
  BY DEF AddRefEvents, uiVars
<1>4. events[r] = slot /\ context[r] = slotContext /\ slot \in Objects
  BY <1>1 DEF CopyInv, RefreshTypes, Pointers
<1>5. AddRef(slot)
  BY <1>4 DEF AddRefEvents
<1>6. RefreshTypes' /\ SlotOwner'
  BY <1>1, <1>2, <1>3, <1>4, <1>5 DEF RefreshTypes, SlotOwner, AddRef
<1>7. EventsLock' /\ SlotInv'
  BY <1>1, <1>2, <1>3 DEF EventsLock, SlotInv
<1>8. CopyInv'
  BY <1>1, <1>2, <1>3, <1>4 DEF CopyInv, SlotInv
<1>9. /\ ~InUse(slot) /\ InUse(slot)'
      /\ \A o \in Objects : o # slot => (InUse(o)' <=> InUse(o))
  BY <1>1, <1>2, <1>3, <1>4, NoneAssumption DEF Holds
<1>. QED BY <1>3, <1>4, <1>5, <1>6, <1>7, <1>8, <1>9, RequestTakes

LEMMA ReleaseSharedStep ==
  ASSUME RefreshInv, NEW r \in Requests, ReleaseShared(r)
  PROVE  RefreshInv'
<1>. USE DEF RefreshInv
<1>1. PICK step \in {"giveback", "alloc"} : pc[r] = "unlock" /\ step \in Steps /\ Goto(r, step)
  BY DEF ReleaseShared, Steps
<1>2. /\ \A s \in Requests : s # r => pc[s] = "idle" /\ pc'[s] = "idle"
      /\ pc' \in [Requests -> Steps] /\ pc'[r] = step
      /\ OneRefreshInFlight'
      /\ \A o \in Objects : InUse(o) <=> Holds(r) /\ events[r] = o
      /\ \A o \in Objects : InUse(o)' <=> Holds(r)' /\ events'[r] = o
  BY <1>1, OnlyMover
<1>3. UNCHANGED <<slot, slotContext, ui, owned, refreshPending, events, context, rc>>
  BY DEF ReleaseShared, uiVars
<1>4. readers' = readers \ {r} /\ (step = "giveback" <=> events[r] = None)
  BY <1>1, <1>2 DEF ReleaseShared, Goto, RefreshTypes
<1>5. RefreshTypes' /\ SlotOwner'
  BY <1>1, <1>2, <1>3, <1>4 DEF RefreshTypes, SlotOwner
<1>6. EventsLock' /\ SlotInv'
  BY <1>1, <1>2, <1>3, <1>4 DEF EventsLock, SlotInv
<1>7. CopyInv'
  BY <1>1, <1>2, <1>3, <1>4 DEF CopyInv, RefreshTypes, Pointers
<1>8. \A o \in Objects : InUse(o)' <=> InUse(o)
  BY <1>1, <1>2, <1>3, <1>4, NoneAssumption DEF Holds
<1>. QED BY <1>3, <1>5, <1>6, <1>7, <1>8, SameReferences

LEMMA AllocContextStep ==
  ASSUME RefreshInv, NEW r \in Requests, AllocContext(r)
  PROVE  RefreshInv'
<1>. USE DEF RefreshInv
<1>1. PICK step \in {"timer", "undo"} : pc[r] = "alloc" /\ step \in Steps /\ Goto(r, step)
  BY DEF AllocContext, Steps
<1>2. /\ \A s \in Requests : s # r => pc[s] = "idle" /\ pc'[s] = "idle"
      /\ pc' \in [Requests -> Steps] /\ pc'[r] = step
      /\ OneRefreshInFlight'
      /\ \A o \in Objects : InUse(o) <=> Holds(r) /\ events[r] = o
      /\ \A o \in Objects : InUse(o)' <=> Holds(r)' /\ events'[r] = o
  BY <1>1, OnlyMover
<1>3. UNCHANGED <<slot, slotContext, ui, owned, refreshPending, readers, events, context, rc>>
  BY DEF AllocContext, uiVars
<1>4. RefreshTypes' /\ SlotOwner'
  BY <1>1, <1>2, <1>3 DEF RefreshTypes, SlotOwner
<1>5. EventsLock' /\ SlotInv'
  BY <1>1, <1>2, <1>3 DEF EventsLock, SlotInv
<1>6. CopyInv'
  BY <1>1, <1>2, <1>3 DEF CopyInv
<1>7. \A o \in Objects : InUse(o)' <=> InUse(o)
  BY <1>1, <1>2, <1>3 DEF Holds
<1>. QED BY <1>3, <1>4, <1>5, <1>6, <1>7, SameReferences

LEMMA CreateTimerStep ==
  ASSUME RefreshInv, NEW r \in Requests, CreateTimer(r)
  PROVE  RefreshInv'
<1>. USE DEF RefreshInv
<1>1. PICK step \in {"armed", "undo"} : pc[r] = "timer" /\ step \in Steps /\ Goto(r, step)
  BY DEF CreateTimer, Steps
<1>2. /\ \A s \in Requests : s # r => pc[s] = "idle" /\ pc'[s] = "idle"
      /\ pc' \in [Requests -> Steps] /\ pc'[r] = step
      /\ OneRefreshInFlight'
      /\ \A o \in Objects : InUse(o) <=> Holds(r) /\ events[r] = o
      /\ \A o \in Objects : InUse(o)' <=> Holds(r)' /\ events'[r] = o
  BY <1>1, OnlyMover
<1>3. UNCHANGED <<slot, slotContext, ui, owned, refreshPending, readers, events, context, rc>>
  BY DEF CreateTimer, uiVars
<1>4. RefreshTypes' /\ SlotOwner'
  BY <1>1, <1>2, <1>3 DEF RefreshTypes, SlotOwner
<1>5. EventsLock' /\ SlotInv'
  BY <1>1, <1>2, <1>3 DEF EventsLock, SlotInv
<1>6. CopyInv'
  BY <1>1, <1>2, <1>3 DEF CopyInv
<1>7. \A o \in Objects : InUse(o)' <=> InUse(o)
  BY <1>1, <1>2, <1>3 DEF Holds
<1>. QED BY <1>3, <1>4, <1>5, <1>6, <1>7, SameReferences

LEMMA TimerFiresStep ==
  ASSUME RefreshInv, NEW r \in Requests, TimerFires(r)
  PROVE  RefreshInv'
<1>. USE DEF RefreshInv
<1>1. PICK step \in {"notify", "release"} : pc[r] = "armed" /\ step \in Steps /\ Goto(r, step)
  BY DEF TimerFires, Steps
<1>2. /\ \A s \in Requests : s # r => pc[s] = "idle" /\ pc'[s] = "idle"
      /\ pc' \in [Requests -> Steps] /\ pc'[r] = step
      /\ OneRefreshInFlight'
      /\ \A o \in Objects : InUse(o) <=> Holds(r) /\ events[r] = o
      /\ \A o \in Objects : InUse(o)' <=> Holds(r)' /\ events'[r] = o
  BY <1>1, OnlyMover
<1>3. UNCHANGED <<slot, slotContext, ui, owned, refreshPending, readers, events, context, rc>>
  BY DEF TimerFires, uiVars
<1>4. RefreshTypes' /\ SlotOwner'
  BY <1>1, <1>2, <1>3 DEF RefreshTypes, SlotOwner
<1>5. EventsLock' /\ SlotInv'
  BY <1>1, <1>2, <1>3 DEF EventsLock, SlotInv
<1>6. CopyInv'
  BY <1>1, <1>2, <1>3 DEF CopyInv
<1>7. \A o \in Objects : InUse(o)' <=> InUse(o)
  BY <1>1, <1>2, <1>3 DEF Holds
<1>. QED BY <1>3, <1>4, <1>5, <1>6, <1>7, SameReferences

LEMMA CredentialsChangedStep ==
  ASSUME RefreshInv, NEW r \in Requests, CredentialsChanged(r)
  PROVE  RefreshInv'
<1>. USE DEF RefreshInv
<1>. DEFINE step == "release"
<1>1. pc[r] = "notify" /\ step \in Steps /\ Goto(r, step)
  BY DEF CredentialsChanged, Steps
<1>2. /\ \A s \in Requests : s # r => pc[s] = "idle" /\ pc'[s] = "idle"
      /\ pc' \in [Requests -> Steps] /\ pc'[r] = step
      /\ OneRefreshInFlight'
      /\ \A o \in Objects : InUse(o) <=> Holds(r) /\ events[r] = o
      /\ \A o \in Objects : InUse(o)' <=> Holds(r)' /\ events'[r] = o
  BY <1>1, OnlyMover
<1>3. UNCHANGED <<slot, slotContext, ui, owned, refreshPending, readers, events, context, rc>>
  BY DEF CredentialsChanged, uiVars
<1>4. RefreshTypes' /\ SlotOwner'
  BY <1>1, <1>2, <1>3 DEF RefreshTypes, SlotOwner
<1>5. EventsLock' /\ SlotInv'
  BY <1>1, <1>2, <1>3 DEF EventsLock, SlotInv
<1>6. CopyInv'
  BY <1>1, <1>2, <1>3 DEF CopyInv
<1>7. \A o \in Objects : InUse(o)' <=> InUse(o)
  BY <1>1, <1>2, <1>3 DEF Holds
<1>. QED BY <1>3, <1>4, <1>5, <1>6, <1>7, SameReferences

LEMMA UndoStep ==
  ASSUME RefreshInv, NEW r \in Requests, Undo(r)
  PROVE  RefreshInv'
<1>. USE DEF RefreshInv
<1>. DEFINE step == "giveback"
<1>1. pc[r] = "undo" /\ step \in Steps /\ Goto(r, step)
  BY DEF Undo, Steps
<1>2. /\ \A s \in Requests : s # r => pc[s] = "idle" /\ pc'[s] = "idle"
      /\ pc' \in [Requests -> Steps] /\ pc'[r] = step
      /\ OneRefreshInFlight'
      /\ \A o \in Objects : InUse(o) <=> Holds(r) /\ events[r] = o
      /\ \A o \in Objects : InUse(o)' <=> Holds(r)' /\ events'[r] = o
  BY <1>1, OnlyMover
<1>3. UNCHANGED <<slot, slotContext, ui, owned, refreshPending, readers, context>>
  BY DEF Undo, uiVars
<1>4. PICK p \in Objects : p = events[r]
  BY <1>1 DEF CopyInv
<1>5. Release(p) /\ events' = [events EXCEPT ![r] = None]
  BY <1>4 DEF Undo
<1>6. RefreshTypes' /\ SlotOwner'
  BY <1>1, <1>2, <1>3, <1>4, <1>5 DEF RefreshTypes, SlotOwner, Release, Pointers
<1>7. EventsLock' /\ SlotInv'
  BY <1>1, <1>2, <1>3 DEF EventsLock, SlotInv
<1>8. CopyInv'
  BY <1>1, <1>2, <1>3 DEF CopyInv
<1>9. /\ InUse(p) /\ ~InUse(p)'
      /\ \A o \in Objects : o # p => (InUse(o)' <=> InUse(o))
  <2>1. Holds(r) /\ ~Holds(r)'
    BY <1>1, <1>2 DEF Holds
  <2>. QED BY <1>2, <1>4, <2>1
<1>. QED BY <1>3, <1>4, <1>5, <1>6, <1>7, <1>8, <1>9, RequestGives

LEMMA ReleaseEventsStep ==
  ASSUME RefreshInv, NEW r \in Requests, ReleaseEvents(r)
  PROVE  RefreshInv'
<1>. USE DEF RefreshInv
<1>. DEFINE step == "clear"
<1>1. pc[r] = "release" /\ step \in Steps /\ Goto(r, step)
  BY DEF ReleaseEvents, Steps
<1>2. /\ \A s \in Requests : s # r => pc[s] = "idle" /\ pc'[s] = "idle"
      /\ pc' \in [Requests -> Steps] /\ pc'[r] = step
      /\ OneRefreshInFlight'
      /\ \A o \in Objects : InUse(o) <=> Holds(r) /\ events[r] = o
      /\ \A o \in Objects : InUse(o)' <=> Holds(r)' /\ events'[r] = o
  BY <1>1, OnlyMover
<1>3. UNCHANGED <<slot, slotContext, ui, owned, refreshPending, readers, context>>
  BY DEF ReleaseEvents, uiVars
<1>4. PICK p \in Objects : p = events[r]
  BY <1>1 DEF CopyInv
<1>5. Release(p) /\ events' = [events EXCEPT ![r] = None]
  BY <1>4 DEF ReleaseEvents
<1>6. RefreshTypes' /\ SlotOwner'
  BY <1>1, <1>2, <1>3, <1>4, <1>5 DEF RefreshTypes, SlotOwner, Release, Pointers
<1>7. EventsLock' /\ SlotInv'
  BY <1>1, <1>2, <1>3 DEF EventsLock, SlotInv
<1>8. CopyInv'
  BY <1>1, <1>2, <1>3 DEF CopyInv
<1>9. /\ InUse(p) /\ ~InUse(p)'
      /\ \A o \in Objects : o # p => (InUse(o)' <=> InUse(o))
  <2>1. Holds(r) /\ ~Holds(r)'
    BY <1>1, <1>2 DEF Holds
  <2>. QED BY <1>2, <1>4, <2>1
<1>. QED BY <1>3, <1>4, <1>5, <1>6, <1>7, <1>8, <1>9, RequestGives

LEMMA GiveBackStep ==
  ASSUME RefreshInv, NEW r \in Requests, GiveBack(r)
  PROVE  RefreshInv'
<1>. USE DEF RefreshInv
<1>. DEFINE step == "idle"
<1>1. pc[r] = "giveback" /\ step \in Steps /\ Goto(r, step)
  BY DEF GiveBack, Steps
<1>2. /\ \A s \in Requests : s # r => pc[s] = "idle" /\ pc'[s] = "idle"
      /\ pc' \in [Requests -> Steps] /\ pc'[r] = step
      /\ OneRefreshInFlight'
      /\ \A o \in Objects : InUse(o) <=> Holds(r) /\ events[r] = o
      /\ \A o \in Objects : InUse(o)' <=> Holds(r)' /\ events'[r] = o
  BY <1>1, OnlyMover
<1>3. UNCHANGED <<slot, slotContext, ui, owned, readers, events, context, rc>>
  BY DEF GiveBack, uiVars
<1>4. refreshPending' = FALSE
  BY DEF GiveBack
<1>5. RefreshTypes' /\ SlotOwner'
  BY <1>1, <1>2, <1>3, <1>4 DEF RefreshTypes, SlotOwner
<1>6. EventsLock' /\ SlotInv'
  BY <1>1, <1>2, <1>3 DEF EventsLock, SlotInv
<1>7. CopyInv'
  BY <1>1, <1>2, <1>3 DEF CopyInv
<1>8. \A o \in Objects : InUse(o)' <=> InUse(o)
  BY <1>1, <1>2, <1>3 DEF Holds
<1>. QED BY <1>3, <1>5, <1>6, <1>7, <1>8, SameReferences

LEMMA ClearPendingStep ==
  ASSUME RefreshInv, NEW r \in Requests, ClearPending(r)
  PROVE  RefreshInv'
<1>. USE DEF RefreshInv
<1>. DEFINE step == "idle"
<1>1. pc[r] = "clear" /\ step \in Steps /\ Goto(r, step)
  BY DEF ClearPending, Steps
<1>2. /\ \A s \in Requests : s # r => pc[s] = "idle" /\ pc'[s] = "idle"
      /\ pc' \in [Requests -> Steps] /\ pc'[r] = step
      /\ OneRefreshInFlight'
      /\ \A o \in Objects : InUse(o) <=> Holds(r) /\ events[r] = o
      /\ \A o \in Objects : InUse(o)' <=> Holds(r)' /\ events'[r] = o
  BY <1>1, OnlyMover
<1>3. UNCHANGED <<slot, slotContext, ui, owned, readers, events, context, rc>>
  BY DEF ClearPending, uiVars
<1>4. refreshPending' = FALSE
  BY DEF ClearPending
<1>5. RefreshTypes' /\ SlotOwner'
  BY <1>1, <1>2, <1>3, <1>4 DEF RefreshTypes, SlotOwner
<1>6. EventsLock' /\ SlotInv'
  BY <1>1, <1>2, <1>3 DEF EventsLock, SlotInv
<1>7. CopyInv'
  BY <1>1, <1>2, <1>3 DEF CopyInv
<1>8. \A o \in Objects : InUse(o)' <=> InUse(o)
  BY <1>1, <1>2, <1>3 DEF Holds
<1>. QED BY <1>3, <1>5, <1>6, <1>7, <1>8, SameReferences

-----------------------------------------------------------------------------
(* The writer and LogonUI.  No request moves, so only the slot or LogonUI's *)
(* own reference accounts for a change of a count.                          *)

\* Requests as a writer sees them.
LEMMA RequestsStay ==
  ASSUME reqUnchanged
  PROVE  /\ UNCHANGED <<refreshPending, readers, pc, events, context>>
         /\ \A o : InUse(o)' <=> InUse(o)
         /\ SlotOwner => SlotOwner'
BY DEF reqUnchanged, reqVars, InUse, Holds, SlotOwner, OneRefreshInFlight

\* What the count of one object is made of.
LEMMA CountOf ==
  ASSUME ReferencesBalance, NEW o \in Objects
  PROVE  rc[o] = (IF owned[o] = "held" THEN 1 ELSE 0)
               + (IF slot = o THEN 1 ELSE 0)
               + (IF InUse(o) THEN 1 ELSE 0)
BY DEF ReferencesBalance, InUse

LEMMA SetProviderEventsStep ==
  ASSUME RefreshInv, NEW p \in Objects, SetProviderEvents(p)
  PROVE  RefreshInv'
<1>. USE DEF RefreshInv
<1>1. /\ ui.pc = "idle" /\ readers = {} /\ owned[p] = "new"
      /\ owned' = [owned EXCEPT ![p] = "held"]
      /\ rc' = [rc EXCEPT ![p] = @ + 1]
      /\ ui' = [pc |-> "release", new |-> p]
      /\ UNCHANGED <<slot, slotContext>> /\ reqUnchanged
  BY DEF SetProviderEvents, AddRef
<1>2. RefreshTypes'
  BY <1>1, RequestsStay DEF RefreshTypes, Pointers, UiSteps
<1>3. SlotOwner' /\ EventsLock' /\ CopyInv'
  BY <1>1, RequestsStay DEF EventsLock, CopyInv
<1>4. SlotInv'
  BY <1>1 DEF SlotInv, RefreshTypes
<1>5. ReferencesBalance'
  <2>. SUFFICES ASSUME NEW o \in Objects
                PROVE  rc'[o] = (IF owned'[o] = "held" THEN 1 ELSE 0)
                              + (IF slot' = o THEN 1 ELSE 0)
                              + (IF InUse(o)' THEN 1 ELSE 0)
    BY DEF ReferencesBalance, InUse
  <2>1. InUse(o)' <=> InUse(o)
    BY <1>1, RequestsStay
  <2>2. CASE o = p
    <3>1. rc'[o] = rc[o] + 1 /\ owned'[o] = "held" /\ owned[o] # "held"
      BY <1>1, <2>2 DEF RefreshTypes
    <3>. QED BY <1>1, <2>1, <3>1, CountOf DEF RefreshTypes
  <2>3. CASE o # p
    <3>1. rc'[o] = rc[o] /\ owned'[o] = owned[o]
      BY <1>1, <2>3 DEF RefreshTypes
    <3>. QED BY <1>1, <2>1, <3>1, CountOf
  <2>. QED BY <2>2, <2>3
<1>. QED BY <1>2, <1>3, <1>4, <1>5

LEMMA LogonUIReleasesStep ==
  ASSUME RefreshInv, NEW p \in Objects, LogonUIReleases(p)
  PROVE  RefreshInv'
<1>. USE DEF RefreshInv
<1>1. /\ ui.pc = "idle" \/ ui.new # p
      /\ owned[p] = "held"
      /\ owned' = [owned EXCEPT ![p] = "dropped"]
      /\ rc' = [rc EXCEPT ![p] = @ - 1]
      /\ UNCHANGED <<slot, slotContext, ui>> /\ reqUnchanged
  BY DEF LogonUIReleases, Release
<1>2. RefreshTypes'
  BY <1>1, RequestsStay DEF RefreshTypes
<1>3. SlotOwner' /\ EventsLock' /\ CopyInv'
  BY <1>1, RequestsStay DEF EventsLock, CopyInv
<1>4. SlotInv'
  BY <1>1 DEF SlotInv, RefreshTypes
<1>5. ReferencesBalance'
  <2>. SUFFICES ASSUME NEW o \in Objects
                PROVE  rc'[o] = (IF owned'[o] = "held" THEN 1 ELSE 0)
                              + (IF slot' = o THEN 1 ELSE 0)
                              + (IF InUse(o)' THEN 1 ELSE 0)
    BY DEF ReferencesBalance, InUse
  <2>1. InUse(o)' <=> InUse(o)
    BY <1>1, RequestsStay
  <2>2. CASE o = p
    <3>1. rc'[o] = rc[o] - 1 /\ owned[o] = "held" /\ owned'[o] # "held"
      BY <1>1, <2>2 DEF RefreshTypes
    <3>. QED BY <1>1, <2>1, <3>1, CountOf DEF RefreshTypes
  <2>3. CASE o # p
    <3>1. rc'[o] = rc[o] /\ owned'[o] = owned[o]
      BY <1>1, <2>3 DEF RefreshTypes
    <3>. QED BY <1>1, <2>1, <3>1, CountOf
  <2>. QED BY <2>2, <2>3
<1>. QED BY <1>2, <1>3, <1>4, <1>5

LEMMA ClearProviderEventsStep ==
  ASSUME RefreshInv, ClearProviderEvents
  PROVE  RefreshInv'
<1>. USE DEF RefreshInv
<1>1. /\ readers = {} /\ ui' = [pc |-> "release", new |-> None]
      /\ UNCHANGED <<slot, slotContext, owned, rc>> /\ reqUnchanged
  BY DEF ClearProviderEvents
<1>2. RefreshTypes'
  BY <1>1, RequestsStay DEF RefreshTypes, Pointers, UiSteps
<1>3. SlotOwner' /\ EventsLock' /\ CopyInv' /\ SlotInv'
  BY <1>1, RequestsStay DEF EventsLock, CopyInv, SlotInv
<1>. QED BY <1>1, <1>2, <1>3, RequestsStay, SameReferences

LEMMA ReleaseOldStep ==
  ASSUME RefreshInv, ReleaseOld
  PROVE  RefreshInv'
<1>. USE DEF RefreshInv
<1>1. /\ ui.pc = "release" /\ slot' = None
      /\ ui' = [ui EXCEPT !.pc = "assign"]
      /\ UNCHANGED <<slotContext, owned>> /\ reqUnchanged
  BY DEF ReleaseOld
<1>2. ui'.pc = "assign" /\ ui'.new = ui.new /\ ui' \in [pc: UiSteps, new: Pointers]
  BY <1>1 DEF RefreshTypes, UiSteps
<1>3. rc' \in [Objects -> Int]
  BY DEF ReleaseOld, Release, RefreshTypes, Pointers
<1>4. RefreshTypes'
  BY <1>1, <1>2, <1>3, RequestsStay DEF RefreshTypes, Pointers
<1>5. \A r \in Requests : pc[r] # "addref"
  BY <1>1 DEF EventsLock
<1>6. SlotOwner' /\ EventsLock' /\ CopyInv' /\ SlotInv'
  BY <1>1, <1>2, <1>5, RequestsStay DEF EventsLock, CopyInv, SlotInv
<1>7. ReferencesBalance'
  <2>. SUFFICES ASSUME NEW o \in Objects
                PROVE  rc'[o] = (IF owned'[o] = "held" THEN 1 ELSE 0)
                              + (IF slot' = o THEN 1 ELSE 0)
                              + (IF InUse(o)' THEN 1 ELSE 0)
    BY DEF ReferencesBalance, InUse
  <2>1. (InUse(o)' <=> InUse(o)) /\ slot' # o
    BY <1>1, RequestsStay, NoneAssumption
  <2>2. CASE slot = o
    <3>1. rc' = [rc EXCEPT ![o] = @ - 1]
      BY <2>2, NoneAssumption DEF ReleaseOld, Release
    <3>2. rc'[o] = rc[o] - 1
      BY <3>1 DEF RefreshTypes
    <3>. QED BY <1>1, <2>1, <2>2, <3>2, CountOf
  <2>3. CASE slot # o
    <3>1. rc'[o] = rc[o]
      BY <2>3 DEF ReleaseOld, Release, RefreshTypes, Pointers
    <3>. QED BY <1>1, <2>1, <2>3, <3>1, CountOf
  <2>. QED BY <2>2, <2>3
<1>. QED BY <1>4, <1>6, <1>7

LEMMA AssignNewStep ==
  ASSUME RefreshInv, AssignNew
  PROVE  RefreshInv'
<1>. USE DEF RefreshInv
<1>1. /\ ui.pc = "assign" /\ slot = None
      /\ slot' = ui.new /\ slotContext' = ui.new
      /\ ui' = [ui EXCEPT !.pc = "unlock"]
      /\ UNCHANGED owned /\ reqUnchanged
  BY DEF AssignNew, SlotInv
<1>2. /\ ui'.pc = "unlock" /\ ui' \in [pc: UiSteps, new: Pointers]
      /\ ui.new \in Pointers
  BY <1>1 DEF RefreshTypes, UiSteps
<1>3. rc' \in [Objects -> Int]
  BY <1>2 DEF AssignNew, AddRef, RefreshTypes, Pointers
<1>4. RefreshTypes'
  BY <1>1, <1>2, <1>3, RequestsStay DEF RefreshTypes
<1>5. \A r \in Requests : pc[r] # "addref"
  BY <1>1 DEF EventsLock
<1>6. SlotOwner' /\ EventsLock' /\ CopyInv' /\ SlotInv'
  BY <1>1, <1>2, <1>5, RequestsStay DEF EventsLock, CopyInv, SlotInv
<1>7. ReferencesBalance'
  <2>. SUFFICES ASSUME NEW o \in Objects
                PROVE  rc'[o] = (IF owned'[o] = "held" THEN 1 ELSE 0)
                              + (IF slot' = o THEN 1 ELSE 0)
                              + (IF InUse(o)' THEN 1 ELSE 0)
    BY DEF ReferencesBalance, InUse
  <2>1. (InUse(o)' <=> InUse(o)) /\ slot # o
    BY <1>1, RequestsStay, NoneAssumption
  <2>2. CASE ui.new = o
    <3>1. rc' = [rc EXCEPT ![o] = @ + 1]
      BY <2>2, NoneAssumption DEF AssignNew, AddRef
    <3>2. rc'[o] = rc[o] + 1
      BY <3>1 DEF RefreshTypes
    <3>. QED BY <1>1, <2>1, <2>2, <3>2, CountOf
  <2>3. CASE ui.new # o
    <3>1. rc'[o] = rc[o]
      BY <1>2, <2>3 DEF AssignNew, AddRef, RefreshTypes, Pointers
    <3>. QED BY <1>1, <2>1, <2>3, <3>1, CountOf
  <2>. QED BY <2>2, <2>3
<1>. QED BY <1>4, <1>6, <1>7

LEMMA ReleaseExclusiveStep ==
  ASSUME RefreshInv, ReleaseExclusive
  PROVE  RefreshInv'
<1>. USE DEF RefreshInv
<1>1. /\ ui' = [ui EXCEPT !.pc = "idle"]
      /\ UNCHANGED <<slot, slotContext, owned, rc>> /\ reqUnchanged
  BY DEF ReleaseExclusive
<1>2. ui'.pc = "idle" /\ ui' \in [pc: UiSteps, new: Pointers]
  BY <1>1 DEF RefreshTypes, UiSteps
<1>3. RefreshTypes'
  BY <1>1, <1>2, RequestsStay DEF RefreshTypes
<1>4. SlotOwner' /\ EventsLock' /\ CopyInv' /\ SlotInv'
  BY <1>1, <1>2, RequestsStay DEF EventsLock, CopyInv, SlotInv
<1>. QED BY <1>1, <1>3, <1>4, RequestsStay, SameReferences

\* LogonUIActs, SessionEnds and stuttering: neither requests nor objects.
LEMMA OtherStep ==
  ASSUME RefreshInv,
         UNCHANGED <<refreshPending, readers, reqVars, uiVars, rc>>
  PROVE  RefreshInv'
BY DEF reqVars, uiVars, RefreshInv, RefreshTypes, SlotOwner, OneRefreshInFlight,
       EventsLock, SlotInv, CopyInv, ReferencesBalance, Holds

LEMMA RefreshNext == RefreshInv /\ [Next]_vars => RefreshInv'
<1>. SUFFICES ASSUME RefreshInv, [Next]_vars PROVE RefreshInv'
  OBVIOUS
<1>1. ASSUME NEW r \in Requests, RequestStep(r) PROVE RefreshInv'
  BY <1>1, AcquireSharedStep, ReadEventsStep, AddRefEventsStep,
     ReleaseSharedStep, AllocContextStep, CreateTimerStep, UndoStep,
     GiveBackStep, TimerFiresStep, CredentialsChangedStep, ReleaseEventsStep,
     ClearPendingStep
     DEF RequestStep
<1>2. ASSUME NEW r \in Requests, NEW g \in 0..generation, Claim(r, g)
      PROVE  RefreshInv'
  BY <1>2, ClaimStep
<1>3. ASSUME WriterStep PROVE RefreshInv'
  BY <1>3, ReleaseOldStep, AssignNewStep, ReleaseExclusiveStep DEF WriterStep
<1>4. CASE LogonUIActs \/ SessionEnds \/ UNCHANGED vars
  BY <1>4, OtherStep DEF LogonUIActs, SessionEnds, vars, reqVars, uiVars
<1>. QED BY <1>1, <1>2, <1>3, <1>4, SetProviderEventsStep, LogonUIReleasesStep,
            ClearProviderEventsStep
         DEF Next

-----------------------------------------------------------------------------

\* A request's reference, the slot's and LogonUI's each keep an object alive.
LEMMA HeldIsAlive ==
  ASSUME RefreshInv, NEW o \in Objects,
         owned[o] = "held" \/ slot = o \/ InUse(o)
  PROVE  rc[o] > 0
BY CountOf DEF RefreshInv

LEMMA UseIsSafe == RefreshInv => NoUseAfterRelease
<1>. SUFFICES ASSUME RefreshInv PROVE NoUseAfterRelease
  OBVIOUS
<1>. USE DEF RefreshInv
<1>1. ASSUME NEW r \in Requests, pc[r] = "addref" PROVE rc[events[r]] > 0
  BY <1>1, HeldIsAlive DEF CopyInv, RefreshTypes, Pointers
<1>2. ASSUME NEW r \in Requests, pc[r] \in {"undo", "notify", "release"}
      PROVE  rc[events[r]] > 0
  <2>1. events[r] \in Objects /\ InUse(events[r])
    BY <1>2 DEF CopyInv, InUse, Holds
  <2>. QED BY <2>1, HeldIsAlive
<1>3. ui.pc = "release" /\ slot # None => rc[slot] > 0
  BY HeldIsAlive DEF RefreshTypes, Pointers
<1>4. ui.pc = "assign" /\ ui.new # None => rc[ui.new] > 0
  BY HeldIsAlive DEF SlotInv, RefreshTypes, Pointers
<1>. QED BY <1>1, <1>2, <1>3, <1>4 DEF NoUseAfterRelease

(***************************************************************************)
(* RequestCredentialsChangedAsync, its callback and SetProviderEvents call *)
(* no method of an events object whose last reference is gone, however     *)
(* many requests race however many calls of Advise and UnAdvise.           *)
(***************************************************************************)
THEOREM EventsAreAliveWhenUsed == Spec => []NoUseAfterRelease
BY RefreshInit, RefreshNext, UseIsSafe, PTL DEF Spec

(***************************************************************************)
(* Every AddRef of those functions has its Release, the three error paths  *)
(* of RequestCredentialsChangedAsync included.                             *)
(***************************************************************************)
THEOREM ReferencesAreBalanced == Spec => []ReferencesBalance
<1>1. RefreshInv => ReferencesBalance
  BY DEF RefreshInv
<1>. QED BY <1>1, RefreshInit, RefreshNext, PTL DEF Spec

(***************************************************************************)
(* g_refreshPending lets one request through at a time.                    *)
(***************************************************************************)
THEOREM OneRefreshAtATime == Spec => []OneRefreshInFlight
<1>1. RefreshInv => OneRefreshInFlight
  BY DEF RefreshInv, SlotOwner
<1>. QED BY <1>1, RefreshInit, RefreshNext, PTL DEF Spec

(***************************************************************************)
(* CredentialsChanged gets the context value that came with its object,    *)
(* although object and value are read and written one after the other.     *)
(***************************************************************************)
THEOREM ContextsMatch == Spec => []ContextMatches
<1>1. RefreshInv => ContextMatches
  BY DEF RefreshInv, CopyInv, ContextMatches
<1>. QED BY <1>1, RefreshInit, RefreshNext, PTL DEF Spec

-----------------------------------------------------------------------------
(* The refinement.  What RefreshScheduler sees is the one live request.     *)

\* A request is on behalf of a session that has begun.
GenInv ==
  /\ generation \in Nat /\ generation >= 1
  /\ gen \in [Requests -> Int]
  /\ \A r \in Requests : pc[r] # "idle" => gen[r] \in 1..generation

LEMMA GenInit == Init => GenInv
BY DEF Init, GenInv

LEMMA GenNext == RefreshInv /\ GenInv /\ [Next]_vars => GenInv'
<1>. SUFFICES ASSUME RefreshInv, GenInv, [Next]_vars PROVE GenInv'
  OBVIOUS
<1>0. pc \in [Requests -> Steps]
  BY DEF RefreshInv, RefreshTypes
<1>1. ASSUME NEW r \in Requests, RequestStep(r) PROVE GenInv'
  <2>1. \E step \in Steps : Goto(r, step) /\ pc[r] # "idle"
    BY <1>1 DEF RequestStep, AcquireShared, ReadEvents, AddRefEvents,
       ReleaseShared, AllocContext, CreateTimer, Undo, GiveBack, TimerFires,
       CredentialsChanged, ReleaseEvents, ClearPending, Steps
  <2>2. UNCHANGED <<generation, gen>>
    BY <1>1 DEF RequestStep, AcquireShared, ReadEvents, AddRefEvents,
       ReleaseShared, AllocContext, CreateTimer, Undo, GiveBack, TimerFires,
       CredentialsChanged, ReleaseEvents, ClearPending
  <2>. QED BY <1>0, <2>1, <2>2 DEF GenInv, Goto
<1>2. ASSUME NEW r \in Requests, NEW g \in 0..generation, Claim(r, g)
      PROVE  GenInv'
  BY <1>0, <1>2 DEF Claim, Goto, GenInv
<1>3. ASSUME UNCHANGED <<pc, gen, generation>> PROVE GenInv'
  BY <1>3 DEF GenInv
<1>4. CASE SessionEnds
  BY <1>4 DEF SessionEnds, reqVars, GenInv
<1>5. CASE \/ \E o \in Objects : SetProviderEvents(o) \/ LogonUIReleases(o)
           \/ ClearProviderEvents \/ WriterStep \/ LogonUIActs \/ UNCHANGED vars
  BY <1>3, <1>5 DEF SetProviderEvents, LogonUIReleases, ClearProviderEvents,
     WriterStep, ReleaseOld, AssignNew, ReleaseExclusive, LogonUIActs,
     reqUnchanged, reqVars, vars
<1>. QED BY <1>1, <1>2, <1>4, <1>5 DEF Next

\* One request is live at most, and the abstract refresh is that request.
LEMMA OneIsLive ==
  ASSUME NEW r \in Requests, \A s \in Requests : Live(s) => s = r
  PROVE  /\ (\E s \in Requests : Live(s)) <=> Live(r)
         /\ AbstractRefresh =
              IF Live(r)
              THEN [pc |-> AbstractStep(r), gen |-> gen[r], owner |-> 0]
              ELSE [pc |-> "free", gen |-> 0, owner |-> 0]
<1>1. CASE Live(r)
  <2>1. (CHOOSE s \in Requests : Live(s)) = r
    BY <1>1
  <2>. QED BY <1>1, <2>1 DEF AbstractRefresh
<1>2. CASE ~Live(r)
  BY <1>2 DEF AbstractRefresh
<1>. QED BY <1>1, <1>2

\* The same of the state after a step.
LEMMA OneIsLiveAfter ==
  ASSUME NEW r \in Requests, \A s \in Requests : Live(s)' => s = r
  PROVE  /\ (\E s \in Requests : Live(s)') <=> Live(r)'
         /\ AbstractRefresh' =
              IF Live(r)'
              THEN [pc |-> AbstractStep(r)', gen |-> gen'[r], owner |-> 0]
              ELSE [pc |-> "free", gen |-> 0, owner |-> 0]
<1>1. CASE Live(r)'
  <2>1. (CHOOSE s \in Requests : Live(s)') = r
    BY <1>1
  <2>. QED BY <1>1, <2>1 DEF AbstractRefresh
<1>2. CASE ~Live(r)'
  BY <1>2 DEF AbstractRefresh
<1>. QED BY <1>1, <1>2

\* Only requests on their way are live.
LEMMA LiveIsBusy ==
  ASSUME NEW r \in Requests
  PROVE  (Live(r) => pc[r] # "idle") /\ (Live(r)' => pc'[r] # "idle")
BY DEF Live

SchedulerStep == [Scheduler!Next]_(Scheduler!vars)

\* What a step does to the scheduler's variables, one lemma for each way.
LEMMA MapsToStutter ==
  ASSUME (\E s \in Requests : Live(s)') <=> \E s \in Requests : Live(s),
         AbstractRefresh' = AbstractRefresh, (slot' # None) <=> (slot # None),
         UNCHANGED <<generation, notified>>
  PROVE  SchedulerStep
BY DEF SchedulerStep, Scheduler!vars

LEMMA MapsToRequest ==
  ASSUME ~\E s \in Requests : Live(s), \E s \in Requests : Live(s)',
         slot # None, NEW g \in 1..generation,
         AbstractRefresh' = [pc |-> "armed", gen |-> g, owner |-> 0],
         UNCHANGED <<generation, slot, notified>>
  PROVE  SchedulerStep
BY DEF SchedulerStep, Scheduler!Next, Scheduler!RequestCredentialsChangedAsync

LEMMA MapsToWithdraw ==
  ASSUME AbstractRefresh.pc = "armed", ~\E s \in Requests : Live(s)',
         AbstractRefresh' = [pc |-> "free", gen |-> 0, owner |-> 0],
         UNCHANGED <<generation, slot, notified>>
  PROVE  SchedulerStep
BY DEF SchedulerStep, Scheduler!Next, Scheduler!Withdraw, Scheduler!NoRefresh

LEMMA MapsToFire ==
  ASSUME NEW g,
         AbstractRefresh = [pc |-> "armed", gen |-> g, owner |-> 0],
         AbstractRefresh' = [pc |-> IF g = generation THEN "notify" ELSE "clear",
                             gen |-> g, owner |-> 0],
         (\E s \in Requests : Live(s)') <=> \E s \in Requests : Live(s),
         UNCHANGED <<generation, slot, notified>>
  PROVE  SchedulerStep
<1>1. AbstractRefresh' = [AbstractRefresh EXCEPT !.pc =
         IF AbstractRefresh.gen = generation THEN "notify" ELSE "clear"]
  OBVIOUS
<1>. QED BY <1>1 DEF SchedulerStep, Scheduler!Next, Scheduler!Callback, Scheduler!TimerFires

LEMMA MapsToNotify ==
  ASSUME NEW g,
         AbstractRefresh = [pc |-> "notify", gen |-> g, owner |-> 0],
         AbstractRefresh' = [pc |-> "clear", gen |-> g, owner |-> 0],
         (\E s \in Requests : Live(s)') <=> \E s \in Requests : Live(s),
         notified' = TRUE, UNCHANGED <<generation, slot>>
  PROVE  SchedulerStep
<1>1. AbstractRefresh' = [AbstractRefresh EXCEPT !.pc = "clear"]
  OBVIOUS
<1>. QED BY <1>1 DEF SchedulerStep, Scheduler!Next, Scheduler!Callback,
                     Scheduler!CredentialsChanged

LEMMA MapsToReturn ==
  ASSUME AbstractRefresh.pc = "clear", ~\E s \in Requests : Live(s)',
         AbstractRefresh' = [pc |-> "free", gen |-> 0, owner |-> 0],
         UNCHANGED <<generation, slot, notified>>
  PROVE  SchedulerStep
BY DEF SchedulerStep, Scheduler!Next, Scheduler!Callback, Scheduler!CallbackReturns,
       Scheduler!NoRefresh

LEMMA RequestMaps ==
  ASSUME RefreshInv, GenInv, NEW r \in Requests, RequestStep(r)
  PROVE  SchedulerStep
<1>1. PICK step \in Steps : pc[r] # "idle" /\ Goto(r, step)
  BY DEF RequestStep, AcquireShared, ReadEvents, AddRefEvents, ReleaseShared,
     AllocContext, CreateTimer, Undo, GiveBack, TimerFires, CredentialsChanged,
     ReleaseEvents, ClearPending, Steps
<1>2. /\ \A s \in Requests : s # r => pc[s] = "idle" /\ pc'[s] = "idle"
      /\ pc'[r] = step
  BY <1>1, OnlyMover
<1>3. \A s \in Requests : (Live(s) => s = r) /\ (Live(s)' => s = r)
  BY <1>2, LiveIsBusy
<1>. DEFINE pending == \E s \in Requests : Live(s)
            is(step_) == [pc |-> step_, gen |-> gen[r], owner |-> 0]
            free == [pc |-> "free", gen |-> 0, owner |-> 0]
<1>4. /\ pending <=> Live(r)
      /\ AbstractRefresh = IF Live(r) THEN is(AbstractStep(r)) ELSE free
  BY <1>3, OneIsLive
<1>5. UNCHANGED <<generation, gen, slot>>
  BY DEF RequestStep, AcquireShared, ReadEvents, AddRefEvents, ReleaseShared,
     AllocContext, CreateTimer, Undo, GiveBack, TimerFires, CredentialsChanged,
     ReleaseEvents, ClearPending, uiVars
<1>6. /\ pending' <=> Live(r)'
      /\ AbstractRefresh' = IF Live(r)' THEN is(AbstractStep(r)') ELSE free
  BY <1>3, <1>5, OneIsLiveAfter
<1>. USE DEF Live, AbstractStep
<1>7. CASE AcquireShared(r)
  <2>1. ~Live(r) /\ ~Live(r)' /\ UNCHANGED notified
    BY <1>1, <1>2, <1>7 DEF AcquireShared, Goto, RefreshInv, RefreshTypes
  <2>. QED BY <1>4, <1>5, <1>6, <2>1, MapsToStutter
<1>8. CASE ReadEvents(r)
  <2>1. pc[r] = "read" /\ events'[r] = slot /\ UNCHANGED notified
        /\ step = IF slot = None THEN "unlock" ELSE "addref"
    BY <1>1, <1>2, <1>8 DEF ReadEvents, Goto, RefreshInv, RefreshTypes
  <2>2. CASE slot = None
    <3>1. ~Live(r) /\ ~Live(r)'
      BY <1>2, <2>1, <2>2
    <3>. QED BY <1>4, <1>5, <1>6, <2>1, <3>1, MapsToStutter
  <2>3. CASE slot # None
    <3>1. ~Live(r) /\ Live(r)' /\ AbstractStep(r)' = "armed"
      BY <1>2, <2>1, <2>3
    <3>2. gen[r] \in 1..generation
      BY <1>1 DEF GenInv
    <3>. QED BY <1>4, <1>5, <1>6, <2>1, <2>3, <3>1, <3>2, MapsToRequest
  <2>. QED BY <2>2, <2>3
<1>9. CASE AddRefEvents(r)
  <2>1. /\ Live(r) /\ AbstractStep(r) = "armed"
        /\ Live(r)' /\ AbstractStep(r)' = "armed" /\ UNCHANGED notified
    BY <1>1, <1>2, <1>9, NoneAssumption
       DEF AddRefEvents, RefreshInv, CopyInv, Goto, RefreshTypes
  <2>. QED BY <1>4, <1>5, <1>6, <2>1, MapsToStutter
<1>10. CASE ReleaseShared(r)
  <2>1. pc[r] = "unlock" /\ UNCHANGED <<events, notified>>
        /\ step = IF events[r] = None THEN "giveback" ELSE "alloc"
    BY <1>1, <1>2, <1>10 DEF ReleaseShared, Goto, RefreshInv, RefreshTypes
  <2>2. CASE events[r] = None
    <3>1. ~Live(r) /\ ~Live(r)'
      BY <1>2, <2>1, <2>2
    <3>. QED BY <1>4, <1>5, <1>6, <2>1, <3>1, MapsToStutter
  <2>3. CASE events[r] # None
    <3>1. /\ Live(r) /\ AbstractStep(r) = "armed"
          /\ Live(r)' /\ AbstractStep(r)' = "armed"
      BY <1>2, <2>1, <2>3
    <3>. QED BY <1>4, <1>5, <1>6, <2>1, <3>1, MapsToStutter
  <2>. QED BY <2>2, <2>3
<1>11. CASE AllocContext(r) \/ CreateTimer(r)
  <2>1. /\ pc[r] \in {"alloc", "timer"} /\ step \in {"timer", "armed", "undo"}
        /\ UNCHANGED notified
    BY <1>1, <1>2, <1>11 DEF AllocContext, CreateTimer, Goto, RefreshInv, RefreshTypes
  <2>2. /\ Live(r) /\ AbstractStep(r) = "armed"
        /\ Live(r)' /\ AbstractStep(r)' = "armed"
    BY <1>2, <2>1
  <2>. QED BY <1>4, <1>5, <1>6, <2>1, <2>2, MapsToStutter
<1>12. CASE Undo(r)
  <2>1. pc[r] = "undo" /\ step = "giveback" /\ UNCHANGED notified
    BY <1>1, <1>2, <1>12 DEF Undo, Goto, RefreshInv, RefreshTypes
  <2>2. Live(r) /\ AbstractStep(r) = "armed" /\ ~Live(r)'
    BY <1>2, <2>1
  <2>. QED BY <1>4, <1>5, <1>6, <2>1, <2>2, MapsToWithdraw
<1>13. CASE GiveBack(r)
  <2>1. ~Live(r) /\ ~Live(r)' /\ UNCHANGED notified
    BY <1>1, <1>2, <1>13 DEF GiveBack, Goto, RefreshInv, RefreshTypes
  <2>. QED BY <1>4, <1>5, <1>6, <2>1, MapsToStutter
<1>14. CASE TimerFires(r)
  <2>1. pc[r] = "armed" /\ UNCHANGED notified
        /\ step = IF gen[r] = generation THEN "notify" ELSE "release"
    BY <1>1, <1>2, <1>14 DEF TimerFires, Goto, RefreshInv, RefreshTypes
  <2>2. /\ Live(r) /\ AbstractStep(r) = "armed"
        /\ Live(r)' /\ AbstractStep(r)' = IF gen[r] = generation THEN "notify" ELSE "clear"
    BY <1>2, <2>1
  <2>. QED BY <1>4, <1>5, <1>6, <2>1, <2>2, MapsToFire
<1>15. CASE CredentialsChanged(r)
  <2>1. pc[r] = "notify" /\ step = "release" /\ notified' = TRUE
    BY <1>1, <1>2, <1>15 DEF CredentialsChanged, Goto, RefreshInv, RefreshTypes
  <2>2. /\ Live(r) /\ AbstractStep(r) = "notify"
        /\ Live(r)' /\ AbstractStep(r)' = "clear"
    BY <1>2, <2>1
  <2>. QED BY <1>4, <1>5, <1>6, <2>1, <2>2, MapsToNotify
<1>16. CASE ReleaseEvents(r)
  <2>1. pc[r] = "release" /\ step = "clear" /\ UNCHANGED notified
    BY <1>1, <1>2, <1>16 DEF ReleaseEvents, Goto, RefreshInv, RefreshTypes
  <2>2. /\ Live(r) /\ AbstractStep(r) = "clear"
        /\ Live(r)' /\ AbstractStep(r)' = "clear"
    BY <1>2, <2>1
  <2>. QED BY <1>4, <1>5, <1>6, <2>1, <2>2, MapsToStutter
<1>17. CASE ClearPending(r)
  <2>1. pc[r] = "clear" /\ step = "idle" /\ UNCHANGED notified
    BY <1>1, <1>2, <1>17 DEF ClearPending, Goto, RefreshInv, RefreshTypes
  <2>2. Live(r) /\ AbstractStep(r) = "clear" /\ ~Live(r)'
    BY <1>2, <2>1
  <2>. QED BY <1>4, <1>5, <1>6, <2>1, <2>2, MapsToReturn
<1>. QED BY <1>7, <1>8, <1>9, <1>10, <1>11, <1>12, <1>13, <1>14, <1>15, <1>16, <1>17
         DEF RequestStep

LEMMA ClaimMaps ==
  ASSUME RefreshInv, NEW r \in Requests, NEW g, Claim(r, g)
  PROVE  SchedulerStep
<1>1. \A s \in Requests : pc[s] = "idle" /\ pc'[s] \in {"idle", "lock"}
  BY DEF Claim, Goto, RefreshInv, RefreshTypes, SlotOwner
<1>2. \A s \in Requests : ~Live(s) /\ ~Live(s)'
  BY <1>1 DEF Live
<1>3. UNCHANGED <<generation, slot, notified>>
  BY DEF Claim, uiVars
<1>. QED BY <1>2, <1>3, MapsToStutter DEF AbstractRefresh

\* When no request moves, the abstract refresh stays what it is.
LEMMA RefreshStays ==
  ASSUME RefreshInv, UNCHANGED <<pc, events, gen>>
  PROVE  /\ (\E s \in Requests : Live(s)') <=> \E s \in Requests : Live(s)
         /\ AbstractRefresh' = AbstractRefresh
<1>1. \A s \in Requests : /\ Live(s)' <=> Live(s)
                         /\ AbstractStep(s)' = AbstractStep(s)
  BY DEF Live, AbstractStep
<1>2. CASE \E r \in Requests : Live(r)
  <2>1. PICK r \in Requests : Live(r)
    BY <1>2
  <2>2. \A s \in Requests : (Live(s) => s = r) /\ (Live(s)' => s = r)
    BY <1>1, <2>1, LiveIsBusy DEF RefreshInv, SlotOwner, OneRefreshInFlight
  <2>. QED BY <1>1, <2>1, <2>2, OneIsLive, OneIsLiveAfter
<1>3. CASE ~\E r \in Requests : Live(r)
  BY <1>1, <1>3 DEF AbstractRefresh
<1>. QED BY <1>2, <1>3

\* Steps of the writer and of LogonUI: a slot emptied or filled, or neither.
LEMMA SurroundingsMap ==
  ASSUME RefreshInv, GenInv,
         \/ \E o \in Objects : SetProviderEvents(o) \/ LogonUIReleases(o)
         \/ ClearProviderEvents \/ WriterStep \/ LogonUIActs \/ SessionEnds
         \/ UNCHANGED vars
  PROVE  SchedulerStep
<1>1. UNCHANGED <<pc, events, gen>>
  BY DEF SetProviderEvents, LogonUIReleases, ClearProviderEvents, WriterStep,
     ReleaseOld, AssignNew, ReleaseExclusive, LogonUIActs, SessionEnds,
     reqUnchanged, reqVars, vars
<1>2. /\ (\E s \in Requests : Live(s)') <=> \E s \in Requests : Live(s)
      /\ AbstractRefresh' = AbstractRefresh
  BY <1>1, RefreshStays
<1>3. CASE UNCHANGED <<generation, slot, notified>>
  BY <1>2, <1>3, MapsToStutter
<1>4. CASE UNCHANGED <<generation, notified>>
  <2>1. CASE slot' # None
    BY <1>2, <1>4, <2>1 DEF SchedulerStep, Scheduler!Next, Scheduler!SetProviderEvents
  <2>2. CASE slot' = None
    BY <1>2, <1>4, <2>2 DEF SchedulerStep, Scheduler!Next, Scheduler!ClearProviderEvents
  <2>. QED BY <2>1, <2>2
<1>5. CASE LogonUIActs
  <2>1. notified' = FALSE /\ UNCHANGED <<generation, slot>>
    BY <1>5 DEF LogonUIActs, uiVars
  <2>. QED BY <1>2, <2>1 DEF SchedulerStep, Scheduler!Next
<1>6. CASE SessionEnds
  <2>1. generation' = generation + 1 /\ UNCHANGED <<notified, slot>>
    BY <1>6 DEF SessionEnds, uiVars
  <2>. QED BY <1>2, <2>1 DEF SchedulerStep, Scheduler!Next
<1>. QED BY <1>3, <1>4, <1>5, <1>6
         DEF SetProviderEvents, LogonUIReleases, ClearProviderEvents, WriterStep,
             ReleaseOld, AssignNew, ReleaseExclusive, reqUnchanged, vars

(***************************************************************************)
(* The code's locks, counts and error paths together keep the promise the  *)
(* rest of the DLL is modelled against: Provider.cpp's delayed refresh is  *)
(* RefreshScheduler.                                                       *)
(***************************************************************************)
THEOREM RefreshIsTheScheduler == Spec => ImplementsScheduler
<1>1. Init => Scheduler!Init
  <2>. SUFFICES ASSUME Init PROVE Scheduler!Init
    OBVIOUS
  <2>1. \A r \in Requests : ~Live(r)
    BY DEF Init, Live
  <2>. QED BY <2>1 DEF Init, Scheduler!Init, Scheduler!NoRefresh, AbstractRefresh
<1>2. RefreshInv /\ GenInv /\ [Next]_vars => [Scheduler!Next]_(Scheduler!vars)
  <2>. SUFFICES ASSUME RefreshInv, GenInv, [Next]_vars PROVE SchedulerStep
    BY DEF SchedulerStep
  <2>. QED BY RequestMaps, ClaimMaps, SurroundingsMap DEF Next
<1>. QED BY <1>1, <1>2, RefreshInit, RefreshNext, GenInit, GenNext, PTL
         DEF Spec, ImplementsScheduler, Scheduler!Spec
=============================================================================
