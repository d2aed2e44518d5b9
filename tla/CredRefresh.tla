----------------------------- MODULE CredRefresh -----------------------------
(***************************************************************************)
(* The delayed CredentialsChanged of src/core/Provider.cpp, one action per *)
(* interlocked operation, lock operation or COM call.  RefreshScheduler is *)
(* the same machinery as the rest of the DLL sees it; here are the lock,   *)
(* the reference counts and the error paths it leaves out.                 *)
(*                                                                         *)
(* A request is one call of RequestCredentialsChangedAsync and, once its   *)
(* timer is set, the run of its CredRefreshTimerCallback.  Requests come   *)
(* from any thread.  Advise and UnAdvise come from LogonUI's apartment, so *)
(* there is one writer.                                                    *)
(***************************************************************************)
EXTENDS Integers

CONSTANTS
  Requests,   \* calls that may be in progress at the same time
  Objects,    \* the ICredentialProviderEvents objects LogonUI creates
  None,       \* nullptr
  MaxGen      \* bound on the session generations explored

ASSUME NoneAssumption   == None \notin Objects
ASSUME MaxGenAssumption == MaxGen \in Nat \ {0}

VARIABLES
  generation,      \* g_brokerSessionGeneration
  refreshPending,  \* g_refreshPending
  slot,            \* g_cpEvents
  slotContext,     \* g_cpEventsContext; LogonUI's context value of an object
                   \* is written as the object itself
  readers,         \* requests that hold g_cpEventsLock shared
  ui,              \* the Advise or UnAdvise in progress and its lock
  pc,              \* where each request is
  gen,             \* its sessionGeneration
  events,          \* its events pointer, local first, then in the context
  context,         \* its context value
  owned,           \* LogonUI's own reference: "new", "held" or "dropped"
  rc,              \* reference count of each events object
  notified         \* LogonUI got a CredentialsChanged it has not acted on

reqVars == <<pc, gen, events, context>>
uiVars  == <<slot, slotContext, ui, owned>>
vars    == <<generation, refreshPending, slot, slotContext, readers, ui, pc,
             gen, events, context, owned, rc, notified>>

Pointers == Objects \cup {None}
Steps    == {"idle", "lock", "read", "addref", "unlock", "alloc", "timer",
             "undo", "giveback", "armed", "notify", "release", "clear"}
UiSteps  == {"idle", "release", "assign", "unlock"}

TypeOK ==
  /\ generation \in 1..MaxGen
  /\ refreshPending \in BOOLEAN
  /\ slot \in Pointers /\ slotContext \in Pointers
  /\ readers \in SUBSET Requests
  /\ ui \in [pc: UiSteps, new: Pointers]
  /\ pc \in [Requests -> Steps]
  /\ gen \in [Requests -> 0..MaxGen]
  /\ events \in [Requests -> Pointers]
  /\ context \in [Requests -> Pointers]
  /\ owned \in [Objects -> {"new", "held", "dropped"}]
  /\ rc \in [Objects -> Int]
  /\ notified \in BOOLEAN

Init ==
  /\ generation = 1
  /\ refreshPending = FALSE
  /\ slot = None /\ slotContext = None
  /\ readers = {}
  /\ ui = [pc |-> "idle", new |-> None]
  /\ pc = [r \in Requests |-> "idle"]
  /\ gen = [r \in Requests |-> 0]
  /\ events = [r \in Requests |-> None]
  /\ context = [r \in Requests |-> None]
  /\ owned = [o \in Objects |-> "new"]
  /\ rc = [o \in Objects |-> 0]
  /\ notified = FALSE

Goto(r, step) == pc' = [pc EXCEPT ![r] = step]

AddRef(o)  == rc' = [rc EXCEPT ![o] = @ + 1]
Release(o) == rc' = [rc EXCEPT ![o] = @ - 1]

-----------------------------------------------------------------------------
(* RequestCredentialsChangedAsync(delayMs, sessionGeneration)               *)

\* Mutant: the flag is tested and set without one interlocked operation.
Claim_TestAndSet(r, g) ==
  /\ pc[r] = "idle"
  /\ refreshPending' = TRUE
  /\ gen' = [gen EXCEPT ![r] = IF g <= 0 THEN generation ELSE g]
  /\ Goto(r, "lock")
  /\ UNCHANGED <<generation, uiVars, readers, events, context, rc, notified>>

\* The session's generation, or the current one when none was passed.  The
\* call returns at once when the compare-exchange finds the slot taken.
Claim(r, g) ==
  /\ pc[r] = "idle"
  /\ ~refreshPending
  /\ refreshPending' = TRUE
  /\ gen' = [gen EXCEPT ![r] = IF g <= 0 THEN generation ELSE g]
  /\ Goto(r, "lock")
  /\ UNCHANGED <<generation, uiVars, readers, events, context, rc, notified>>

WriterHolds == ui.pc # "idle"

\* Mutant: the pointer is read without g_cpEventsLock.
AcquireShared_NoLock(r) ==
  /\ pc[r] = "lock"
  /\ Goto(r, "read")
  /\ UNCHANGED <<generation, refreshPending, uiVars, readers, gen, events,
                 context, rc, notified>>

AcquireShared(r) ==
  /\ pc[r] = "lock"
  /\ ~WriterHolds
  /\ readers' = readers \cup {r}
  /\ Goto(r, "read")
  /\ UNCHANGED <<generation, refreshPending, uiVars, gen, events, context, rc,
                 notified>>

ReadEvents(r) ==
  /\ pc[r] = "read"
  /\ events'  = [events  EXCEPT ![r] = slot]
  /\ context' = [context EXCEPT ![r] = slotContext]
  /\ Goto(r, IF slot = None THEN "unlock" ELSE "addref")
  /\ UNCHANGED <<generation, refreshPending, uiVars, readers, gen, rc,
                 notified>>

AddRefEvents(r) ==
  /\ pc[r] = "addref"
  /\ AddRef(events[r])
  /\ Goto(r, "unlock")
  /\ UNCHANGED <<generation, refreshPending, uiVars, readers, gen, events,
                 context, notified>>

ReleaseShared(r) ==
  /\ pc[r] = "unlock"
  /\ readers' = readers \ {r}
  /\ Goto(r, IF events[r] = None THEN "giveback" ELSE "alloc")
  /\ UNCHANGED <<generation, refreshPending, uiVars, gen, events, context, rc,
                 notified>>

\* new(std::nothrow) CredRefreshAsyncCtx and CreateThreadpoolTimer; each may
\* fail.  SetThreadpoolTimer cannot: from there on the callback may run.
AllocContext(r) ==
  /\ pc[r] = "alloc"
  /\ \E step \in {"timer", "undo"} : Goto(r, step)
  /\ UNCHANGED <<generation, refreshPending, uiVars, readers, gen, events,
                 context, rc, notified>>

CreateTimer(r) ==
  /\ pc[r] = "timer"
  /\ \E step \in {"armed", "undo"} : Goto(r, step)
  /\ UNCHANGED <<generation, refreshPending, uiVars, readers, gen, events,
                 context, rc, notified>>

\* Mutant: the error path forgets the reference it took.
Undo_Leak(r) ==
  /\ pc[r] = "undo"
  /\ events' = [events EXCEPT ![r] = None]
  /\ Goto(r, "giveback")
  /\ UNCHANGED <<generation, refreshPending, uiVars, readers, gen, context,
                 rc, notified>>

\* The error paths: events->Release(), and the context is deleted ...
Undo(r) ==
  /\ pc[r] = "undo"
  /\ Release(events[r])
  /\ events' = [events EXCEPT ![r] = None]
  /\ Goto(r, "giveback")
  /\ UNCHANGED <<generation, refreshPending, uiVars, readers, gen, context,
                 notified>>

\* ... then InterlockedExchange(&g_refreshPending, 0).
GiveBack(r) ==
  /\ pc[r] = "giveback"
  /\ refreshPending' = FALSE
  /\ Goto(r, "idle")
  /\ UNCHANGED <<generation, uiVars, readers, gen, events, context, rc,
                 notified>>

-----------------------------------------------------------------------------
(* CredRefreshTimerCallback                                                 *)

\* Mutant: the generation is not compared.
TimerFires_NoCheck(r) ==
  /\ pc[r] = "armed"
  /\ Goto(r, "notify")
  /\ UNCHANGED <<generation, refreshPending, uiVars, readers, gen, events,
                 context, rc, notified>>

\* IsCurrentSessionGeneration(ctx->sessionGeneration).
TimerFires(r) ==
  /\ pc[r] = "armed"
  /\ Goto(r, IF gen[r] = generation THEN "notify" ELSE "release")
  /\ UNCHANGED <<generation, refreshPending, uiVars, readers, gen, events,
                 context, rc, notified>>

CredentialsChanged(r) ==
  /\ pc[r] = "notify"
  /\ notified' = TRUE
  /\ Goto(r, "release")
  /\ UNCHANGED <<generation, refreshPending, uiVars, readers, gen, events,
                 context, rc>>

\* events->Release(), CloseThreadpoolTimer and delete ctx.
ReleaseEvents(r) ==
  /\ pc[r] = "release"
  /\ Release(events[r])
  /\ events' = [events EXCEPT ![r] = None]
  /\ Goto(r, "clear")
  /\ UNCHANGED <<generation, refreshPending, uiVars, readers, gen, context,
                 notified>>

\* Mutant: a callback that was cancelled by a new session keeps the slot.
ClearPending_Keep(r) ==
  /\ pc[r] = "clear"
  /\ refreshPending' = (gen[r] # generation)
  /\ Goto(r, "idle")
  /\ UNCHANGED <<generation, uiVars, readers, gen, events, context, rc,
                 notified>>

ClearPending(r) ==
  /\ pc[r] = "clear"
  /\ refreshPending' = FALSE
  /\ Goto(r, "idle")
  /\ UNCHANGED <<generation, uiVars, readers, gen, events, context, rc,
                 notified>>

-----------------------------------------------------------------------------
(* SetProviderEvents and ClearProviderEvents.  ClearProviderEvents is       *)
(* SetProviderEvents(nullptr, 0) statement by statement.                    *)

reqUnchanged == UNCHANGED <<generation, refreshPending, readers, reqVars,
                            notified>>

\* LogonUI creates an events object, whose first reference is its own, and
\* calls Advise: AcquireSRWLockExclusive.
SetProviderEvents(o) ==
  /\ ui.pc = "idle" /\ readers = {}
  /\ owned[o] = "new"
  /\ owned' = [owned EXCEPT ![o] = "held"]
  /\ AddRef(o)
  /\ ui' = [pc |-> "release", new |-> o]
  /\ UNCHANGED <<slot, slotContext>>
  /\ reqUnchanged

\* UnAdvise.
ClearProviderEvents ==
  /\ ui.pc = "idle" /\ readers = {}
  /\ slot # None
  /\ ui' = [pc |-> "release", new |-> None]
  /\ UNCHANGED <<slot, slotContext, owned, rc>>
  /\ reqUnchanged

\* if (g_cpEvents) { g_cpEvents->Release(); g_cpEvents = nullptr; }
ReleaseOld ==
  /\ ui.pc = "release"
  /\ IF slot = None THEN UNCHANGED rc ELSE Release(slot)
  /\ slot' = None
  /\ ui' = [ui EXCEPT !.pc = "assign"]
  /\ UNCHANGED <<slotContext, owned>>
  /\ reqUnchanged

\* Mutant: the new object is stored without its context value.
AssignNew_OldContext ==
  /\ ui.pc = "assign"
  /\ slot' = ui.new
  /\ IF ui.new = None THEN UNCHANGED rc ELSE AddRef(ui.new)
  /\ ui' = [ui EXCEPT !.pc = "unlock"]
  /\ UNCHANGED <<slotContext, owned>>
  /\ reqUnchanged

\* g_cpEventsContext = context; g_cpEvents = events; AddRef.
AssignNew ==
  /\ ui.pc = "assign"
  /\ slotContext' = ui.new
  /\ slot' = ui.new
  /\ IF ui.new = None THEN UNCHANGED rc ELSE AddRef(ui.new)
  /\ ui' = [ui EXCEPT !.pc = "unlock"]
  /\ UNCHANGED owned
  /\ reqUnchanged

ReleaseExclusive ==
  /\ ui.pc = "unlock"
  /\ ui' = [ui EXCEPT !.pc = "idle"]
  /\ UNCHANGED <<slot, slotContext, owned, rc>>
  /\ reqUnchanged

-----------------------------------------------------------------------------
(* The surroundings.                                                        *)

\* LogonUI drops its own reference once Advise has returned.
LogonUIReleases(o) ==
  /\ ui.pc = "idle" \/ ui.new # o
  /\ owned[o] = "held"
  /\ owned' = [owned EXCEPT ![o] = "dropped"]
  /\ Release(o)
  /\ UNCHANGED <<slot, slotContext, ui>>
  /\ reqUnchanged

\* LogonUI enumerates again.
LogonUIActs ==
  /\ notified
  /\ notified' = FALSE
  /\ UNCHANGED <<generation, refreshPending, readers, reqVars, uiVars, rc>>

\* SetBrokerSessionActive(false) on some thread.
SessionEnds ==
  /\ generation < MaxGen
  /\ generation' = generation + 1
  /\ UNCHANGED <<refreshPending, readers, reqVars, uiVars, rc, notified>>

-----------------------------------------------------------------------------

RequestStep(r) ==
  \/ AcquireShared(r) \/ ReadEvents(r) \/ AddRefEvents(r) \/ ReleaseShared(r)
  \/ AllocContext(r) \/ CreateTimer(r) \/ Undo(r) \/ GiveBack(r)
  \/ TimerFires(r) \/ CredentialsChanged(r) \/ ReleaseEvents(r)
  \/ ClearPending(r)

WriterStep == ReleaseOld \/ AssignNew \/ ReleaseExclusive

Next ==
  \/ \E r \in Requests : \/ \E g \in 0..generation : Claim(r, g)
                         \/ RequestStep(r)
  \/ \E o \in Objects : SetProviderEvents(o) \/ LogonUIReleases(o)
  \/ ClearProviderEvents
  \/ WriterStep
  \/ LogonUIActs
  \/ SessionEnds

Spec == Init /\ [][Next]_vars

\* The steps of a call and of a callback that has been queued run on threads
\* the system schedules, and so do those of a writer inside the lock.  Nothing
\* makes a session end, a request come or LogonUI act.
FairSpec ==
  Spec /\ (\A r \in Requests : WF_vars(RequestStep(r))) /\ WF_vars(WriterStep)

-----------------------------------------------------------------------------

\* The request's own reference: taken by AddRef, given back by Release.
Holds(r) ==
  \/ pc[r] \in {"alloc", "timer", "undo", "armed", "notify", "release"}
  \/ pc[r] = "unlock" /\ events[r] # None

(***************************************************************************)
(* No method of an events object is called after its last reference is     *)
(* gone, whoever releases first: the AddRef under the shared lock, the     *)
(* Release of the old object under the exclusive lock, CredentialsChanged  *)
(* and Release in a callback that runs long after UnAdvise.                *)
(***************************************************************************)
NoUseAfterRelease ==
  /\ \A r \in Requests :
       pc[r] \in {"addref", "undo", "notify", "release"} => rc[events[r]] > 0
  /\ ui.pc = "release" /\ slot # None => rc[slot] > 0
  /\ ui.pc = "assign" /\ ui.new # None => rc[ui.new] > 0

(***************************************************************************)
(* Every AddRef of the DLL has its Release on every path, errors included: *)
(* the count of an object is LogonUI's reference, the slot's and those of  *)
(* the requests in flight, so that an object LogonUI has dropped and       *)
(* unadvised is freed once no request uses it, and never before.           *)
(***************************************************************************)
ReferencesBalance ==
  \A o \in Objects :
    rc[o] = (IF owned[o] = "held" THEN 1 ELSE 0)
          + (IF slot = o THEN 1 ELSE 0)
          + (IF \E r \in Requests : Holds(r) /\ events[r] = o THEN 1 ELSE 0)

(***************************************************************************)
(* At most one refresh is outstanding between the compare-exchange that    *)
(* took the slot and the exchange that gives it back.                      *)
(***************************************************************************)
OneRefreshInFlight ==
  \A r, s \in Requests : pc[r] # "idle" /\ pc[s] # "idle" => r = s

(***************************************************************************)
(* CredentialsChanged is called with the context value LogonUI passed to   *)
(* Advise with that very object, never with that of a later Advise.        *)
(***************************************************************************)
ContextMatches ==
  \A r \in Requests : pc[r] = "notify" => context[r] = events[r]

(***************************************************************************)
(* The slot is given back in the end, whether the refresh was delivered,   *)
(* overtaken by a new session or failed: a lost slot would mute every      *)
(* later CredentialsChanged for the life of the process.                   *)
(***************************************************************************)
SlotIsGivenBack == refreshPending ~> ~refreshPending

-----------------------------------------------------------------------------
(* RefreshScheduler sees a request from the moment it finds an events       *)
(* object until its slot is given back.                                     *)

Live(r) ==
  \/ pc[r] \in {"addref", "alloc", "timer", "undo", "armed", "notify",
                "release", "clear"}
  \/ pc[r] = "unlock" /\ events[r] # None

AbstractStep(r) == CASE pc[r] = "notify"               -> "notify"
                     [] pc[r] \in {"release", "clear"} -> "clear"
                     [] OTHER                          -> "armed"

AbstractRefresh ==
  IF \E r \in Requests : Live(r)
  THEN LET r == CHOOSE r \in Requests : Live(r)
       IN  [pc |-> AbstractStep(r), gen |-> gen[r], owner |-> 0]
  ELSE [pc |-> "free", gen |-> 0, owner |-> 0]

Scheduler ==
  INSTANCE RefreshScheduler WITH
    refreshPending <- \E r \in Requests : Live(r),
    refresh        <- AbstractRefresh,
    advised        <- slot # None

(***************************************************************************)
(* The machinery keeps RefreshScheduler's promise: one outstanding         *)
(* refresh, further requests dropped, and LogonUI told only by a callback  *)
(* whose generation was current when it checked.                           *)
(***************************************************************************)
ImplementsScheduler == Scheduler!Spec
=============================================================================
