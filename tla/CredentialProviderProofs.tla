---------------------- MODULE CredentialProviderProofs ----------------------
(***************************************************************************)
(* Proofs about CredentialProvider, for any number of calling threads, any *)
(* broker, any set of failing Windows calls and any bounds.                *)
(*                                                                         *)
(* The inductive invariant Inv says what g_session looks like at each step *)
(* of the thread that holds the lock (StepInv) and between two holders     *)
(* (FreeInv).  The type invariant is not inductive without it: a message   *)
(* is one only if it is read from a pipe that exists, and the count of the *)
(* read slices stays in range because of where the reader is.              *)
(*                                                                         *)
(* Four sections of their own follow: what GetSerialization answers and    *)
(* what becomes of the session, how long a method is, the properties of    *)
(* the single-threaded apartment, and the refinement of SessionLifecycle.  *)
(***************************************************************************)
EXTENDS CredentialProvider, TLAPS

\* Exactly the holder of the lock is at a step that needs it.
LockInv == \A c \in Callers : lock = c <=> pc[c] \in LockedSteps

HasPipe    == session.hPipe \in Launches /\ ~session.connected
Launching  == HasPipe /\ session.hProcess = NoHandle
Connecting == HasPipe /\ session.hProcess = session.hPipe
Open       == /\ session.hPipe \in Launches
              /\ session.hProcess = session.hPipe
              /\ session.connected

\* What holds when the holder of the lock is at a step.
StepInv(step) ==
  /\ step \in {"create", "recover", "reap"} => session = NoSession
  /\ step = "launch" => Launching
  /\ step = "connect" => Connecting
  /\ step \in {"read", "wait", "cancel", "check", "poll", "handle"} => Open
  /\ step \notin {"recover", "reap"} => pi = NoHandle
  /\ step \in {"create", "launch", "connect", "read", "wait", "cancel"}
       => slices < MaxSlices

\* What holds when nobody holds it.
FreeInv == (session = NoSession \/ Open) /\ pi = NoHandle /\ slices = 0

Control ==
  /\ LockInv
  /\ lock = Nobody => FreeInv
  /\ \A c \in Callers : pc[c] \in LockedSteps => StepInv(pc[c])

\* No timer carries a generation that is still to come.
TimerInv == refresh.gen <= g.generation

Resources ==
  /\ g.active => session.connected
  /\ HandlesBalanced
  /\ NoOrphanBroker

Refresh == TimerInv /\ GenerationNamesSession

Inv == TypeOK /\ Control /\ Resources /\ Refresh

-----------------------------------------------------------------------------
(***************************************************************************)
(* The helpers of Provider.cpp keep the flags flags.                       *)
(***************************************************************************)

\* Ending a session moves to the next generation and forgets what was
\* remembered of it; starting one keeps the generation.
LEMMA ActiveFacts ==
  ASSUME NEW gl \in Globals
  PROVE  /\ SetBrokerSessionActive(gl, TRUE) \in Globals
         /\ SetBrokerSessionActive(gl, FALSE) \in Globals
         /\ ~SetBrokerSessionActive(gl, FALSE).active
         /\ SetBrokerSessionActive(gl, TRUE).generation = gl.generation
         /\ SetBrokerSessionActive(gl, FALSE).generation = gl.generation + 1
<1>1. gl.generation + 1 \in Nat
  BY DEF Globals
<1>2. QED
  BY <1>1 DEF Globals, SetBrokerSessionActive

\* The other helpers leave the session's flag and generation alone.
LEMMA FlagFacts ==
  ASSUME NEW gl \in Globals, NEW value \in BOOLEAN
  PROVE  /\ SetBrokerAwaitingFinal(gl, value) \in Globals
         /\ ArmForceNextAutoSubmit(gl) \in Globals
         /\ ResetForceNextAutoSubmit(gl) \in Globals
         /\ MarkAutoSubmitTickNow(gl) \in Globals
         /\ ConsumeForceNextAutoSubmit(gl) \in Globals
         /\ TryAcquireAutoSubmitWindow(gl, value) \in Globals
         /\ GrantsWindow(gl, value) \in BOOLEAN
         /\ SetBrokerAwaitingFinal(gl, value).active = gl.active
         /\ ArmForceNextAutoSubmit(gl).active = gl.active
         /\ ResetForceNextAutoSubmit(gl).active = gl.active
         /\ MarkAutoSubmitTickNow(gl).active = gl.active
         /\ ConsumeForceNextAutoSubmit(gl).active = gl.active
         /\ TryAcquireAutoSubmitWindow(gl, value).active = gl.active
         /\ SetBrokerAwaitingFinal(gl, value).generation = gl.generation
         /\ ArmForceNextAutoSubmit(gl).generation = gl.generation
         /\ ResetForceNextAutoSubmit(gl).generation = gl.generation
         /\ MarkAutoSubmitTickNow(gl).generation = gl.generation
         /\ ConsumeForceNextAutoSubmit(gl).generation = gl.generation
         /\ TryAcquireAutoSubmitWindow(gl, value).generation = gl.generation
  BY DEF Globals, SetBrokerAwaitingFinal, ArmForceNextAutoSubmit,
         ResetForceNextAutoSubmit, MarkAutoSubmitTickNow,
         ConsumeForceNextAutoSubmit, TryAcquireAutoSubmitWindow, GrantsWindow

LEMMA EndedFacts ==
  ASSUME g \in Globals
  PROVE  /\ EndedFlags \in Globals
         /\ ~EndedFlags.active
         /\ EndedFlags.generation = g.generation + 1
  BY ActiveFacts, FlagFacts DEF EndedFlags

-----------------------------------------------------------------------------
(***************************************************************************)
(* The pieces the actions are made of keep their variables' types.         *)
(***************************************************************************)

\* Updating a function within its range.
LEMMA UpdateType ==
  ASSUME NEW S, NEW T, NEW f \in [S -> T], NEW x, NEW v \in T
  PROVE  [f EXCEPT ![x] = v] \in [S -> T]
  OBVIOUS

LEMMA ClosePipeType ==
  ASSUME SessionTypeOK, ClosePipeHandle
  PROVE  /\ openPipes' \subseteq Launches
         /\ queue' \in [Launches -> Seq(BrokerMessages)]
<1>1. CASE session.hPipe = NoHandle
  BY <1>1 DEF SessionTypeOK, ClosePipeHandle
<1>2. CASE session.hPipe # NoHandle
  <2>1. <<>> \in Seq(BrokerMessages)
    OBVIOUS
  <2>2. queue' = [queue EXCEPT ![session.hPipe] = <<>>]
    BY <1>2 DEF ClosePipeHandle
  <2>3. queue' \in [Launches -> Seq(BrokerMessages)]
    BY <2>1, <2>2, UpdateType, Zenon DEF SessionTypeOK
  <2>4. QED
    BY <1>2, <2>3 DEF SessionTypeOK, ClosePipeHandle
<1>3. QED
  BY <1>1, <1>2

LEMMA EndsType ==
  ASSUME SessionTypeOK, NEW b, Ends(b)
  PROVE  /\ broker' \in [Launches -> {"unborn", "running", "exited"}]
         /\ client' \in [Launches -> {"none", "open", "closed"}]
  BY DEF SessionTypeOK, Ends

LEMMA WaitAndCloseType ==
  ASSUME SessionTypeOK, NEW b, WaitAndCloseBrokerProcess(b)
  PROVE  /\ openProcs' \subseteq Launches
         /\ broker' \in [Launches -> {"unborn", "running", "exited"}]
         /\ client' \in [Launches -> {"none", "open", "closed"}]
  BY EndsType DEF SessionTypeOK, WaitAndCloseBrokerProcess

LEMMA NoSessionType ==
  NoSession \in [hPipe: Handles, hProcess: Handles, connected: BOOLEAN]
  BY SessionAssumption DEF NoSession, Handles, NoHandle

LEMMA ResetType ==
  ASSUME SessionTypeOK, NEW flags \in Globals, ResetBrokerSession(flags),
         UNCHANGED created
  PROVE  SessionTypeOK'
  BY ClosePipeType, WaitAndCloseType, NoSessionType
  DEF SessionTypeOK, ResetBrokerSession

LEMMA CloseSessionType ==
  ASSUME SessionTypeOK, CloseBrokerSessionNow, UNCHANGED created
  PROVE  SessionTypeOK'
<1>1. g \in Globals
  BY DEF SessionTypeOK
<1>2. CASE session = NoSession
  BY <1>1, <1>2, EndedFacts
  DEF SessionTypeOK, CloseBrokerSessionNow, brokerVars
<1>3. CASE session # NoSession
  BY <1>1, <1>3, EndedFacts, ResetType DEF CloseBrokerSessionNow
<1>4. QED
  BY <1>2, <1>3

LEMMA DetachType ==
  ASSUME SessionTypeOK, NEW flags \in Globals, DetachSession(flags)
  PROVE  /\ g' \in Globals
         /\ pi' \in Handles
         /\ session' \in [hPipe: Handles, hProcess: Handles, connected: BOOLEAN]
         /\ openPipes' \subseteq Launches
         /\ queue' \in [Launches -> Seq(BrokerMessages)]
  BY ClosePipeType, NoSessionType DEF SessionTypeOK, DetachSession

-----------------------------------------------------------------------------
(***************************************************************************)
(* How a step moves control.                                               *)
(***************************************************************************)

\* The holder goes on to another step that needs the lock.
LEMMA HolderMoves ==
  ASSUME TypeOK, Control, NEW c \in Callers, NEW step \in LockedSteps,
         pc[c] \in LockedSteps, lock' = lock, Goto(c, step), StepInv(step)'
  PROVE  Control'
<1>1. lock = c /\ lock' # Nobody
  BY ProviderAssumption DEF Control, LockInv
<1>2. pc' \in [Callers -> LockedSteps \cup OpenSteps] /\ pc'[c] = step
  BY DEF TypeOK, Goto
<1>3. \A d \in Callers \ {c} : pc'[d] = pc[d] /\ pc[d] \notin LockedSteps
  BY <1>1 DEF TypeOK, Goto, Control, LockInv
<1>4. QED
  BY <1>1, <1>2, <1>3 DEF Control, LockInv

\* The holder returns.
LEMMA HolderReturns ==
  ASSUME TypeOK, Control, NEW c \in Callers, NEW kind, NEW reason,
         pc[c] \in LockedSteps, Return(c, kind, reason),
         session' = NoSession \/ Open'
  PROVE  Control'
<1>1. lock = c /\ lock' = Nobody
  BY DEF Control, LockInv, Return
<1>2. \A d \in Callers : pc'[d] \notin LockedSteps
  BY <1>1 DEF TypeOK, Return, Goto, Control, LockInv, LockedSteps
<1>3. FreeInv'
  BY DEF Return, FreeInv
<1>4. QED
  BY <1>1, <1>2, <1>3, ProviderAssumption DEF Control, LockInv

\* A thread without the lock moves while the session stays.
LEMMA OutsiderMoves ==
  ASSUME TypeOK, Control, NEW c \in Callers, NEW step \in OpenSteps,
         pc[c] \in OpenSteps, Goto(c, step),
         UNCHANGED <<lock, session, pi, slices>>
  PROVE  Control'
<1>1. pc'[c] = step /\ \A d \in Callers \ {c} : pc'[d] = pc[d]
  BY DEF TypeOK, Goto
<1>2. \A d \in OpenSteps : d \notin LockedSteps
  BY DEF OpenSteps, LockedSteps
<1>3. \A d \in Callers : pc'[d] \in LockedSteps <=> pc[d] \in LockedSteps
  BY <1>1, <1>2
<1>4. FreeInv => FreeInv'
  BY DEF FreeInv, Open
<1>5. \A s \in LockedSteps : StepInv(s) => StepInv(s)'
  BY DEF StepInv, HasPipe, Launching, Connecting, Open
<1>6. QED
  BY <1>1, <1>2, <1>3, <1>4, <1>5 DEF Control, LockInv

\* Nothing that control depends on changes.
LEMMA ControlStays ==
  ASSUME Control, UNCHANGED <<lock, pc, session, pi, slices>>
  PROVE  Control'
  BY DEF Control, LockInv, FreeInv, StepInv, HasPipe, Launching, Connecting, Open

-----------------------------------------------------------------------------
(***************************************************************************)
(* The timer: a request carries the current generation and the broker of   *)
(* the open session, or none.                                              *)
(***************************************************************************)

RefreshTypeOK ==
  /\ refreshPending \in BOOLEAN
  /\ refresh \in [pc: RS!RefreshSteps, gen: Nat, owner: Nat]
  /\ advised \in BOOLEAN
  /\ notified \in BOOLEAN

LEMMA RefreshTypeFacts ==
  ASSUME g \in Globals
  PROVE  RS!TypeOK <=> RefreshTypeOK
  BY DEF RS!TypeOK, RefreshTypeOK, Globals

LEMMA RequestFacts ==
  ASSUME g \in Globals, RefreshTypeOK, TimerInv, NEW owner \in Nat,
         RequestRefresh(owner)
  PROVE  /\ RefreshTypeOK'
         /\ refresh'.gen <= g.generation
         /\ \/ refresh' = refresh
            \/ refresh'.owner = owner
<1>1. g.generation \in Nat
  BY DEF Globals
<1>2. CASE UNCHANGED <<refreshPending, refresh>>
  BY <1>2 DEF RefreshTypeOK, TimerInv, RequestRefresh
<1>3. CASE /\ refreshPending' = TRUE
           /\ refresh' = [pc |-> "armed", gen |-> g.generation, owner |-> owner]
  <2>1. refresh' \in [pc: RS!RefreshSteps, gen: Nat, owner: Nat]
    BY <1>1, <1>3 DEF RS!RefreshSteps
  <2>2. refresh'.gen = g.generation /\ refresh'.owner = owner
    BY <1>3
  <2>3. QED
    BY <1>1, <1>3, <2>1, <2>2 DEF RefreshTypeOK, RequestRefresh
<1>4. QED
  BY <1>2, <1>3 DEF RequestRefresh, RS!RequestCredentialsChangedAsync

\* The timer stays as it is and the session keeps its process or its generation.
LEMMA RefreshStays ==
  ASSUME Refresh, g \in Globals, g' \in Globals, RefreshTypeOK, refresh' = refresh,
         g'.generation >= g.generation,
         \/ session'.hProcess = session.hProcess
         \/ session.hProcess = NoHandle
         \/ g'.generation > g.generation
  PROVE  Refresh'
<1>1. refresh.gen \in Nat /\ g.generation \in Nat /\ g'.generation \in Nat
  BY DEF RefreshTypeOK, Globals
<1>2. QED
  BY <1>1 DEF Refresh, TimerInv, GenerationNamesSession

\* TypeOK by its parts.
UiTypeOK ==
  /\ cpus \in {"INVALID", "LOGON"}
  /\ tile \in {"none", "INVALID", "LOGON"}
  /\ selected \in BOOLEAN
  /\ submit \in BOOLEAN

CallTypeOK ==
  /\ lock \in Callers \cup {Nobody}
  /\ pc \in [Callers -> LockedSteps \cup OpenSteps]
  /\ pi \in Handles
  /\ why \in Reasons
  /\ slices \in 0 .. MaxSlices
  /\ response \in [kind: Kinds, why: Reasons]

LEMMA TypeParts ==
  TypeOK <=> SessionTypeOK /\ CallTypeOK /\ UiTypeOK /\ RefreshTypeOK
  BY RefreshTypeFacts DEF TypeOK, SessionTypeOK, CallTypeOK, UiTypeOK

LEMMA TypePartsPrimed ==
  TypeOK' <=> SessionTypeOK' /\ CallTypeOK' /\ UiTypeOK' /\ RefreshTypeOK'
  BY TypeParts, PTL

LEMMA GotoType ==
  ASSUME CallTypeOK, NEW c \in Callers, NEW step \in LockedSteps \cup OpenSteps,
         Goto(c, step)
  PROVE  pc' \in [Callers -> LockedSteps \cup OpenSteps]
  BY DEF CallTypeOK, Goto

LEMMA ReturnType ==
  ASSUME CallTypeOK, NEW c \in Callers, NEW kind \in Kinds, NEW reason \in Reasons,
         Return(c, kind, reason)
  PROVE  CallTypeOK'
<1>1. pc' \in [Callers -> LockedSteps \cup OpenSteps]
  BY GotoType DEF Return, OpenSteps
<1>2. QED
  BY <1>1, SessionAssumption, ProviderAssumption
  DEF CallTypeOK, Return, Handles, NoHandle, Reasons

\* An open session has both its handles.
LEMMA OpenFacts ==
  Open => session.hPipe # NoHandle /\ session.hProcess # NoHandle
  BY SessionAssumption DEF Open, Launches, NoHandle

\* The parts of the state a step leaves alone keep their types.
LEMMA UnchangedTypes ==
  /\ UiTypeOK /\ UNCHANGED uiVars => UiTypeOK'
  /\ RefreshTypeOK /\ UNCHANGED refreshVars => RefreshTypeOK'
  /\ SessionTypeOK /\ UNCHANGED <<g, sessionVars, brokerVars>> => SessionTypeOK'
  BY DEF UiTypeOK, uiVars, RefreshTypeOK, refreshVars, SessionTypeOK,
         sessionVars, brokerVars

-----------------------------------------------------------------------------
(***************************************************************************)
(* Putting a session away keeps the handles and the brokers accounted for  *)
(* and outdates its timer.                                                 *)
(***************************************************************************)

\* WaitAndCloseBrokerProcess closes the one handle, and the process behind it
\* has ended when Windows let it.
LEMMA ReapFacts ==
  ASSUME TypeOK, HandlesBalanced, NEW b \in {session.hProcess, pi},
         WaitAndCloseBrokerProcess(b)
  PROVE  /\ openProcs' = openProcs \ {b}
         /\ \A x \in Launches : broker'[x] = "running" => broker[x] = "running"
         /\ "reap" \notin Faults =>
              \A x \in Launches : broker'[x] = "running" => x # b
<1>1. CASE b = NoHandle
  BY <1>1, SessionAssumption
  DEF WaitAndCloseBrokerProcess, HandlesBalanced, Launches, NoHandle
<1>2. CASE b # NoHandle
  BY <1>2 DEF WaitAndCloseBrokerProcess, Ends, TypeOK, SessionTypeOK
<1>3. QED
  BY <1>1, <1>2

\* ClosePipeHandle closes the session's pipe.
LEMMA ClosePipeFacts ==
  ASSUME HandlesBalanced, ClosePipeHandle
  PROVE  openPipes' = {}
  BY DEF HandlesBalanced, ClosePipeHandle

\* A generation that ends takes its timer with it.
LEMMA RefreshOutdated ==
  ASSUME Refresh, RefreshTypeOK, g \in Globals, g'.generation = g.generation + 1,
         refresh' = refresh
  PROVE  Refresh'
<1>1. refresh.gen \in Nat /\ g.generation \in Nat
  BY DEF RefreshTypeOK, Globals
<1>2. QED
  BY <1>1 DEF Refresh, TimerInv, GenerationNamesSession

\* ResetBrokerSession, from any state the lock protects.
LEMMA ResetFacts ==
  ASSUME Inv, NEW flags \in Globals, ResetBrokerSession(flags),
         ~flags.active, flags.generation = g.generation + 1,
         pi = NoHandle, pi' = NoHandle, refresh' = refresh
  PROVE  Resources' /\ Refresh'
<1>1. TypeOK /\ HandlesBalanced /\ NoOrphanBroker /\ session' = NoSession
      /\ g' = flags
  BY DEF Inv, Resources, ResetBrokerSession
<1>2. openPipes' = {} /\ openProcs' = {}
  BY <1>1, ClosePipeFacts, ReapFacts DEF ResetBrokerSession, HandlesBalanced
<1>3. HandlesBalanced'
  BY <1>1, <1>2 DEF HandlesBalanced, NoSession
<1>4. NoOrphanBroker'
  BY <1>1, ReapFacts, SessionAssumption
  DEF NoOrphanBroker, ResetBrokerSession, Launches, NoHandle
<1>5. Refresh'
  BY <1>1, TypeParts, RefreshOutdated DEF Inv, SessionTypeOK
<1>6. QED
  BY <1>1, <1>3, <1>4, <1>5 DEF Resources

\* DetachSession, while GetSerialization has no other process in hand.
LEMMA DetachFacts ==
  ASSUME Inv, NEW flags \in Globals, DetachSession(flags),
         ~flags.active, flags.generation = g.generation + 1,
         pi = NoHandle, UNCHANGED <<openProcs, broker, refresh>>
  PROVE  Resources' /\ Refresh'
<1>1. /\ TypeOK /\ HandlesBalanced /\ NoOrphanBroker
      /\ session' = NoSession /\ g' = flags /\ pi' = session.hProcess
      /\ openPipes' = {}
  BY ClosePipeFacts DEF Inv, Resources, DetachSession
<1>2. HandlesBalanced'
  BY <1>1 DEF HandlesBalanced, NoSession
<1>3. NoOrphanBroker'
  BY <1>1, SessionAssumption DEF NoOrphanBroker, NoSession
<1>4. Refresh'
  BY <1>1, TypeParts, RefreshOutdated DEF Inv, SessionTypeOK
<1>5. QED
  BY <1>1, <1>2, <1>3, <1>4 DEF Resources

-----------------------------------------------------------------------------
(***************************************************************************)
(* GetSerialization: opening the session.                                  *)
(***************************************************************************)

LEMMA LockSessionStep ==
  ASSUME Inv, NEW c \in Callers, LockSession(c)
  PROVE  Inv'
<1> USE DEF LockSession, sessionVars, locals, LockedSteps, OpenSteps
<1>1. TypeOK
  BY DEF Inv
<1>2. TypeOK'
  <2>1. CallTypeOK'
    BY <1>1, TypeParts, GotoType DEF CallTypeOK
  <2>2. QED
    BY <1>1, <2>1, TypeParts, TypePartsPrimed, UnchangedTypes
<1>3. Control'
  <2>1. lock = Nobody /\ lock' = c /\ FreeInv
    BY DEF Inv, Control
  <2>2. \A d \in Callers \ {c} : pc'[d] = pc[d] /\ pc[d] \notin LockedSteps
    BY <1>1, <2>1, ProviderAssumption DEF TypeOK, Goto, Inv, Control, LockInv
  <2>3. pc'[c] = IF NeedsBroker THEN "create" ELSE "read"
    BY <1>1 DEF TypeOK, Goto
  <2>4. NeedsBroker <=> session = NoSession
    BY <2>1, OpenFacts DEF FreeInv, NeedsBroker, NoSession
  <2>5. Open => Open'
    BY DEF Open
  <2>6. StepInv(pc[c])'
    BY <2>1, <2>3, <2>4, <2>5, ProviderAssumption DEF FreeInv, StepInv
  <2>7. QED
    BY <2>1, <2>2, <2>3, <2>6, ProviderAssumption DEF Control, LockInv
<1>4. Resources'
  BY DEF Inv, Resources, HandlesBalanced, NoOrphanBroker, brokerVars
<1>5. Refresh'
  BY <1>1 DEF Inv, Refresh, TimerInv, GenerationNamesSession, refreshVars
<1>6. QED
  BY <1>2, <1>3, <1>4, <1>5 DEF Inv

LEMMA CreateStep ==
  ASSUME Inv, NEW c \in Callers, CreateRestrictedPipeServer(c)
  PROVE  Inv'
<1> USE DEF LockedSteps, OpenSteps
<1>1. /\ TypeOK /\ pc[c] = "create"
      /\ session = NoSession /\ pi = NoHandle /\ slices < MaxSlices
      /\ UNCHANGED <<g, flow, openProcs, brokerVars, uiVars, refreshVars>>
  BY DEF Inv, Control, StepInv, CreateRestrictedPipeServer
<1>2. CASE /\ created < MaxLaunch
           /\ created' = created + 1
           /\ session' = [session EXCEPT !.hPipe = created + 1]
           /\ openPipes' = openPipes \cup {created + 1}
           /\ Goto(c, "launch")
           /\ UNCHANGED <<lock, locals, response>>
  <2>1. created + 1 \in Launches
    BY <1>1, <1>2, SessionAssumption
    DEF TypeOK, SessionTypeOK, Handles, Launches
  <2>2. Launching'
    BY <1>1, <1>2, <2>1 DEF Launching, HasPipe, NoSession
  <2>3. TypeOK'
    <3>1. SessionTypeOK'
      <4>1. created + 1 \in Handles
        BY <2>1, SessionAssumption DEF Handles, Launches
      <4>2. session' \in [hPipe: Handles, hProcess: Handles, connected: BOOLEAN]
        BY <1>1, <1>2, <4>1 DEF TypeOK, SessionTypeOK
      <4>3. QED
        BY <1>1, <1>2, <2>1, <4>1, <4>2 DEF TypeOK, SessionTypeOK, brokerVars
    <3>2. CallTypeOK'
      BY <1>1, <1>2, TypeParts, GotoType DEF CallTypeOK, locals
    <3>3. QED
      BY <1>1, <3>1, <3>2, TypeParts, TypePartsPrimed, UnchangedTypes
  <2>4. StepInv("launch")'
    BY <1>1, <1>2, <2>2 DEF StepInv, locals
  <2>5. Control'
    BY <1>1, <1>2, <2>4, HolderMoves DEF Inv
  <2>6. Resources'
    BY <1>1, <1>2, <2>1, <2>2, SessionAssumption
    DEF Inv, Resources, HandlesBalanced, NoOrphanBroker, brokerVars, locals,
        NoSession, NoHandle, Launches, Launching, HasPipe
  <2>7. Refresh'
    BY <1>1, <1>2 DEF Inv, Refresh, TimerInv, GenerationNamesSession,
                      refreshVars, NoSession
  <2>8. QED
    BY <2>3, <2>5, <2>6, <2>7 DEF Inv
<1>3. CASE /\ session' = [session EXCEPT !.hPipe = NoHandle]
           /\ Return(c, "not_finished", "pipe")
           /\ UNCHANGED <<openPipes, created>>
  <2>1. session' = session
    <3>1. session.hPipe = NoHandle
      BY <1>1 DEF NoSession
    <3>2. QED
      BY <1>1, <1>3, <3>1 DEF TypeOK, SessionTypeOK
  <2>2. TypeOK'
    <3>1. CallTypeOK'
      BY <1>1, <1>3, TypeParts, ReturnType DEF Kinds, Reasons
    <3>2. QED
      BY <1>1, <1>3, <2>1, <3>1, TypeParts, TypePartsPrimed, UnchangedTypes
      DEF sessionVars
  <2>3. Control'
    BY <1>1, <1>3, <2>1, HolderReturns DEF Inv
  <2>4. Resources'
    BY <1>1, <1>3, <2>1
    DEF Inv, Resources, HandlesBalanced, NoOrphanBroker, brokerVars, Return
  <2>5. Refresh'
    BY <1>1, <2>1 DEF Inv, Refresh, TimerInv, GenerationNamesSession, refreshVars
  <2>6. QED
    BY <2>2, <2>3, <2>4, <2>5 DEF Inv
<1>4. QED
  BY <1>2, <1>3 DEF CreateRestrictedPipeServer

LEMMA LaunchStep ==
  ASSUME Inv, NEW c \in Callers, LaunchBroker(c)
  PROVE  Inv'
<1> USE DEF LockedSteps, OpenSteps
<1>1. /\ TypeOK /\ pc[c] = "launch"
      /\ Launching /\ pi = NoHandle /\ slices < MaxSlices
      /\ UNCHANGED <<created, uiVars, refreshVars>>
  BY DEF Inv, Control, StepInv, LaunchBroker
<1>2. /\ session.hPipe \in Launches /\ session.hProcess = NoHandle
      /\ session \in [hPipe: Handles, hProcess: Handles, connected: BOOLEAN]
  BY <1>1 DEF Launching, HasPipe, TypeOK, SessionTypeOK
<1>3. CASE /\ broker' = [broker EXCEPT ![session.hPipe] = "running"]
           /\ session' = [session EXCEPT !.hProcess = session.hPipe]
           /\ openProcs' = openProcs \cup {session.hPipe}
           /\ Goto(c, "connect")
           /\ UNCHANGED <<g, flow, openPipes, client, queue, lock, locals, response>>
  <2>1. Connecting'
    BY <1>1, <1>2, <1>3 DEF Connecting, Launching, HasPipe
  <2>2. TypeOK'
    <3>1. session' \in [hPipe: Handles, hProcess: Handles, connected: BOOLEAN]
      BY <1>2, <1>3
    <3>2. SessionTypeOK'
      BY <1>1, <1>2, <1>3, <3>1 DEF TypeOK, SessionTypeOK
    <3>3. CallTypeOK'
      BY <1>1, <1>3, TypeParts, GotoType DEF CallTypeOK, locals
    <3>4. QED
      BY <1>1, <3>2, <3>3, TypeParts, TypePartsPrimed, UnchangedTypes
  <2>3. StepInv("connect")'
    BY <1>1, <1>3, <2>1 DEF StepInv, locals
  <2>4. Control'
    BY <1>1, <1>3, <2>3, HolderMoves DEF Inv
  <2>5. Resources'
    <3>1. session'.connected = session.connected /\ session'.hPipe = session.hPipe
      BY <1>2, <1>3
    <3>2. \A b \in Launches : broker'[b] = "running"
                                => b = session.hPipe \/ broker[b] = "running"
      BY <1>1, <1>3 DEF TypeOK, SessionTypeOK
    <3>3. session.hPipe # NoHandle /\ session'.hProcess = session.hPipe
      BY <1>2, <1>3, SessionAssumption DEF Launches, NoHandle
    <3>4. HandlesBalanced'
      BY <1>1, <1>2, <1>3, <3>1, <3>3 DEF Inv, Resources, HandlesBalanced, locals
    <3>5. NoOrphanBroker'
      BY <1>1, <1>2, <1>3, <3>2, <3>3, SessionAssumption
      DEF Inv, Resources, NoOrphanBroker, locals, NoHandle, Launches
    <3>6. QED
      BY <1>3, <3>1, <3>4, <3>5 DEF Inv, Resources
  <2>6. Refresh'
    BY <1>1, <1>2, <1>3 DEF Inv, Refresh, TimerInv, GenerationNamesSession,
                            refreshVars
  <2>7. QED
    BY <2>2, <2>4, <2>5, <2>6 DEF Inv
<1>4. CASE /\ ResetBrokerSession(SetBrokerSessionActive(g, FALSE))
           /\ Return(c, "not_finished", "launch")
  <2>1. g \in Globals
    BY <1>1 DEF TypeOK, SessionTypeOK
  <2>2. session' = NoSession
    BY <1>4 DEF ResetBrokerSession
  <2>3. TypeOK'
    <3>1. SessionTypeOK'
      BY <1>1, <1>4, <2>1, ActiveFacts, ResetType DEF TypeOK
    <3>2. CallTypeOK'
      BY <1>1, <1>4, TypeParts, ReturnType DEF Kinds, Reasons
    <3>3. QED
      BY <1>1, <3>1, <3>2, TypeParts, TypePartsPrimed, UnchangedTypes
  <2>4. Control'
    BY <1>1, <1>4, <2>2, HolderReturns DEF Inv
  <2>5. Resources' /\ Refresh'
    BY <1>1, <1>4, <2>1, ActiveFacts, ResetFacts DEF Return, refreshVars
  <2>6. QED
    BY <2>3, <2>4, <2>5 DEF Inv
<1>5. QED
  BY <1>3, <1>4 DEF LaunchBroker

LEMMA ConnectSucceedsStep ==
  ASSUME Inv, NEW c \in Callers, ConnectSucceeds(c)
  PROVE  Inv'
<1> USE DEF LockedSteps, OpenSteps
<1> DEFINE flags == SetBrokerAwaitingFinal(SetBrokerSessionActive(g, TRUE), FALSE)
<1>1. /\ TypeOK /\ pc[c] = "connect"
      /\ Connecting /\ pi = NoHandle /\ slices < MaxSlices
      /\ session' = [session EXCEPT !.connected = TRUE]
      /\ g' = flags /\ flow' = 0 /\ Goto(c, "read")
      /\ UNCHANGED <<openPipes, openProcs, created, brokerVars, lock, locals,
                     uiVars, response, refreshVars>>
  BY DEF Inv, Control, StepInv, ConnectSucceeds
<1>2. /\ g \in Globals /\ g' \in Globals /\ g'.generation = g.generation
      /\ session \in [hPipe: Handles, hProcess: Handles, connected: BOOLEAN]
  <2>1. /\ g \in Globals
        /\ session \in [hPipe: Handles, hProcess: Handles, connected: BOOLEAN]
    BY <1>1 DEF TypeOK, SessionTypeOK
  <2>2. /\ SetBrokerSessionActive(g, TRUE) \in Globals
        /\ SetBrokerSessionActive(g, TRUE).generation = g.generation
    BY <2>1, ActiveFacts
  <2>3. flags \in Globals /\ flags.generation = g.generation
    BY <2>2, FlagFacts
  <2>4. QED
    BY <1>1, <2>1, <2>3
<1>3. /\ session' \in [hPipe: Handles, hProcess: Handles, connected: BOOLEAN]
      /\ session'.connected /\ session'.hPipe = session.hPipe
      /\ session'.hProcess = session.hProcess
  BY <1>1, <1>2
<1>4. TypeOK'
  <2>1. SessionTypeOK'
    <3>1. SessionTypeOK /\ flow' = 0 /\ UNCHANGED <<openPipes, openProcs, created,
                                                    broker, client, queue>>
      BY <1>1 DEF TypeOK, brokerVars
    <3>2. QED
      BY <1>2, <1>3, <3>1 DEF SessionTypeOK
  <2>2. CallTypeOK'
    BY <1>1, TypeParts, GotoType DEF CallTypeOK, locals
  <2>3. QED
    BY <1>1, <2>1, <2>2, TypeParts, TypePartsPrimed, UnchangedTypes
<1>5. StepInv("read")'
  BY <1>1, <1>3 DEF StepInv, Open, Connecting, HasPipe, locals
<1>6. Control'
  BY <1>1, <1>5, HolderMoves DEF Inv
<1>7. Resources'
  BY <1>1, <1>3 DEF Inv, Resources, HandlesBalanced, NoOrphanBroker, brokerVars,
                    locals
<1>8. Refresh'
  BY <1>1, <1>2, <1>3 DEF Inv, Refresh, TimerInv, GenerationNamesSession,
                          refreshVars
<1>9. QED
  BY <1>4, <1>6, <1>7, <1>8 DEF Inv

LEMMA ConnectFailsStep ==
  ASSUME Inv, NEW c \in Callers, ConnectFails(c)
  PROVE  Inv'
<1> USE DEF LockedSteps, OpenSteps
<1>1. /\ TypeOK /\ pc[c] = "connect" /\ pi = NoHandle
      /\ why' \in ConnectFailures(session.hPipe)
      /\ DetachSession(SetBrokerSessionActive(g, FALSE))
      /\ Goto(c, "reap")
      /\ UNCHANGED <<flow, openProcs, created, broker, client, lock, slices,
                     uiVars, response, refreshVars>>
  BY DEF Inv, Control, StepInv, ConnectFails
<1>2. SessionTypeOK /\ g \in Globals /\ session' = NoSession
  BY <1>1 DEF TypeOK, SessionTypeOK, DetachSession
<1>3. TypeOK'
  <2>1. SessionTypeOK' /\ pi' \in Handles
    BY <1>1, <1>2, ActiveFacts, DetachType DEF SessionTypeOK
  <2>2. why' \in Reasons
    BY <1>1 DEF ConnectFailures, Reasons
  <2>3. CallTypeOK'
    BY <1>1, <2>1, <2>2, TypeParts, GotoType DEF CallTypeOK
  <2>4. QED
    BY <1>1, <2>1, <2>3, TypeParts, TypePartsPrimed, UnchangedTypes
<1>4. Control'
  BY <1>1, <1>2, HolderMoves DEF Inv, StepInv
<1>5. Resources' /\ Refresh'
  BY <1>1, <1>2, ActiveFacts, DetachFacts DEF refreshVars
<1>6. QED
  BY <1>3, <1>4, <1>5 DEF Inv

-----------------------------------------------------------------------------
(***************************************************************************)
(* GetSerialization: reading.                                              *)
(***************************************************************************)

\* What is in an existing pipe is a message, and the rest stays messages.
LEMMA HeadTailType ==
  ASSUME SessionTypeOK, session.hPipe \in Launches, Unread
  PROVE  /\ Head(queue[session.hPipe]) \in BrokerMessages
         /\ [queue EXCEPT ![session.hPipe] = Tail(@)]
              \in [Launches -> Seq(BrokerMessages)]
<1>1. queue[session.hPipe] \in Seq(BrokerMessages)
  BY Zenon DEF SessionTypeOK
<1>2. /\ Head(queue[session.hPipe]) \in BrokerMessages
      /\ Tail(queue[session.hPipe]) \in Seq(BrokerMessages)
  BY <1>1 DEF Unread
<1>3. QED
  BY <1>2, UpdateType, Zenon DEF SessionTypeOK

LEMMA TakeMessageStep ==
  ASSUME Inv, NEW c \in Callers, pc[c] \in {"read", "wait"}, TakeMessage(c),
         UNCHANGED <<lock, slices, uiVars, response, refreshVars>>
  PROVE  Inv'
<1> USE DEF LockedSteps, OpenSteps
<1>1. /\ TypeOK /\ Open /\ pi = NoHandle /\ Unread
      /\ why' = Head(queue[session.hPipe])
      /\ queue' = [queue EXCEPT ![session.hPipe] = Tail(@)]
      /\ Goto(c, "handle")
      /\ UNCHANGED <<g, sessionVars, broker, client, pi>>
  BY DEF Inv, Control, StepInv, TakeMessage
<1>2. TypeOK'
  <2>1. /\ why' \in BrokerMessages
        /\ queue' \in [Launches -> Seq(BrokerMessages)]
    <3>1. SessionTypeOK /\ session.hPipe \in Launches
      BY <1>1 DEF TypeOK, Open
    <3>2. QED
      BY <1>1, <3>1, HeadTailType, Zenon
  <2>2. why' \in Reasons
    BY <2>1, SessionAssumption DEF Reasons
  <2>3. SessionTypeOK'
    BY <1>1, <2>1 DEF TypeOK, SessionTypeOK, sessionVars
  <2>4. CallTypeOK'
    BY <1>1, <2>2, TypeParts, GotoType DEF CallTypeOK
  <2>5. QED
    BY <1>1, <2>3, <2>4, TypeParts, TypePartsPrimed, UnchangedTypes
<1>3. StepInv("handle")'
  BY <1>1 DEF StepInv, Open, sessionVars
<1>4. Control'
  BY <1>1, <1>3, HolderMoves DEF Inv
<1>5. Resources' /\ Refresh'
  BY <1>1 DEF Inv, Resources, HandlesBalanced, NoOrphanBroker, sessionVars,
              Refresh, TimerInv, GenerationNamesSession, refreshVars
<1>6. QED
  BY <1>2, <1>4, <1>5 DEF Inv

LEMMA LoseBrokerStep ==
  ASSUME Inv, NEW c \in Callers, pc[c] \in {"read", "wait", "check"}, LoseBroker(c),
         UNCHANGED <<lock, slices, uiVars, response, refreshVars>>
  PROVE  Inv'
<1> USE DEF LockedSteps, OpenSteps
<1>1. /\ TypeOK /\ pi = NoHandle
      /\ DetachSession(EndedFlags) /\ flow' = 0 /\ Goto(c, "recover")
      /\ UNCHANGED <<openProcs, created, broker, client, why>>
  BY DEF Inv, Control, StepInv, LoseBroker
<1>2. SessionTypeOK /\ g \in Globals /\ session' = NoSession
  BY <1>1 DEF TypeOK, SessionTypeOK, DetachSession
<1>3. TypeOK'
  <2>1. SessionTypeOK' /\ pi' \in Handles
    BY <1>1, <1>2, EndedFacts, DetachType DEF SessionTypeOK
  <2>2. CallTypeOK'
    BY <1>1, <2>1, TypeParts, GotoType DEF CallTypeOK
  <2>3. QED
    BY <1>1, <2>1, <2>2, TypeParts, TypePartsPrimed, UnchangedTypes
<1>4. Control'
  BY <1>1, <1>2, HolderMoves DEF Inv, StepInv
<1>5. Resources' /\ Refresh'
  BY <1>1, <1>2, EndedFacts, DetachFacts DEF refreshVars
<1>6. QED
  BY <1>3, <1>4, <1>5 DEF Inv

\* Moving on within the read changes nothing but the step.
LEMMA ReadMovesStep ==
  ASSUME Inv, NEW c \in Callers, NEW step \in {"read", "wait", "cancel", "poll"},
         pc[c] \in {"read", "wait", "check"}, Goto(c, step),
         step # "poll" => slices < MaxSlices,
         UNCHANGED <<g, sessionVars, brokerVars, lock, locals, uiVars, response,
                     refreshVars>>
  PROVE  Inv'
<1> USE DEF LockedSteps, OpenSteps
<1>1. TypeOK /\ Open /\ pi = NoHandle
  BY DEF Inv, Control, StepInv
<1>2. TypeOK'
  <2>1. CallTypeOK'
    BY <1>1, TypeParts, GotoType DEF CallTypeOK, locals
  <2>2. QED
    BY <1>1, <2>1, TypeParts, TypePartsPrimed, UnchangedTypes
<1>3. StepInv(step)'
  BY <1>1 DEF StepInv, Open, sessionVars, locals
<1>4. Control'
  BY <1>1, <1>3, HolderMoves DEF Inv
<1>5. Resources' /\ Refresh'
  BY DEF Inv, Resources, HandlesBalanced, NoOrphanBroker, sessionVars, brokerVars,
         locals, Refresh, TimerInv, GenerationNamesSession, refreshVars
<1>6. QED
  BY <1>2, <1>4, <1>5 DEF Inv

LEMMA ReadPipeStep ==
  ASSUME Inv, NEW c \in Callers, ReadPipe(c)
  PROVE  Inv'
<1>1. pc[c] = "read" /\ UNCHANGED <<lock, slices, uiVars, response, refreshVars>>
  BY DEF ReadPipe
<1>2. slices < MaxSlices
  BY <1>1 DEF Inv, Control, StepInv, LockedSteps
<1>3. CASE TakeMessage(c)
  BY <1>1, <1>3, TakeMessageStep
<1>4. CASE LoseBroker(c)
  BY <1>1, <1>4, LoseBrokerStep
<1>5. CASE Goto(c, "wait") /\ UNCHANGED <<g, sessionVars, brokerVars, pi, why>>
  BY <1>1, <1>2, <1>5, ReadMovesStep DEF locals
<1>6. QED
  BY <1>3, <1>4, <1>5 DEF ReadPipe

LEMMA WaitReadStep ==
  ASSUME Inv, NEW c \in Callers, WaitRead(c)
  PROVE  Inv'
<1>1. pc[c] = "wait" /\ UNCHANGED <<lock, slices, uiVars, response, refreshVars>>
  BY DEF WaitRead
<1>2. slices < MaxSlices
  BY <1>1 DEF Inv, Control, StepInv, LockedSteps
<1>3. CASE TakeMessage(c)
  BY <1>1, <1>3, TakeMessageStep
<1>4. CASE LoseBroker(c)
  BY <1>1, <1>4, LoseBrokerStep
<1>5. CASE Goto(c, "cancel") /\ UNCHANGED <<g, sessionVars, brokerVars, pi, why>>
  BY <1>1, <1>2, <1>5, ReadMovesStep DEF locals
<1>6. QED
  BY <1>3, <1>4, <1>5 DEF WaitRead

LEMMA CheckStep ==
  ASSUME Inv, NEW c \in Callers, CheckElapsed(c) \/ CheckExited(c)
  PROVE  Inv'
<1>1. CASE CheckExited(c)
  BY <1>1, LoseBrokerStep DEF CheckExited
<1>2. CASE CheckElapsed(c)
  <2>1. CASE slices < MaxSlices /\ Goto(c, "read")
    BY <1>2, <2>1, ReadMovesStep DEF CheckElapsed
  <2>2. CASE Goto(c, "poll")
    BY <1>2, <2>2, ReadMovesStep DEF CheckElapsed
  <2>3. QED
    BY <1>2, <2>1, <2>2 DEF CheckElapsed
<1>3. QED
  BY <1>1, <1>2

\* The slice that is given up was to spare: the count stays within MaxSlices.
LEMMA CancelReadStep ==
  ASSUME Inv, NEW c \in Callers, CancelRead(c)
  PROVE  Inv'
<1> USE DEF LockedSteps, OpenSteps
<1>1. /\ TypeOK /\ pc[c] = "cancel" /\ Open /\ pi = NoHandle /\ slices < MaxSlices
      /\ queue' = IF Unread THEN [queue EXCEPT ![session.hPipe] = Tail(@)] ELSE queue
      /\ slices' = slices + 1
      /\ Goto(c, "check")
      /\ UNCHANGED <<g, sessionVars, broker, client, lock, pi, why, uiVars,
                     response, refreshVars>>
  BY DEF Inv, Control, StepInv, CancelRead
<1>2. TypeOK'
  <2>1. SessionTypeOK /\ session.hPipe \in Launches
    BY <1>1 DEF TypeOK, Open
  <2>2. queue' \in [Launches -> Seq(BrokerMessages)]
    <3>1. CASE Unread
      BY <1>1, <2>1, <3>1, HeadTailType, Zenon
    <3>2. CASE ~Unread
      BY <1>1, <2>1, <3>2, Zenon DEF SessionTypeOK
    <3>3. QED
      BY <3>1, <3>2
  <2>3. SessionTypeOK'
    BY <1>1, <2>1, <2>2 DEF SessionTypeOK, sessionVars
  <2>4. slices' \in 0 .. MaxSlices
    BY <1>1, ProviderAssumption DEF TypeOK
  <2>5. CallTypeOK'
    BY <1>1, <2>4, TypeParts, GotoType DEF CallTypeOK
  <2>6. QED
    BY <1>1, <2>3, <2>5, TypeParts, TypePartsPrimed, UnchangedTypes
<1>3. StepInv("check")'
  BY <1>1 DEF StepInv, Open, sessionVars
<1>4. Control'
  BY <1>1, <1>3, HolderMoves DEF Inv
<1>5. Resources' /\ Refresh'
  BY <1>1 DEF Inv, Resources, HandlesBalanced, NoOrphanBroker, sessionVars,
              Refresh, TimerInv, GenerationNamesSession, refreshVars
<1>6. QED
  BY <1>2, <1>4, <1>5 DEF Inv

-----------------------------------------------------------------------------
(***************************************************************************)
(* GetSerialization: its answers.                                          *)
(***************************************************************************)

\* A request made for the open session, or after it has ended, keeps Refresh.
LEMMA RequestKeepsRefresh ==
  ASSUME Inv, NEW owner \in {NoHandle, session.hProcess}, RequestRefresh(owner),
         g' \in Globals, g'.generation = g.generation, session' = session
  PROVE  RefreshTypeOK' /\ Refresh'
<1>1. SessionTypeOK /\ g \in Globals /\ RefreshTypeOK /\ TimerInv
      /\ GenerationNamesSession
  BY TypeParts DEF Inv, SessionTypeOK, Refresh
<1>2. owner \in Nat
  BY <1>1, SessionAssumption DEF SessionTypeOK, Handles, NoHandle
<1>3. /\ RefreshTypeOK'
      /\ refresh'.gen <= g.generation
      /\ refresh' = refresh \/ refresh'.owner = owner
  BY <1>1, <1>2, RequestFacts
<1>4. QED
  BY <1>1, <1>3 DEF Refresh, TimerInv, GenerationNamesSession

LEMMA PollStep ==
  ASSUME Inv, NEW c \in Callers, PollAgain(c)
  PROVE  Inv'
<1> USE DEF LockedSteps, OpenSteps
<1>1. /\ TypeOK /\ pc[c] = "poll" /\ Open /\ pi = NoHandle
      /\ RequestRefresh(session.hProcess)
      /\ Return(c, "not_finished", "poll")
      /\ UNCHANGED <<g, sessionVars, brokerVars, uiVars>>
  BY DEF Inv, Control, StepInv, PollAgain
<1>2. g' \in Globals /\ g'.generation = g.generation /\ session' = session
  BY <1>1 DEF TypeOK, SessionTypeOK, sessionVars
<1>3. RefreshTypeOK' /\ Refresh'
  BY <1>1, <1>2, RequestKeepsRefresh
<1>4. TypeOK'
  <2>1. CallTypeOK'
    BY <1>1, TypeParts, ReturnType DEF Kinds, Reasons
  <2>2. QED
    BY <1>1, <1>3, <2>1, TypeParts, TypePartsPrimed, UnchangedTypes
<1>5. Control'
  BY <1>1, <1>2, HolderReturns DEF Inv, Open
<1>6. Resources'
  BY <1>1 DEF Inv, Resources, HandlesBalanced, NoOrphanBroker, sessionVars,
              brokerVars, Return
<1>7. QED
  BY <1>3, <1>4, <1>5, <1>6 DEF Inv

LEMMA ProgressStep ==
  ASSUME Inv, NEW c \in Callers, HandleProgress(c)
  PROVE  Inv'
<1> USE DEF LockedSteps, OpenSteps
<1>1. /\ TypeOK /\ pc[c] = "handle" /\ Open /\ pi = NoHandle
      /\ why \in {"AUTH_PENDING", "AUTH_IDLE"}
      /\ g' = SetBrokerAwaitingFinal(g, why = "AUTH_PENDING")
      /\ flow' = IF why = "AUTH_PENDING" THEN 1 ELSE 2
      /\ RequestRefresh(session.hProcess)
      /\ Return(c, "not_finished", why)
      /\ UNCHANGED <<session, openPipes, openProcs, created, brokerVars, uiVars>>
  BY DEF Inv, Control, StepInv, HandleProgress
<1>2. /\ g \in Globals /\ g' \in Globals /\ g'.generation = g.generation
      /\ g'.active = g.active
  BY <1>1, FlagFacts DEF TypeOK, SessionTypeOK
<1>3. RefreshTypeOK' /\ Refresh'
  BY <1>1, <1>2, RequestKeepsRefresh
<1>4. TypeOK'
  <2>1. CallTypeOK'
    BY <1>1, TypeParts, ReturnType DEF Kinds, TypeOK
  <2>2. SessionTypeOK'
    BY <1>1, <1>2 DEF TypeOK, SessionTypeOK, brokerVars
  <2>3. QED
    BY <1>1, <1>3, <2>1, <2>2, TypeParts, TypePartsPrimed, UnchangedTypes
<1>5. Control'
  BY <1>1, HolderReturns DEF Inv, Open
<1>6. Resources'
  BY <1>1, <1>2 DEF Inv, Resources, HandlesBalanced, NoOrphanBroker, brokerVars,
                    Return
<1>7. QED
  BY <1>3, <1>4, <1>5, <1>6 DEF Inv

\* Putting away the process in hand, with no session left.
LEMMA ReapKeepsResources ==
  ASSUME Inv, session = NoSession, WaitAndCloseBrokerProcess(pi), pi' = NoHandle,
         UNCHANGED <<session, openPipes>>, g'.active = g.active
  PROVE  Resources'
<1>1. TypeOK /\ HandlesBalanced /\ NoOrphanBroker
  BY DEF Inv, Resources
<1>2. /\ openProcs' = openProcs \ {pi}
      /\ \A x \in Launches : broker'[x] = "running" => broker[x] = "running"
      /\ "reap" \notin Faults =>
           \A x \in Launches : broker'[x] = "running" => x # pi
  BY <1>1, ReapFacts
<1>3. HandlesBalanced'
  BY <1>1, <1>2 DEF HandlesBalanced, NoSession
<1>4. NoOrphanBroker'
  BY <1>1, <1>2 DEF NoOrphanBroker
<1>5. QED
  BY <1>3, <1>4 DEF Inv, Resources

LEMMA RecoverStep ==
  ASSUME Inv, NEW c \in Callers, RecoverBroker(c)
  PROVE  Inv'
<1> USE DEF LockedSteps, OpenSteps
<1>1. /\ TypeOK /\ pc[c] = "recover" /\ session = NoSession
      /\ WaitAndCloseBrokerProcess(pi)
      /\ g' = ArmForceNextAutoSubmit(g)
      /\ RequestRefresh(NoHandle)
      /\ Return(c, "not_finished", "recover")
      /\ UNCHANGED <<session, flow, openPipes, created, queue, uiVars>>
  BY DEF Inv, Control, StepInv, RecoverBroker
<1>2. /\ g \in Globals /\ g' \in Globals /\ g'.generation = g.generation
      /\ g'.active = g.active /\ session' = session /\ pi' = NoHandle
  BY <1>1, FlagFacts DEF TypeOK, SessionTypeOK, Return
<1>3. RefreshTypeOK' /\ Refresh'
  BY <1>1, <1>2, RequestKeepsRefresh
<1>4. TypeOK'
  <2>1. CallTypeOK'
    BY <1>1, TypeParts, ReturnType DEF Kinds, Reasons
  <2>2. SessionTypeOK'
    BY <1>1, <1>2, WaitAndCloseType DEF TypeOK, SessionTypeOK
  <2>3. QED
    BY <1>1, <1>3, <2>1, <2>2, TypeParts, TypePartsPrimed, UnchangedTypes
<1>5. Control'
  BY <1>1, HolderReturns DEF Inv
<1>6. Resources'
  BY <1>1, <1>2, ReapKeepsResources
<1>7. QED
  BY <1>3, <1>4, <1>5, <1>6 DEF Inv

LEMMA ReapStep ==
  ASSUME Inv, NEW c \in Callers, ReapAndAnswer(c)
  PROVE  Inv'
<1> USE DEF LockedSteps, OpenSteps
<1>1. /\ TypeOK /\ pc[c] = "reap" /\ session = NoSession
      /\ WaitAndCloseBrokerProcess(pi)
      /\ \E kind \in Answers(why) : Return(c, kind, why)
      /\ UNCHANGED <<g, session, flow, openPipes, created, queue, uiVars,
                     refreshVars>>
  BY DEF Inv, Control, StepInv, ReapAndAnswer
<1>2. PICK kind \in Kinds : Return(c, kind, why)
  BY <1>1 DEF Answers, Kinds
<1>3. TypeOK'
  <2>1. CallTypeOK'
    BY <1>1, <1>2, TypeParts, ReturnType DEF TypeOK
  <2>2. SessionTypeOK'
    BY <1>1, WaitAndCloseType DEF TypeOK, SessionTypeOK
  <2>3. QED
    BY <1>1, <2>1, <2>2, TypeParts, TypePartsPrimed, UnchangedTypes
<1>4. Control'
  BY <1>1, <1>2, HolderReturns DEF Inv
<1>5. Resources'
  BY <1>1, <1>2, ReapKeepsResources DEF Return
<1>6. Refresh'
  BY <1>1 DEF Inv, Refresh, TimerInv, GenerationNamesSession, refreshVars
<1>7. QED
  BY <1>3, <1>4, <1>5, <1>6 DEF Inv

LEMMA ParseFailureStep ==
  ASSUME Inv, NEW c \in Callers, HandleParseFailure(c)
  PROVE  Inv'
<1> USE DEF LockedSteps, OpenSteps
<1>1. /\ TypeOK /\ pc[c] = "handle" /\ pi = NoHandle
      /\ ResetBrokerSession(EndedFlags)
      /\ Return(c, "not_finished", why)
      /\ UNCHANGED <<created, uiVars, refreshVars>>
  BY DEF Inv, Control, StepInv, HandleParseFailure
<1>2. g \in Globals /\ session' = NoSession /\ pi' = NoHandle /\ refresh' = refresh
  BY <1>1 DEF TypeOK, SessionTypeOK, ResetBrokerSession, Return, refreshVars
<1>3. TypeOK'
  <2>1. SessionTypeOK'
    BY <1>1, <1>2, EndedFacts, ResetType DEF TypeOK
  <2>2. CallTypeOK'
    BY <1>1, TypeParts, ReturnType DEF Kinds, TypeOK
  <2>3. QED
    BY <1>1, <2>1, <2>2, TypeParts, TypePartsPrimed, UnchangedTypes
<1>4. Control'
  BY <1>1, <1>2, HolderReturns DEF Inv
<1>5. Resources' /\ Refresh'
  BY <1>1, <1>2, EndedFacts, ResetFacts
<1>6. QED
  BY <1>3, <1>4, <1>5 DEF Inv

LEMMA TerminalStep ==
  ASSUME Inv, NEW c \in Callers, HandleTerminal(c)
  PROVE  Inv'
<1> USE DEF LockedSteps, OpenSteps
<1>1. /\ TypeOK /\ pc[c] = "handle" /\ pi = NoHandle
      /\ DetachSession(EndedFlags) /\ flow' = 0 /\ Goto(c, "reap")
      /\ UNCHANGED <<openProcs, created, broker, client, lock, why, slices,
                     uiVars, response, refreshVars>>
  BY DEF Inv, Control, StepInv, HandleTerminal
<1>2. SessionTypeOK /\ g \in Globals /\ session' = NoSession
  BY <1>1 DEF TypeOK, SessionTypeOK, DetachSession
<1>3. TypeOK'
  <2>1. SessionTypeOK' /\ pi' \in Handles
    BY <1>1, <1>2, EndedFacts, DetachType DEF SessionTypeOK
  <2>2. CallTypeOK'
    BY <1>1, <2>1, TypeParts, GotoType DEF CallTypeOK
  <2>3. QED
    BY <1>1, <2>1, <2>2, TypeParts, TypePartsPrimed, UnchangedTypes
<1>4. Control'
  BY <1>1, <1>2, HolderMoves DEF Inv, StepInv
<1>5. Resources' /\ Refresh'
  BY <1>1, <1>2, EndedFacts, DetachFacts DEF refreshVars
<1>6. QED
  BY <1>3, <1>4, <1>5 DEF Inv

LEMMA GetSerializationStepInv ==
  ASSUME Inv, NEW c \in Callers, GetSerializationStep(c)
  PROVE  Inv'
  BY CreateStep, LaunchStep, ConnectSucceedsStep, ConnectFailsStep, ReadPipeStep,
     WaitReadStep, CancelReadStep, CheckStep, PollStep, RecoverStep,
     ParseFailureStep, ProgressStep, TerminalStep, ReapStep
  DEF GetSerializationStep

-----------------------------------------------------------------------------
(***************************************************************************)
(* The other methods.                                                      *)
(***************************************************************************)

\* A thread moves between steps that do not hold the lock; the session stays,
\* and the flags do not say more of it than they did.
LEMMA OutsiderStep ==
  ASSUME Inv, NEW c \in Callers, NEW step \in OpenSteps, pc[c] \in OpenSteps,
         Goto(c, step), UNCHANGED <<sessionVars, brokerVars, lock, locals>>,
         g' \in Globals, g'.active => g.active, g'.generation >= g.generation,
         refresh' = refresh, response' \in [kind: Kinds, why: Reasons],
         UiTypeOK', RefreshTypeOK'
  PROVE  Inv'
<1>1. TypeOK /\ g \in Globals /\ RefreshTypeOK
  BY TypeParts DEF Inv, SessionTypeOK
<1>2. TypeOK'
  <2>1. SessionTypeOK'
    BY <1>1 DEF TypeOK, SessionTypeOK, sessionVars, brokerVars
  <2>2. CallTypeOK'
    BY <1>1, TypeParts, GotoType DEF CallTypeOK, locals
  <2>3. QED
    BY <2>1, <2>2, TypePartsPrimed
<1>3. Control'
  BY <1>1, OutsiderMoves DEF Inv, sessionVars, locals
<1>4. Resources'
  BY DEF Inv, Resources, HandlesBalanced, NoOrphanBroker, sessionVars, brokerVars,
         locals
<1>5. Refresh'
  BY <1>1, RefreshStays DEF Inv, sessionVars
<1>6. QED
  BY <1>2, <1>3, <1>4, <1>5 DEF Inv

LEMMA IdleStays ==
  ASSUME TypeOK, NEW c \in Callers, pc[c] = "idle", UNCHANGED pc
  PROVE  Goto(c, "idle")
  BY DEF TypeOK, Goto

\* The same for a step that leaves the flags alone.
LEMMA OutsiderUiStep ==
  ASSUME Inv, NEW c \in Callers, NEW step \in OpenSteps, pc[c] = "idle",
         Goto(c, step), UNCHANGED <<g, sessionVars, brokerVars, lock, locals>>,
         refresh' = refresh, response' \in [kind: Kinds, why: Reasons],
         UiTypeOK', RefreshTypeOK'
  PROVE  Inv'
<1>1. g \in Globals /\ g.generation \in Nat
  BY DEF Inv, TypeOK, SessionTypeOK, Globals
<1>2. g' \in Globals /\ (g'.active => g.active) /\ g'.generation >= g.generation
  BY <1>1
<1>3. pc[c] \in OpenSteps
  BY DEF OpenSteps
<1>4. QED
  BY <1>2, <1>3, OutsiderStep

LEMMA CallStepInv ==
  ASSUME Inv, NEW c \in Callers, CallStep(c)
  PROVE  Inv'
<1> USE DEF OpenSteps
<1>1. /\ TypeOK /\ g \in Globals /\ UiTypeOK /\ RefreshTypeOK
      /\ response \in [kind: Kinds, why: Reasons]
      /\ g.generation \in Nat
  BY TypeParts DEF Inv, SessionTypeOK, TypeOK, Globals
<1>2. CASE GetSerialization(c)
  <2>1. UiTypeOK'
    BY <1>1, <1>2 DEF GetSerialization, UiTypeOK
  <2>2. QED
    BY <1>1, <1>2, <2>1, OutsiderUiStep, UnchangedTypes
    DEF GetSerialization, refreshVars
<1>3. CASE SetSelected(c)
  <2>1. UiTypeOK'
    BY <1>1, <1>3 DEF SetSelected, UiTypeOK
  <2>2. PICK step \in {"idle", "select_inactive", "select_awaiting",
                       "select_active"} : Goto(c, step)
    BY <1>1, <1>3, IdleStays DEF SetSelected
  <2>3. QED
    BY <1>1, <1>3, <2>1, <2>2, OutsiderUiStep, UnchangedTypes
    DEF SetSelected, refreshVars
<1>4. CASE SetDeselected(c)
  <2>1. UiTypeOK'
    BY <1>1, <1>4 DEF SetDeselected, UiTypeOK
  <2>2. PICK step \in {"idle", "deselect_close"} : Goto(c, step)
    BY <1>1, <1>4, IdleStays DEF SetDeselected
  <2>3. QED
    BY <1>1, <1>4, <2>1, <2>2, OutsiderUiStep, UnchangedTypes
    DEF SetDeselected, refreshVars
<1>5. CASE SetUsageScenarioLogon(c)
  <2>1. UiTypeOK'
    BY <1>1, <1>5 DEF SetUsageScenarioLogon, DropTile, UiTypeOK
  <2>2. PICK step \in {"idle", "logon_close"} : Goto(c, step)
    BY <1>1, <1>5, IdleStays DEF SetUsageScenarioLogon
  <2>3. QED
    BY <1>1, <1>5, <2>1, <2>2, OutsiderUiStep, UnchangedTypes
    DEF SetUsageScenarioLogon, refreshVars
<1>6. CASE SetUsageScenarioOther(c)
  <2>1. UiTypeOK'
    BY <1>1, <1>6 DEF SetUsageScenarioOther, DropTile, UiTypeOK
  <2>2. g' \in Globals /\ (g'.active => g.active) /\ g'.generation >= g.generation
    <3>1. /\ g' \in Globals /\ g'.active = g.active
          /\ g'.generation = g.generation
      BY <1>1, <1>6, FlagFacts DEF SetUsageScenarioOther
    <3>2. QED
      BY <1>1, <3>1
  <2>3. RefreshTypeOK' /\ refresh' = refresh
    BY <1>1, <1>6, UnchangedTypes DEF SetUsageScenarioOther, refreshVars
  <2>4. /\ pc[c] \in OpenSteps /\ Goto(c, "other_close")
        /\ UNCHANGED <<sessionVars, brokerVars, lock, locals, response>>
    BY <1>6 DEF SetUsageScenarioOther
  <2>5. QED
    BY <1>1, <2>1, <2>2, <2>3, <2>4, OutsiderStep
<1>7. CASE EnumerateTiles(c)
  <2>1. UiTypeOK' /\ RefreshTypeOK'
    BY <1>1, <1>7 DEF EnumerateTiles, UiTypeOK, RefreshTypeOK
  <2>2. QED
    BY <1>1, <1>7, <2>1, OutsiderUiStep, IdleStays DEF EnumerateTiles
<1>8. CASE Advise(c)
  <2>1. UiTypeOK' /\ RefreshTypeOK'
    BY <1>1, <1>8, UnchangedTypes DEF Advise, RS!SetProviderEvents, RefreshTypeOK
  <2>2. QED
    BY <1>1, <1>8, <2>1, OutsiderUiStep, IdleStays DEF Advise
<1>9. CASE UnAdvise(c)
  <2>1. UiTypeOK' /\ RefreshTypeOK'
    BY <1>1, <1>9, UnchangedTypes
    DEF UnAdvise, RS!ClearProviderEvents, RefreshTypeOK
  <2>2. QED
    BY <1>1, <1>9, <2>1, OutsiderUiStep, IdleStays DEF UnAdvise
<1>10. CASE ReportResult(c)
  <2>1. response' \in [kind: Kinds, why: Reasons]
    BY <1>10 DEF ReportResult, NoAnswer, Kinds, Reasons
  <2>2. QED
    BY <1>1, <1>10, <2>1, OutsiderUiStep, UnchangedTypes, IdleStays
    DEF ReportResult, refreshVars
<1>11. QED
  BY <1>2, <1>3, <1>4, <1>5, <1>6, <1>7, <1>8, <1>9, <1>10 DEF CallStep

LEMMA DecideStep ==
  ASSUME Inv, NEW c \in Callers, DecideAutoSubmit(c)
  PROVE  Inv'
<1>1. /\ TypeOK /\ g \in Globals /\ UiTypeOK /\ RefreshTypeOK
      /\ response \in [kind: Kinds, why: Reasons]
      /\ g.generation \in Nat
  BY TypeParts DEF Inv, SessionTypeOK, TypeOK, Globals
<1>2. /\ pc[c] \in OpenSteps /\ Goto(c, "idle")
      /\ UNCHANGED <<sessionVars, brokerVars, lock, locals, cpus, tile, selected,
                     response, refreshVars>>
  BY DEF DecideAutoSubmit, OpenSteps
<1>3. /\ g' \in Globals /\ g'.active = g.active /\ g'.generation = g.generation
      /\ submit' \in BOOLEAN
  <2>1. CASE submit' = TRUE /\ UNCHANGED g
    BY <1>1, <2>1
  <2>2. CASE /\ submit' = TRUE
             /\ g' = MarkAutoSubmitTickNow(ConsumeForceNextAutoSubmit(g))
    BY <1>1, <2>2, FlagFacts
  <2>3. CASE \E elapsed \in BOOLEAN :
                /\ submit' = GrantsWindow(g, elapsed)
                /\ g' = TryAcquireAutoSubmitWindow(g, elapsed)
    BY <1>1, <2>3, FlagFacts
  <2>4. QED
    BY <2>1, <2>2, <2>3 DEF DecideAutoSubmit
<1>4. UiTypeOK'
  BY <1>1, <1>2, <1>3 DEF UiTypeOK
<1>5. QED
  BY <1>1, <1>2, <1>3, <1>4, OutsiderStep, UnchangedTypes
  DEF OpenSteps, refreshVars

\* CloseBrokerSessionNow under the lock: whatever was open is put away.
LEMMA CloseSessionStep ==
  ASSUME Inv, NEW c \in Callers, CloseSession(c)
  PROVE  Inv'
<1>1. /\ TypeOK /\ g \in Globals /\ lock = Nobody /\ FreeInv
      /\ CloseBrokerSessionNow
      /\ UNCHANGED <<created, lock, locals, uiVars, response, refreshVars>>
  BY DEF Inv, TypeOK, SessionTypeOK, CloseSession, Control
<1>2. PICK step \in {"deselect_arm", "logon_finish", "other_finish"} :
        pc[c] \in OpenSteps /\ Goto(c, step)
  BY DEF CloseSession, OpenSteps
<1>3. pi = NoHandle /\ slices = 0 /\ pi' = NoHandle /\ slices' = 0
      /\ refresh' = refresh
  BY <1>1 DEF FreeInv, locals, refreshVars
<1>4. session' = NoSession
  BY <1>1 DEF CloseBrokerSessionNow, ResetBrokerSession
<1>5. TypeOK'
  <2>1. SessionTypeOK'
    BY <1>1, CloseSessionType DEF TypeOK
  <2>2. CallTypeOK'
    BY <1>1, <1>2, TypeParts, GotoType DEF CallTypeOK, locals, OpenSteps
  <2>3. QED
    BY <1>1, <2>1, <2>2, TypeParts, TypePartsPrimed, UnchangedTypes
<1>6. Control'
  <2>1. \A d \in Callers : pc'[d] \notin LockedSteps
    BY <1>1, <1>2, ProviderAssumption
    DEF Inv, Control, LockInv, TypeOK, Goto, LockedSteps, OpenSteps
  <2>2. QED
    BY <1>1, <1>3, <1>4, <2>1, ProviderAssumption DEF Control, LockInv, FreeInv
<1>7. Resources' /\ Refresh'
  <2>1. CASE session # NoSession
    BY <1>1, <1>3, <2>1, EndedFacts, ResetFacts DEF CloseBrokerSessionNow
  <2>2. CASE session = NoSession
    <3>1. g' = EndedFlags /\ UNCHANGED <<session, openPipes, openProcs, brokerVars>>
      BY <1>1, <2>2 DEF CloseBrokerSessionNow
    <3>2. Resources'
      BY <1>1, <1>3, <3>1, EndedFacts
      DEF Inv, Resources, HandlesBalanced, NoOrphanBroker, brokerVars
    <3>3. Refresh'
      BY <1>1, <1>3, <3>1, EndedFacts, TypeParts, RefreshOutdated DEF Inv
    <3>4. QED
      BY <3>2, <3>3
  <2>3. QED
    BY <2>1, <2>2
<1>8. QED
  BY <1>5, <1>6, <1>7 DEF Inv

\* Ending the flags a second time, without the lock, outdates one more
\* generation and claims no session.
LEMMA FinishCloseStep ==
  ASSUME Inv, NEW c \in Callers, FinishClose(c)
  PROVE  Inv'
<1>1. /\ TypeOK /\ g \in Globals /\ UiTypeOK /\ RefreshTypeOK
      /\ response \in [kind: Kinds, why: Reasons]
      /\ g.generation \in Nat
  BY TypeParts DEF Inv, SessionTypeOK, TypeOK, Globals
<1>2. /\ pc[c] \in OpenSteps /\ Goto(c, "idle")
      /\ UNCHANGED <<sessionVars, brokerVars, lock, locals, uiVars, response,
                     refreshVars>>
  BY DEF FinishClose, OpenSteps
<1>3. g' \in Globals /\ (g'.active => g.active) /\ g'.generation >= g.generation
  <2>1. CASE g' = ArmForceNextAutoSubmit(g)
    <3>1. /\ g' \in Globals /\ g'.active = g.active
          /\ g'.generation = g.generation
      BY <1>1, <2>1, FlagFacts
    <3>2. QED
      BY <1>1, <3>1
  <2>2. CASE g' = SetBrokerAwaitingFinal(
                    SetBrokerSessionActive(ResetForceNextAutoSubmit(g), FALSE), FALSE)
    <3> DEFINE reset == ResetForceNextAutoSubmit(g)
    <3>1. reset \in Globals /\ reset.generation = g.generation
      BY <1>1, FlagFacts
    <3>2. /\ SetBrokerSessionActive(reset, FALSE) \in Globals
          /\ ~SetBrokerSessionActive(reset, FALSE).active
          /\ SetBrokerSessionActive(reset, FALSE).generation = g.generation + 1
      BY <3>1, ActiveFacts
    <3>3. g' \in Globals /\ ~g'.active /\ g'.generation = g.generation + 1
      BY <2>2, <3>2, FlagFacts
    <3>4. QED
      BY <1>1, <3>3
  <2>3. CASE g' = EndedFlags
    BY <1>1, <2>3, EndedFacts
  <2>4. QED
    BY <2>1, <2>2, <2>3 DEF FinishClose
<1>4. QED
  BY <1>1, <1>2, <1>3, OutsiderStep, UnchangedTypes DEF OpenSteps, refreshVars

LEMMA MethodStepInv ==
  ASSUME Inv, NEW c \in Callers, MethodStep(c)
  PROVE  Inv'
  BY LockSessionStep, GetSerializationStepInv, DecideStep, CloseSessionStep,
     FinishCloseStep DEF MethodStep

-----------------------------------------------------------------------------
(***************************************************************************)
(* The timer callback and the broker.                                      *)
(***************************************************************************)

LEMMA RefreshStepInv ==
  ASSUME Inv, RefreshStep
  PROVE  Inv'
<1>1. /\ TypeOK /\ RefreshTypeOK /\ TimerInv /\ GenerationNamesSession
      /\ RS!Callback
      /\ UNCHANGED <<g, sessionVars, brokerVars, lock, pc, locals, uiVars,
                     response, advised>>
  BY TypeParts DEF Inv, Refresh, RefreshStep
<1>2. /\ refresh' \in [pc: RS!RefreshSteps, gen: Nat, owner: Nat]
      /\ refresh'.gen <= refresh.gen
      /\ refresh'.pc # "armed"
      /\ refreshPending' \in BOOLEAN /\ notified' \in BOOLEAN
  <2>1. CASE RS!TimerFires
    <3>1. PICK step \in {"notify", "clear"} :
            refresh' = [refresh EXCEPT !.pc = step]
      BY <2>1 DEF RS!TimerFires
    <3>2. QED
      BY <1>1, <2>1, <3>1 DEF RS!TimerFires, RefreshTypeOK, RS!RefreshSteps
  <2>2. CASE RS!CredentialsChanged
    BY <1>1, <2>2 DEF RS!CredentialsChanged, RefreshTypeOK, RS!RefreshSteps
  <2>3. CASE RS!CallbackReturns
    <3>1. refresh' = [pc |-> "free", gen |-> 0, owner |-> 0]
      BY <2>3 DEF RS!CallbackReturns, RS!NoRefresh
    <3>2. refresh' \in [pc: RS!RefreshSteps, gen: Nat, owner: Nat]
          /\ refresh'.gen = 0 /\ refresh'.pc # "armed"
      BY <3>1 DEF RS!RefreshSteps
    <3>3. refresh.gen \in Nat
      BY <1>1 DEF RefreshTypeOK
    <3>4. refresh'.gen <= refresh.gen
      BY <3>2, <3>3
    <3>5. refreshPending' \in BOOLEAN /\ notified' \in BOOLEAN
      BY <1>1, <2>3 DEF RS!CallbackReturns, RefreshTypeOK
    <3>6. QED
      BY <3>2, <3>4, <3>5
  <2>4. QED
    BY <1>1, <2>1, <2>2, <2>3 DEF RS!Callback
<1>3. TypeOK'
  <2>1. RefreshTypeOK'
    BY <1>1, <1>2 DEF RefreshTypeOK
  <2>2. CallTypeOK'
    BY <1>1, TypeParts DEF CallTypeOK, locals
  <2>3. QED
    BY <1>1, <2>1, <2>2, TypeParts, TypePartsPrimed, UnchangedTypes
<1>4. Control'
  BY <1>1, ControlStays DEF Inv, sessionVars, locals
<1>5. Resources'
  BY <1>1 DEF Inv, Resources, HandlesBalanced, NoOrphanBroker, sessionVars,
              brokerVars, locals
<1>6. Refresh'
  <2>1. refresh.gen \in Nat /\ refresh'.gen \in Nat /\ g.generation \in Nat
    BY <1>1, <1>2 DEF RefreshTypeOK, TypeOK, SessionTypeOK, Globals
  <2>2. QED
    BY <1>1, <1>2, <2>1 DEF Refresh, TimerInv, GenerationNamesSession
<1>7. QED
  BY <1>3, <1>4, <1>5, <1>6 DEF Inv

LEMMA BrokerStepInv ==
  ASSUME Inv, NEW b \in Launches, BrokerStep(b)
  PROVE  Inv'
<1>1. /\ TypeOK /\ Broker(b)
      /\ UNCHANGED <<g, sessionVars, lock, pc, locals, uiVars, response,
                     refreshVars>>
  BY DEF Inv, BrokerStep, Broker
<1>2. /\ broker' \in [Launches -> {"unborn", "running", "exited"}]
      /\ client' \in [Launches -> {"none", "open", "closed"}]
      /\ queue' \in [Launches -> Seq(BrokerMessages)]
      /\ \A x \in Launches : broker'[x] = "running" => broker[x] = "running"
  <2>1. SessionTypeOK
    BY <1>1 DEF TypeOK
  <2>2. CASE BrokerConnects(b) \/ BrokerDisconnects(b)
    BY <2>1, <2>2 DEF BrokerConnects, BrokerDisconnects, SessionTypeOK
  <2>3. CASE BrokerExits(b)
    BY <2>1, <2>3, EndsType DEF BrokerExits, Ends, SessionTypeOK
  <2>4. CASE \E m \in BrokerMessages : BrokerSends(b, m)
    <3>1. PICK m \in BrokerMessages : BrokerSends(b, m)
      BY <2>4
    <3>2. queue[b] \in Seq(BrokerMessages)
      BY <2>1, Zenon DEF SessionTypeOK
    <3>3. Append(queue[b], m) \in Seq(BrokerMessages)
      BY <3>2
    <3>4. queue' = [queue EXCEPT ![b] = Append(queue[b], m)]
      BY <3>1 DEF BrokerSends
    <3>5. queue' \in [Launches -> Seq(BrokerMessages)]
      BY <2>1, <3>3, <3>4, UpdateType, Zenon DEF SessionTypeOK
    <3>6. QED
      BY <2>1, <3>1, <3>5 DEF BrokerSends, SessionTypeOK
  <2>5. QED
    BY <1>1, <2>2, <2>3, <2>4 DEF Broker
<1>3. TypeOK'
  <2>1. SessionTypeOK'
    BY <1>1, <1>2 DEF TypeOK, SessionTypeOK, sessionVars
  <2>2. CallTypeOK'
    BY <1>1, TypeParts DEF CallTypeOK, locals
  <2>3. QED
    BY <1>1, <2>1, <2>2, TypeParts, TypePartsPrimed, UnchangedTypes
<1>4. Control'
  BY <1>1, ControlStays DEF Inv, sessionVars, locals
<1>5. Resources'
  BY <1>1, <1>2 DEF Inv, Resources, HandlesBalanced, NoOrphanBroker, sessionVars,
                    locals
<1>6. Refresh'
  BY <1>1 DEF Inv, Refresh, TimerInv, GenerationNamesSession, sessionVars,
              refreshVars
<1>7. QED
  BY <1>3, <1>4, <1>5, <1>6 DEF Inv

-----------------------------------------------------------------------------
(***************************************************************************)
(* The theorems.                                                           *)
(***************************************************************************)

LEMMA InitInv == Init => Inv
<1> SUFFICES ASSUME Init PROVE Inv
  OBVIOUS
<1> USE SessionAssumption, ProviderAssumption
<1>1. TypeOK
  <2>1. g \in Globals
    BY DEF Init, SessionInit, InitialGlobals, Globals
  <2>2. queue \in [Launches -> Seq(BrokerMessages)]
    <3>1. <<>> \in Seq(BrokerMessages)
      OBVIOUS
    <3>2. QED
      BY <3>1, Zenon DEF Init, SessionInit
  <2>3. SessionTypeOK
    BY <2>1, <2>2, NoSessionType DEF Init, SessionInit, SessionTypeOK, Handles
  <2>4. CallTypeOK
    BY DEF Init, CallTypeOK, OpenSteps, Handles, NoHandle, Reasons, NoAnswer, Kinds
  <2>5. UiTypeOK
    BY DEF Init, UiTypeOK
  <2>6. RefreshTypeOK
    BY DEF Init, RS!Init, RS!NoRefresh, RefreshTypeOK, RS!RefreshSteps
  <2>7. QED
    BY <2>3, <2>4, <2>5, <2>6, TypeParts
<1>2. Control
  BY DEF Init, SessionInit, Control, LockInv, FreeInv, LockedSteps
<1>3. Resources
  BY DEF Init, SessionInit, InitialGlobals, Resources, HandlesBalanced,
         NoOrphanBroker, NoSession
<1>4. Refresh
  BY DEF Init, SessionInit, InitialGlobals, RS!Init, RS!NoRefresh, Refresh,
         TimerInv, GenerationNamesSession
<1>5. QED
  BY <1>1, <1>2, <1>3, <1>4 DEF Inv

LEMMA StutterInv ==
  ASSUME Inv, UNCHANGED vars
  PROVE  Inv'
<1>1. UNCHANGED <<g, sessionVars, brokerVars, lock, pc, locals, uiVars, response,
                  refreshVars>>
  BY DEF vars
<1>2. TypeOK
  BY DEF Inv
<1>3. TypeOK'
  <2>1. CallTypeOK'
    BY <1>1, <1>2, TypeParts DEF CallTypeOK, locals
  <2>2. QED
    BY <1>1, <1>2, <2>1, TypeParts, TypePartsPrimed, UnchangedTypes
<1>4. Control'
  BY <1>1, ControlStays DEF Inv, sessionVars, locals
<1>5. Resources' /\ Refresh'
  BY <1>1 DEF Inv, Resources, HandlesBalanced, NoOrphanBroker, sessionVars,
              brokerVars, locals, Refresh, TimerInv, GenerationNamesSession,
              refreshVars
<1>6. QED
  BY <1>3, <1>4, <1>5 DEF Inv

LEMMA NextInv == Inv /\ [Next]_vars => Inv'
<1> SUFFICES ASSUME Inv, [Next]_vars PROVE Inv'
  OBVIOUS
<1>1. CASE \E c \in Callers : CallStep(c) \/ MethodStep(c)
  BY <1>1, CallStepInv, MethodStepInv
<1>2. CASE RefreshStep
  BY <1>2, RefreshStepInv
<1>3. CASE \E b \in Launches : BrokerStep(b)
  BY <1>3, BrokerStepInv
<1>4. CASE UNCHANGED vars
  BY <1>4, StutterInv
<1>5. QED
  BY <1>1, <1>2, <1>3, <1>4 DEF Next

\* The invariant behind the theorems below holds in every reachable state.
THEOREM Invariance == Spec => []Inv
  BY InitInv, NextInv, PTL DEF Spec

\* TypeOK: flags, handles, messages and locals stay what they are declared as;
\* in particular the provider handles only messages read from a pipe it has
\* open, and never more read slices than fill the overall time.
THEOREM TypeCorrect == Spec => []TypeOK
<1>1. Inv => TypeOK
  BY DEF Inv
<1>2. QED
  BY <1>1, Invariance, PTL

\* SessionCoherent: whoever takes the session lock finds a session that is all
\* there or none, and g_brokerSessionActive never outlives the connection.
THEOREM SessionIsCoherent == Spec => []SessionCoherent
<1>1. Inv => SessionCoherent
  <2> SUFFICES ASSUME Inv PROVE SessionCoherent
    OBVIOUS
  <2>1. lock = Nobody => /\ session.hPipe = session.hProcess
                         /\ session.connected <=> session.hPipe # NoHandle
    BY OpenFacts DEF Inv, Control, FreeInv, Open, NoSession
  <2>2. QED
    BY <2>1 DEF Inv, Resources, SessionCoherent
<1>2. QED
  BY <1>1, Invariance, PTL

\* HandlesBalanced: no path of GetSerialization or of a close leaks a pipe or
\* process handle or closes one twice.
THEOREM HandlesAreBalanced == Spec => []HandlesBalanced
<1>1. Inv => HandlesBalanced
  BY DEF Inv, Resources
<1>2. QED
  BY <1>1, Invariance, PTL

\* NoOrphanBroker: at most one broker runs, and the provider can name it,
\* unless Windows refuses to end a process.
THEOREM BrokersAreOwned == Spec => []NoOrphanBroker
<1>1. Inv => NoOrphanBroker
  BY DEF Inv, Resources
<1>2. QED
  BY <1>1, Invariance, PTL

\* GenerationNamesSession: a timer whose generation is current belongs to the
\* broker of the open session, on however many threads sessions are closed.
THEOREM TimersNameTheirSession == Spec => []GenerationNamesSession
<1>1. Inv => GenerationNamesSession
  BY DEF Inv, Refresh
<1>2. QED
  BY <1>1, Invariance, PTL

-----------------------------------------------------------------------------
(***************************************************************************)
(* The proof that GetSerialization's answer decides what becomes of the    *)
(* session, on any number of threads.                                      *)
(*                                                                         *)
(* Beyond Inv it needs to know what a GetSerialization that puts its       *)
(* broker away can still answer: the local that names its reason is set    *)
(* several steps before the return.                                        *)
(***************************************************************************)

\* The answers that keep the session.
Keeping == {"poll", "AUTH_PENDING", "AUTH_IDLE"}

\* A message is being handled, or a reason to end the session is.
ReasonInv ==
  \A c \in Callers : /\ pc[c] = "handle" => why \in Messages
                     /\ pc[c] = "reap" => why \notin Keeping

\* A thread moves to a step that does not look at the reason, or none moves.
LEMMA ReasonStays ==
  ASSUME TypeOK, ReasonInv, why' = why,
         \/ UNCHANGED pc
         \/ \E c \in Callers, step \in (LockedSteps \cup OpenSteps) \ {"handle", "reap"} :
              Goto(c, step)
  PROVE  ReasonInv'
  BY DEF TypeOK, ReasonInv, Goto

\* The holder of the lock moves with a reason that fits its next step; no
\* other thread looks at the reason.
LEMMA ReasonOfHolder ==
  ASSUME Inv, NEW c \in Callers, pc[c] \in LockedSteps,
         NEW step \in LockedSteps \cup OpenSteps, Goto(c, step),
         step = "handle" => why' \in Messages,
         step = "reap" => why' \notin Keeping
  PROVE  ReasonInv'
<1>1. \A d \in Callers \ {c} : pc'[d] = pc[d] /\ pc[d] \notin LockedSteps
  BY DEF Inv, TypeOK, Control, LockInv, Goto
<1>2. pc'[c] = step
  BY DEF Inv, TypeOK, Goto
<1>3. \A d \in Callers \ {c} : pc'[d] \notin {"handle", "reap"}
  BY <1>1 DEF LockedSteps
<1>4. QED
  BY <1>2, <1>3 DEF ReasonInv

\* A return goes to idle, where no reason is looked at.
LEMMA ReasonOnReturn ==
  ASSUME Inv, NEW c \in Callers, pc[c] \in LockedSteps,
         NEW kind, NEW reason, Return(c, kind, reason)
  PROVE  ReasonInv'
<1>1. Goto(c, "idle") /\ "idle" \in LockedSteps \cup OpenSteps
  BY DEF Return, OpenSteps
<1>2. QED
  BY <1>1, ReasonOfHolder

\* What TakeMessage takes out of the pipe is a message.
LEMMA ReasonOnTake ==
  ASSUME Inv, NEW c \in Callers, pc[c] \in {"read", "wait"}, TakeMessage(c)
  PROVE  ReasonInv'
<1>1. SessionTypeOK /\ session.hPipe \in Launches /\ Unread
      /\ why' = Head(queue[session.hPipe]) /\ Goto(c, "handle")
  BY DEF Inv, TypeOK, Control, StepInv, LockedSteps, Open, TakeMessage
<1>2. why' \in Messages
  <2>1. why' \in BrokerMessages
    BY <1>1, HeadTailType, Zenon
  <2>2. QED
    BY <2>1, SessionAssumption
<1>3. QED
  BY <1>1, <1>2, ReasonOfHolder DEF LockedSteps

\* The steps of GetSerialization.
LEMMA ReasonOnStep ==
  ASSUME Inv, ReasonInv, NEW c \in Callers, GetSerializationStep(c)
  PROVE  ReasonInv'
<1> USE DEF LockedSteps, OpenSteps
<1>1. CASE CreateRestrictedPipeServer(c)
  <2>1. pc[c] = "create" /\ (Goto(c, "launch") \/ Return(c, "not_finished", "pipe"))
    BY <1>1 DEF CreateRestrictedPipeServer
  <2>2. QED
    BY <2>1, ReasonOfHolder, ReasonOnReturn
<1>2. CASE LaunchBroker(c)
  <2>1. pc[c] = "launch" /\ (Goto(c, "connect") \/ Return(c, "not_finished", "launch"))
    BY <1>2 DEF LaunchBroker
  <2>2. QED
    BY <2>1, ReasonOfHolder, ReasonOnReturn
<1>3. CASE ConnectSucceeds(c)
  <2>1. pc[c] = "connect" /\ Goto(c, "read")
    BY <1>3 DEF ConnectSucceeds
  <2>2. QED
    BY <2>1, ReasonOfHolder
<1>4. CASE ConnectFails(c)
  <2>1. pc[c] = "connect" /\ Goto(c, "reap") /\ why' \in ConnectFailures(session.hPipe)
    BY <1>4 DEF ConnectFails
  <2>2. why' \notin Keeping
    BY <2>1 DEF ConnectFailures, Keeping
  <2>3. QED
    BY <2>1, <2>2, ReasonOfHolder
<1>5. CASE ReadPipe(c) \/ WaitRead(c)
  <2>1. /\ pc[c] \in {"read", "wait"}
        /\ \/ TakeMessage(c) \/ Goto(c, "recover") \/ Goto(c, "wait")
           \/ Goto(c, "cancel")
    BY <1>5 DEF ReadPipe, WaitRead, LoseBroker
  <2>2. QED
    BY <2>1, ReasonOnTake, ReasonOfHolder
<1>6. CASE CancelRead(c)
  <2>1. pc[c] = "cancel" /\ Goto(c, "check")
    BY <1>6 DEF CancelRead
  <2>2. QED
    BY <2>1, ReasonOfHolder
<1>7. CASE CheckElapsed(c) \/ CheckExited(c)
  <2>1. /\ pc[c] = "check"
        /\ Goto(c, "read") \/ Goto(c, "poll") \/ Goto(c, "recover")
    BY <1>7 DEF CheckElapsed, CheckExited, LoseBroker
  <2>2. QED
    BY <2>1, ReasonOfHolder
<1>8. CASE PollAgain(c) \/ RecoverBroker(c)
  <2>1. /\ pc[c] \in {"poll", "recover"}
        /\ Return(c, "not_finished", "poll") \/ Return(c, "not_finished", "recover")
    BY <1>8 DEF PollAgain, RecoverBroker
  <2>2. QED
    BY <2>1, ReasonOnReturn
<1>9. CASE HandleParseFailure(c) \/ HandleProgress(c)
  <2>1. pc[c] = "handle" /\ Return(c, "not_finished", why)
    BY <1>9 DEF HandleParseFailure, HandleProgress
  <2>2. QED
    BY <2>1, ReasonOnReturn
<1>10. CASE HandleTerminal(c)
  <2>1. /\ pc[c] = "handle" /\ Goto(c, "reap") /\ why' = why
        /\ why \notin {"GARBAGE", "AUTH_PENDING", "AUTH_IDLE"}
    BY <1>10 DEF HandleTerminal
  <2>2. why' \notin Keeping
    BY <2>1 DEF ReasonInv, Messages, Keeping
  <2>3. QED
    BY <2>1, <2>2, ReasonOfHolder
<1>11. CASE ReapAndAnswer(c)
  <2>1. pc[c] = "reap" /\ \E kind \in Answers(why) : Return(c, kind, why)
    BY <1>11 DEF ReapAndAnswer
  <2>2. PICK kind \in Answers(why) : Return(c, kind, why)
    BY <2>1
  <2>3. QED
    BY <2>1, <2>2, ReasonOnReturn
<1>12. QED
  BY <1>1, <1>2, <1>3, <1>4, <1>5, <1>6, <1>7, <1>8, <1>9, <1>10, <1>11
  DEF GetSerializationStep

\* Every other step leaves the reason alone.
LEMMA ReasonNext == Inv /\ ReasonInv /\ [Next]_vars => ReasonInv'
<1> SUFFICES ASSUME Inv, ReasonInv, [Next]_vars PROVE ReasonInv'
  OBVIOUS
<1>0. TypeOK
  BY DEF Inv
<1> USE DEF LockedSteps, OpenSteps
<1>1. ASSUME NEW c \in Callers, CallStep(c) PROVE ReasonInv'
  <2>1. /\ why' = why
        /\ \/ UNCHANGED pc
           \/ \E step \in (LockedSteps \cup OpenSteps) \ {"handle", "reap"} : Goto(c, step)
    BY <1>1 DEF CallStep, GetSerialization, SetSelected, SetDeselected,
                SetUsageScenarioLogon, SetUsageScenarioOther, EnumerateTiles,
                Advise, UnAdvise, ReportResult, locals
  <2>2. QED
    BY <1>0, <2>1, ReasonStays
<1>2. ASSUME NEW c \in Callers, MethodStep(c) PROVE ReasonInv'
  <2>1. CASE GetSerializationStep(c)
    BY <2>1, ReasonOnStep
  <2>2. CASE LockSession(c) \/ DecideAutoSubmit(c) \/ CloseSession(c) \/ FinishClose(c)
    <3>1. /\ why' = why
          /\ \E step \in (LockedSteps \cup OpenSteps) \ {"handle", "reap"} : Goto(c, step)
      BY <2>2 DEF LockSession, DecideAutoSubmit, CloseSession, FinishClose, locals
    <3>2. QED
      BY <1>0, <3>1, ReasonStays
  <2>3. QED
    BY <1>2, <2>1, <2>2 DEF MethodStep
<1>3. CASE RefreshStep \/ (\E b \in Launches : BrokerStep(b)) \/ UNCHANGED vars
  <2>1. UNCHANGED <<why, pc>>
    BY <1>3 DEF RefreshStep, BrokerStep, vars, locals
  <2>2. QED
    BY <1>0, <2>1, ReasonStays
<1>4. QED
  BY <1>1, <1>2, <1>3 DEF Next

-----------------------------------------------------------------------------
\* The body of AnswerDecidesSession.
Decides ==
  lock # Nobody /\ lock' = Nobody =>
    IF response'.why \in {"poll", "AUTH_PENDING", "AUTH_IDLE"}
    THEN session'.connected /\ session' = session
    ELSE session' = NoSession

\* A return with a reason that keeps the session, and the session kept.
LEMMA ReturnKeeps ==
  ASSUME NEW c, NEW kind, NEW reason \in Keeping, Return(c, kind, reason),
         Open, session' = session
  PROVE  Decides
  BY DEF Return, Decides, Keeping, Open

\* A return with any other reason, and no session.
LEMMA ReturnEnds ==
  ASSUME NEW c, NEW kind, NEW reason, reason \notin Keeping,
         Return(c, kind, reason), session' = NoSession
  PROVE  Decides
  BY DEF Return, Decides, Keeping

\* The eight returns of GetSerialization; its other steps keep the lock.
LEMMA StepDecides ==
  ASSUME Inv, ReasonInv, NEW c \in Callers, GetSerializationStep(c)
  PROVE  Decides
<1> USE DEF LockedSteps, OpenSteps
<1>0. StepInv(pc[c]) \/ pc[c] \notin LockedSteps
  BY DEF Inv, Control
<1>1. CASE lock' = lock
  BY <1>1 DEF Decides
<1>2. CASE CreateRestrictedPipeServer(c) /\ lock' # lock
  <2>1. /\ pc[c] = "create" /\ Return(c, "not_finished", "pipe")
        /\ session' = [session EXCEPT !.hPipe = NoHandle]
    BY <1>2 DEF CreateRestrictedPipeServer
  <2>2. session = NoSession
    BY <1>0, <2>1 DEF StepInv
  <2>3. session' = NoSession
    BY <2>1, <2>2 DEF NoSession
  <2>4. QED
    BY <2>1, <2>3, ReturnEnds DEF Keeping
<1>3. CASE LaunchBroker(c) /\ lock' # lock
  <2>1. Return(c, "not_finished", "launch") /\ session' = NoSession
    BY <1>3 DEF LaunchBroker, ResetBrokerSession
  <2>2. QED
    BY <2>1, ReturnEnds DEF Keeping
<1>4. CASE PollAgain(c)
  <2>1. /\ pc[c] = "poll" /\ Return(c, "not_finished", "poll") /\ session' = session
    BY <1>4 DEF PollAgain, sessionVars
  <2>2. Open
    BY <1>0, <2>1 DEF StepInv
  <2>3. QED
    BY <2>1, <2>2, ReturnKeeps DEF Keeping
<1>5. CASE RecoverBroker(c)
  <2>1. pc[c] = "recover" /\ Return(c, "not_finished", "recover") /\ session' = session
    BY <1>5 DEF RecoverBroker
  <2>2. session' = NoSession
    BY <1>0, <2>1 DEF StepInv
  <2>3. QED
    BY <2>1, <2>2, ReturnEnds DEF Keeping
<1>6. CASE HandleParseFailure(c)
  <2>1. why = "GARBAGE" /\ Return(c, "not_finished", why) /\ session' = NoSession
    BY <1>6 DEF HandleParseFailure, ResetBrokerSession
  <2>2. QED
    BY <2>1, ReturnEnds DEF Keeping
<1>7. CASE HandleProgress(c)
  <2>1. /\ pc[c] = "handle" /\ why \in Keeping
        /\ Return(c, "not_finished", why) /\ session' = session
    BY <1>7 DEF HandleProgress, Keeping
  <2>2. Open
    BY <1>0, <2>1 DEF StepInv
  <2>3. QED
    BY <2>1, <2>2, ReturnKeeps
<1>8. CASE ReapAndAnswer(c)
  <2>1. /\ pc[c] = "reap" /\ session' = session
        /\ \E kind \in Answers(why) : Return(c, kind, why)
    BY <1>8 DEF ReapAndAnswer
  <2>2. why \notin Keeping /\ session' = NoSession
    BY <1>0, <2>1 DEF StepInv, ReasonInv
  <2>3. PICK kind \in Answers(why) : Return(c, kind, why)
    BY <2>1
  <2>4. QED
    BY <2>2, <2>3, ReturnEnds
<1>9. CASE \/ ConnectSucceeds(c) \/ ConnectFails(c) \/ ReadPipe(c) \/ WaitRead(c)
           \/ CancelRead(c) \/ CheckElapsed(c) \/ CheckExited(c) \/ HandleTerminal(c)
  <2>1. lock' = lock
    BY <1>9 DEF ConnectSucceeds, ConnectFails, ReadPipe, WaitRead, CancelRead,
                CheckElapsed, CheckExited, HandleTerminal
  <2>2. QED
    BY <1>1, <2>1
<1>10. QED
  BY <1>1, <1>2, <1>3, <1>4, <1>5, <1>6, <1>7, <1>8, <1>9 DEF GetSerializationStep

\* No other step releases the lock.
LEMMA NextDecides == Inv /\ ReasonInv /\ [Next]_vars => [Decides]_vars
<1> SUFFICES ASSUME Inv, ReasonInv, Next PROVE Decides
  OBVIOUS
<1>1. CASE \E c \in Callers : GetSerializationStep(c)
  BY <1>1, StepDecides
<1>2. CASE \E c \in Callers : LockSession(c)
  BY <1>2 DEF LockSession, Decides
<1>3. CASE \/ \E c \in Callers : \/ CallStep(c) \/ DecideAutoSubmit(c)
                                  \/ CloseSession(c) \/ FinishClose(c)
           \/ RefreshStep
           \/ \E b \in Launches : BrokerStep(b)
  <2>1. lock' = lock
    BY <1>3 DEF CallStep, GetSerialization, SetSelected, SetDeselected,
                SetUsageScenarioLogon, SetUsageScenarioOther, EnumerateTiles,
                Advise, UnAdvise, ReportResult, DecideAutoSubmit, CloseSession,
                FinishClose, RefreshStep, BrokerStep
  <2>2. QED
    BY <2>1 DEF Decides
<1>4. QED
  BY <1>1, <1>2, <1>3 DEF Next, MethodStep

LEMMA InitReason == Init => ReasonInv
  BY DEF Init, ReasonInv

\* AnswerDecidesSession: whatever GetSerialization answers, on any number of
\* threads and with any call failing, the session is kept exactly by the three
\* answers that ask LogonUI to come back for it, and gone after every other.
THEOREM AnswersDecide == Spec => AnswerDecidesSession
<1>1. Spec => [](Inv /\ ReasonInv)
  BY InitInv, NextInv, InitReason, ReasonNext, PTL DEF Spec
<1>2. Spec => [][Decides]_vars
  BY <1>1, NextDecides, PTL DEF Spec
<1>3. QED
  BY <1>2, PTL DEF AnswerDecidesSession, Decides

-----------------------------------------------------------------------------
(***************************************************************************)
(* The proof that every method is bounded, on any number of threads.       *)
(*                                                                         *)
(* A thread that moves has a slice to spare where Inv says so, and the     *)
(* count of the slices belongs to the holder of the lock: what the steps   *)
(* of the others have left does not depend on it.                          *)
(***************************************************************************)

\* StepsLeft, of a step and a count of slices.
Left(step, used) ==
  LET reads == 4 * (MaxSlices - used)
  IN  IF step = "idle" THEN 0
      ELSE IF step = "acquire" THEN 4 * MaxSlices + 8
      ELSE IF step = "create"  THEN 4 * MaxSlices + 7
      ELSE IF step = "launch"  THEN 4 * MaxSlices + 6
      ELSE IF step = "connect" THEN 4 * MaxSlices + 5
      ELSE IF step = "check"   THEN reads + 5
      ELSE IF step = "read"    THEN reads + 4
      ELSE IF step = "wait"    THEN reads + 3
      ELSE IF step = "cancel"  THEN reads + 2
      ELSE IF step \in {"handle", "deselect_close", "logon_close", "other_close"}
        THEN 2
      ELSE 1

\* The body of MethodsShorten.
Shortens ==
  \A c \in Callers : pc[c] # "idle" =>
    IF pc'[c] = pc[c] THEN StepsLeft(c)' = StepsLeft(c)
                      ELSE StepsLeft(c)' \in 0 .. StepsLeft(c) - 1

\* Fewer steps are left at the next step.
Nearer(from, used, to, usedThen) ==
  from # "idle" => /\ to # from
                   /\ Left(to, usedThen) \in 0 .. Left(from, used) - 1

LEMMA LeftFacts ==
  ASSUME NEW c
  PROVE  /\ StepsLeft(c) = Left(pc[c], slices)
         /\ StepsLeft(c)' = Left(pc'[c], slices')
  BY DEF StepsLeft, Left

\* Outside the lock the slices do not count.
LEMMA LeftOutside ==
  ASSUME NEW step, step \notin LockedSteps, NEW used, NEW usedThen
  PROVE  Left(step, used) = Left(step, usedThen)
  BY DEF LockedSteps, Left

\* The holder of the lock moves.
LEMMA HolderShortens ==
  ASSUME Inv, NEW c \in Callers, pc[c] \in LockedSteps, NEW step, Goto(c, step),
         Nearer(pc[c], slices, step, slices')
  PROVE  Shortens
<1>1. pc'[c] = step /\ pc[c] # "idle"
  BY DEF Inv, TypeOK, Goto, LockedSteps
<1>2. step # pc[c] /\ Left(step, slices') \in 0 .. Left(pc[c], slices) - 1
  BY <1>1 DEF Nearer
<1>3. ASSUME NEW d \in Callers \ {c}
      PROVE  pc'[d] = pc[d] /\ StepsLeft(d)' = StepsLeft(d)
  <2>1. pc'[d] = pc[d] /\ pc[d] \notin LockedSteps
    BY DEF Inv, TypeOK, Control, LockInv, Goto
  <2>2. Left(pc[d], slices') = Left(pc[d], slices)
    BY <2>1, LeftOutside
  <2>3. QED
    BY <2>1, <2>2, LeftFacts
<1>4. StepsLeft(c)' \in 0 .. StepsLeft(c) - 1
  <2>1. StepsLeft(c) = Left(pc[c], slices) /\ StepsLeft(c)' = Left(step, slices')
    BY <1>1, LeftFacts
  <2>2. QED
    BY <1>2, <2>1
<1>5. QED
  BY <1>1, <1>2, <1>3, <1>4, Zenon DEF Shortens

\* A thread moves, and the slices stay as they are.
LEMMA OutsiderShortens ==
  ASSUME TypeOK, slices' = slices, NEW c \in Callers, NEW step, Goto(c, step),
         Nearer(pc[c], slices, step, slices)
  PROVE  Shortens
<1>1. pc'[c] = step /\ \A d \in Callers \ {c} : pc'[d] = pc[d]
  BY DEF TypeOK, Goto
<1>2. ASSUME NEW d \in Callers \ {c}
      PROVE  pc'[d] = pc[d] /\ StepsLeft(d)' = StepsLeft(d)
  BY <1>1, LeftFacts
<1>3. ASSUME pc[c] # "idle"
      PROVE  pc'[c] # pc[c] /\ StepsLeft(c)' \in 0 .. StepsLeft(c) - 1
  <2>1. StepsLeft(c) = Left(pc[c], slices) /\ StepsLeft(c)' = Left(step, slices)
    BY <1>1, LeftFacts
  <2>2. step # pc[c] /\ Left(step, slices) \in 0 .. Left(pc[c], slices) - 1
    BY <1>3 DEF Nearer
  <2>3. QED
    BY <1>1, <2>1, <2>2
<1>4. QED
  BY <1>2, <1>3, Zenon DEF Shortens

\* No thread moves.
LEMMA NoneShortens ==
  ASSUME UNCHANGED <<pc, slices>>
  PROVE  Shortens
  BY LeftFacts DEF Shortens

\* The holder returns: nothing is left.
LEMMA ReturnShortens ==
  ASSUME Inv, NEW c \in Callers, pc[c] \in {"create", "launch", "poll", "recover",
                                           "handle", "reap"},
         NEW kind, NEW reason, Return(c, kind, reason)
  PROVE  Shortens
<1>1. pc[c] \in LockedSteps /\ Goto(c, "idle")
  BY DEF LockedSteps, Return
<1>2. Nearer(pc[c], slices, "idle", slices')
  BY ProviderAssumption DEF Nearer, Left
<1>3. QED
  BY <1>1, <1>2, HolderShortens

\* The steps of GetSerialization.
LEMMA StepShortens ==
  ASSUME Inv, NEW c \in Callers, GetSerializationStep(c)
  PROVE  Shortens
<1>0. /\ MaxSlices \in Nat \ {0} /\ slices \in 0 .. MaxSlices
      /\ pc[c] \in LockedSteps => StepInv(pc[c])
  BY ProviderAssumption DEF Inv, TypeOK, Control
<1>a. ASSUME NEW from \in {"create", "launch", "connect", "read", "wait", "cancel"},
             pc[c] = from
      PROVE  pc[c] \in LockedSteps /\ slices < MaxSlices
  BY <1>0, <1>a DEF LockedSteps, StepInv
<1>1. CASE CreateRestrictedPipeServer(c)
  <2>1. /\ pc[c] = "create"
        /\ \/ Goto(c, "launch") \/ Return(c, "not_finished", "pipe")
    BY <1>1 DEF CreateRestrictedPipeServer
  <2>2. Nearer("create", slices, "launch", slices')
    BY <1>0 DEF Nearer, Left
  <2>3. QED
    BY <1>a, <2>1, <2>2, HolderShortens, ReturnShortens
<1>2. CASE LaunchBroker(c)
  <2>1. /\ pc[c] = "launch"
        /\ \/ Goto(c, "connect") \/ Return(c, "not_finished", "launch")
    BY <1>2 DEF LaunchBroker
  <2>2. Nearer("launch", slices, "connect", slices')
    BY <1>0 DEF Nearer, Left
  <2>3. QED
    BY <1>a, <2>1, <2>2, HolderShortens, ReturnShortens
<1>3. CASE ConnectSucceeds(c) \/ ConnectFails(c)
  <2>1. /\ pc[c] = "connect" /\ slices' = slices
        /\ \/ Goto(c, "read") \/ Goto(c, "reap")
    BY <1>3 DEF ConnectSucceeds, ConnectFails, locals
  <2>2. /\ Nearer("connect", slices, "read", slices)
        /\ Nearer("connect", slices, "reap", slices)
    BY <1>0 DEF Nearer, Left
  <2>3. QED
    BY <1>a, <2>1, <2>2, HolderShortens
<1>4. CASE ReadPipe(c)
  <2>1. /\ pc[c] = "read" /\ slices' = slices
        /\ Goto(c, "handle") \/ Goto(c, "recover") \/ Goto(c, "wait")
    BY <1>4 DEF ReadPipe, TakeMessage, LoseBroker
  <2>2. /\ Nearer("read", slices, "handle", slices)
        /\ Nearer("read", slices, "recover", slices)
        /\ Nearer("read", slices, "wait", slices)
    BY <1>0 DEF Nearer, Left
  <2>3. QED
    BY <1>a, <2>1, <2>2, HolderShortens
<1>5. CASE WaitRead(c)
  <2>1. /\ pc[c] = "wait" /\ slices' = slices
        /\ Goto(c, "handle") \/ Goto(c, "recover") \/ Goto(c, "cancel")
    BY <1>5 DEF WaitRead, TakeMessage, LoseBroker
  <2>2. /\ Nearer("wait", slices, "handle", slices)
        /\ Nearer("wait", slices, "recover", slices)
        /\ Nearer("wait", slices, "cancel", slices)
    BY <1>0 DEF Nearer, Left
  <2>3. QED
    BY <1>a, <2>1, <2>2, HolderShortens
<1>6. CASE CancelRead(c)
  <2>1. pc[c] = "cancel" /\ slices' = slices + 1 /\ Goto(c, "check")
    BY <1>6 DEF CancelRead
  <2>2. Nearer("cancel", slices, "check", slices + 1)
    <3>1. slices < MaxSlices
      BY <1>a, <2>1
    <3>2. /\ Left("cancel", slices) = 4 * (MaxSlices - slices) + 2
          /\ Left("check", slices + 1) = 4 * (MaxSlices - (slices + 1)) + 5
      BY DEF Left
    <3>3. Left("check", slices + 1) \in 0 .. Left("cancel", slices) - 1
      BY <1>0, <3>1, <3>2
    <3>4. QED
      BY <3>3 DEF Nearer
  <2>3. QED
    BY <1>a, <2>1, <2>2, HolderShortens
<1>7. CASE CheckElapsed(c) \/ CheckExited(c)
  <2>1. /\ pc[c] = "check" /\ slices' = slices
        /\ Goto(c, "read") \/ Goto(c, "poll") \/ Goto(c, "recover")
    BY <1>7 DEF CheckElapsed, CheckExited, LoseBroker, locals
  <2>2. /\ Nearer("check", slices, "read", slices)
        /\ Nearer("check", slices, "poll", slices)
        /\ Nearer("check", slices, "recover", slices)
    BY <1>0 DEF Nearer, Left
  <2>3. QED
    BY <2>1, <2>2, HolderShortens DEF LockedSteps
<1>8. CASE PollAgain(c) \/ RecoverBroker(c) \/ HandleParseFailure(c) \/ HandleProgress(c)
  <2>1. /\ pc[c] \in {"poll", "recover", "handle"}
        /\ \E reason : Return(c, "not_finished", reason)
    BY <1>8 DEF PollAgain, RecoverBroker, HandleParseFailure, HandleProgress
  <2>2. QED
    BY <2>1, ReturnShortens
<1>9. CASE HandleTerminal(c)
  <2>1. pc[c] = "handle" /\ slices' = slices /\ Goto(c, "reap")
    BY <1>9 DEF HandleTerminal
  <2>2. Nearer("handle", slices, "reap", slices)
    BY DEF Nearer, Left
  <2>3. QED
    BY <2>1, <2>2, HolderShortens DEF LockedSteps
<1>10. CASE ReapAndAnswer(c)
  <2>1. pc[c] = "reap" /\ \E kind, reason : Return(c, kind, reason)
    BY <1>10 DEF ReapAndAnswer
  <2>2. QED
    BY <2>1, ReturnShortens
<1>11. QED
  BY <1>1, <1>2, <1>3, <1>4, <1>5, <1>6, <1>7, <1>8, <1>9, <1>10
  DEF GetSerializationStep

\* The steps of the other methods, and taking the lock.
LEMMA MethodShortens ==
  ASSUME Inv, NEW c \in Callers, MethodStep(c)
  PROVE  Shortens
<1>0. TypeOK /\ MaxSlices \in Nat \ {0} /\ (lock = Nobody => slices = 0)
  BY ProviderAssumption DEF Inv, Control, FreeInv
<1>1. CASE LockSession(c)
  <2>1. /\ pc[c] = "acquire" /\ slices = 0 /\ slices' = slices
        /\ Goto(c, "create") \/ Goto(c, "read")
    BY <1>0, <1>1 DEF LockSession, locals
  <2>2. Nearer("acquire", 0, "create", 0) /\ Nearer("acquire", 0, "read", 0)
    BY <1>0 DEF Nearer, Left
  <2>3. QED
    BY <1>0, <2>1, <2>2, OutsiderShortens
<1>2. CASE DecideAutoSubmit(c)
  <2>1. /\ pc[c] \in {"select_awaiting", "select_inactive", "select_active"}
        /\ slices' = slices /\ Goto(c, "idle")
    BY <1>2 DEF DecideAutoSubmit, locals
  <2>2. Nearer(pc[c], slices, "idle", slices)
    BY <2>1 DEF Nearer, Left
  <2>3. QED
    BY <1>0, <2>1, <2>2, OutsiderShortens
<1>3. CASE CloseSession(c)
  <2>1. /\ slices' = slices
        /\ \/ pc[c] = "deselect_close" /\ Goto(c, "deselect_arm")
           \/ pc[c] = "logon_close" /\ Goto(c, "logon_finish")
           \/ pc[c] = "other_close" /\ Goto(c, "other_finish")
    BY <1>3 DEF CloseSession, locals
  <2>2. /\ Nearer("deselect_close", slices, "deselect_arm", slices)
        /\ Nearer("logon_close", slices, "logon_finish", slices)
        /\ Nearer("other_close", slices, "other_finish", slices)
    BY DEF Nearer, Left
  <2>3. QED
    BY <1>0, <2>1, <2>2, OutsiderShortens
<1>4. CASE FinishClose(c)
  <2>1. /\ pc[c] \in {"deselect_arm", "logon_finish", "other_finish"}
        /\ slices' = slices /\ Goto(c, "idle")
    BY <1>4 DEF FinishClose, locals
  <2>2. Nearer(pc[c], slices, "idle", slices)
    BY <2>1 DEF Nearer, Left
  <2>3. QED
    BY <1>0, <2>1, <2>2, OutsiderShortens
<1>5. QED
  BY <1>1, <1>2, <1>3, <1>4, StepShortens DEF MethodStep

\* A call only moves a thread that was idle; the timer and the broker move none.
LEMMA NextShortens == Inv /\ [Next]_vars => [Shortens]_vars
<1> SUFFICES ASSUME Inv, Next PROVE Shortens
  OBVIOUS
<1>1. ASSUME NEW c \in Callers, CallStep(c) PROVE Shortens
  <2>1. slices' = slices /\ (UNCHANGED pc \/ (pc[c] = "idle" /\ \E step : Goto(c, step)))
    BY <1>1 DEF CallStep, GetSerialization, SetSelected, SetDeselected,
                SetUsageScenarioLogon, SetUsageScenarioOther, EnumerateTiles,
                Advise, UnAdvise, ReportResult, locals
  <2>2. \A step : Nearer("idle", slices, step, slices)
    BY DEF Nearer
  <2>3. QED
    BY <2>1, <2>2, OutsiderShortens, NoneShortens DEF Inv
<1>2. CASE RefreshStep \/ \E b \in Launches : BrokerStep(b)
  <2>1. UNCHANGED <<pc, slices>>
    BY <1>2 DEF RefreshStep, BrokerStep, locals
  <2>2. QED
    BY <2>1, NoneShortens
<1>3. QED
  BY <1>1, <1>2, MethodShortens DEF Next

\* MethodsShorten: a call into the provider is over after at most
\* 4 * MaxSlices + 8 steps of its thread, waits for the lock apart, however many
\* threads there are, whatever the broker sends and whichever call fails.
THEOREM MethodsAreBounded == Spec => MethodsShorten
<1>1. Spec => [][Shortens]_vars
  BY Invariance, NextShortens, PTL DEF Spec
<1>2. QED
  BY <1>1, PTL DEF MethodsShorten, Shortens

-----------------------------------------------------------------------------
(***************************************************************************)
(* Proofs of what holds because LogonUI calls the provider on one thread,  *)
(* as its registration with ThreadingModel = Apartment asks for.           *)
(*                                                                         *)
(* With one thread nothing happens between CloseBrokerSessionNow and what  *)
(* its caller does next, so the flags and the session agree at every step  *)
(* of every method, and not only between two calls.                        *)
(***************************************************************************)

Apartment == \A c, d \in Callers : c = d

FinishSteps == {"logon_finish", "other_finish"}

\* The flags tell the truth about the session.
FlagsAgree ==
  /\ g.active <=> session.connected
  /\ g.awaiting => g.active
  /\ g.awaiting <=> flow = 1
  /\ flow # 0 => g.active

\* What SetUsageScenario has closed is still closed when it goes on.
ClosedInv == \A c \in Callers : pc[c] \in FinishSteps => session = NoSession

FlagsInv == FlagsAgree /\ ClosedInv

-----------------------------------------------------------------------------
\* What each helper of Provider.cpp leaves in the two flags.
LEMMA FlagValues ==
  ASSUME NEW gl \in Globals
  PROVE  /\ SetBrokerSessionActive(gl, TRUE).active
         /\ ~SetBrokerSessionActive(gl, FALSE).active
         /\ ~SetBrokerSessionActive(gl, FALSE).awaiting
         /\ SetBrokerAwaitingFinal(gl, TRUE).awaiting
         /\ ~SetBrokerAwaitingFinal(gl, FALSE).awaiting
         /\ SetBrokerAwaitingFinal(gl, TRUE).active = gl.active
         /\ SetBrokerAwaitingFinal(gl, FALSE).active = gl.active
  BY DEF Globals, SetBrokerSessionActive, SetBrokerAwaitingFinal

\* A session has ended, for the flags too.
LEMMA EndedValues ==
  ASSUME g \in Globals
  PROVE  ~EndedFlags.active /\ ~EndedFlags.awaiting
<1>1. SetBrokerSessionActive(g, FALSE) \in Globals
  BY ActiveFacts
<1>2. ~EndedFlags.awaiting
  BY <1>1, FlagValues DEF EndedFlags
<1>3. QED
  BY <1>2, EndedFacts

\* Neither the session nor a flag about it changes.
LEMMA AgreeStays ==
  ASSUME FlagsAgree, UNCHANGED <<session, flow>>, g'.active = g.active,
         g'.awaiting = g.awaiting
  PROVE  FlagsAgree'
  BY DEF FlagsAgree

\* The session ends and so do the flags.
LEMMA AgreeEnds ==
  ASSUME session' = NoSession, flow' = 0, ~g'.active, ~g'.awaiting
  PROVE  FlagsAgree'
  BY DEF FlagsAgree, NoSession

\* A session starts and so do the flags.
LEMMA AgreeStarts ==
  ASSUME session'.connected, flow' = 0, g'.active, ~g'.awaiting
  PROVE  FlagsAgree'
  BY DEF FlagsAgree

\* The one thread moves to a step that is not after a close.
LEMMA ClosedMoves ==
  ASSUME Apartment, TypeOK, NEW c \in Callers, NEW step, step \notin FinishSteps,
         Goto(c, step)
  PROVE  ClosedInv'
<1>1. \A d \in Callers : pc'[d] = step
  BY DEF Apartment, TypeOK, Goto
<1>2. QED
  BY <1>1 DEF ClosedInv

LEMMA ClosedStays ==
  ASSUME ClosedInv, UNCHANGED <<pc, session>>
  PROVE  ClosedInv'
  BY DEF ClosedInv

-----------------------------------------------------------------------------
\* No step of GetSerialization leads past a close.
LEMMA StepKeepsClosed ==
  ASSUME Apartment, Inv, NEW c \in Callers, GetSerializationStep(c)
  PROVE  ClosedInv'
<1>1. \E step : step \notin FinishSteps /\ Goto(c, step)
  BY DEF GetSerializationStep, CreateRestrictedPipeServer, LaunchBroker,
         ConnectSucceeds, ConnectFails, ReadPipe, WaitRead, TakeMessage,
         LoseBroker, CancelRead, CheckElapsed, CheckExited, PollAgain,
         RecoverBroker, HandleParseFailure, HandleProgress, HandleTerminal,
         ReapAndAnswer, Return, FinishSteps
<1>2. PICK step : step \notin FinishSteps /\ Goto(c, step)
  BY <1>1
<1>3. QED
  BY <1>2, ClosedMoves DEF Inv

\* The steps of GetSerialization keep flags and session in agreement.
LEMMA StepKeepsAgree ==
  ASSUME Inv, FlagsAgree, NEW c \in Callers, GetSerializationStep(c)
  PROVE  FlagsAgree'
<1> USE DEF LockedSteps, OpenSteps
<1>0. /\ g \in Globals /\ flow \in 0 .. 2
      /\ session \in [hPipe: Handles, hProcess: Handles, connected: BOOLEAN]
      /\ pc[c] \in LockedSteps => StepInv(pc[c])
  BY DEF Inv, TypeOK, SessionTypeOK, Control
<1>1. CASE CreateRestrictedPipeServer(c)
  <2>1. g' = g /\ flow' = flow /\ session'.connected = session.connected
    <3>1. g' = g /\ flow' = flow
          /\ \E h : session' = [session EXCEPT !.hPipe = h]
      BY <1>1 DEF CreateRestrictedPipeServer
    <3>2. QED
      BY <1>0, <3>1
  <2>2. QED
    BY <2>1 DEF FlagsAgree
<1>2. CASE LaunchBroker(c)
  <2>1. CASE g' = g /\ flow' = flow /\ session' = [session EXCEPT !.hProcess = session.hPipe]
    <3>1. session'.connected = session.connected
      BY <1>0, <2>1
    <3>2. QED
      BY <2>1, <3>1 DEF FlagsAgree
  <2>2. CASE ResetBrokerSession(SetBrokerSessionActive(g, FALSE))
    <3>1. ~g'.active /\ ~g'.awaiting
      BY <1>0, <2>2, FlagValues DEF ResetBrokerSession
    <3>2. QED
      BY <2>2, <3>1, AgreeEnds DEF ResetBrokerSession
  <2>3. QED
    BY <1>2, <2>1, <2>2 DEF LaunchBroker
<1>3. CASE ConnectSucceeds(c)
  <2>1. /\ g' = SetBrokerAwaitingFinal(SetBrokerSessionActive(g, TRUE), FALSE)
        /\ flow' = 0 /\ session' = [session EXCEPT !.connected = TRUE]
    BY <1>3 DEF ConnectSucceeds
  <2>2. SetBrokerSessionActive(g, TRUE) \in Globals
    BY <1>0, ActiveFacts
  <2>3. g'.active /\ ~g'.awaiting
    <3>1. SetBrokerSessionActive(g, TRUE).active
      BY <1>0, FlagValues
    <3>2. ~g'.awaiting
      BY <2>1, <2>2, FlagValues
    <3>3. g'.active
      BY <2>1, <2>2, <3>1, FlagValues
    <3>4. QED
      BY <3>2, <3>3
  <2>4. session'.connected
    BY <1>0, <2>1
  <2>5. flow' = 0
    BY <2>1
  <2>6. QED
    BY <2>3, <2>4, <2>5, AgreeStarts
<1>4. CASE ConnectFails(c)
  <2>1. /\ pc[c] = "connect" /\ flow' = flow
        /\ g' = SetBrokerSessionActive(g, FALSE) /\ session' = NoSession
    BY <1>4 DEF ConnectFails, DetachSession
  <2>2. ~session.connected
    BY <1>0, <2>1 DEF StepInv, Connecting, HasPipe
  <2>3. flow' = 0
    BY <2>1, <2>2 DEF FlagsAgree
  <2>4. ~g'.active /\ ~g'.awaiting
    BY <1>0, <2>1, FlagValues
  <2>5. QED
    BY <2>1, <2>3, <2>4, AgreeEnds
<1>5. CASE ReadPipe(c) \/ WaitRead(c) \/ CheckExited(c) \/ HandleTerminal(c)
  <2>1. \/ UNCHANGED <<g, session, flow>>
        \/ g' = EndedFlags /\ session' = NoSession /\ flow' = 0
    BY <1>5 DEF ReadPipe, WaitRead, CheckExited, HandleTerminal, TakeMessage,
                LoseBroker, DetachSession, sessionVars
  <2>2. QED
    BY <1>0, <2>1, EndedValues, AgreeEnds, AgreeStays
<1>6. CASE CancelRead(c) \/ CheckElapsed(c) \/ PollAgain(c) \/ ReapAndAnswer(c)
  <2>1. UNCHANGED <<g, session, flow>>
    BY <1>6 DEF CancelRead, CheckElapsed, PollAgain, ReapAndAnswer, sessionVars
  <2>2. QED
    BY <2>1, AgreeStays
<1>7. CASE RecoverBroker(c)
  <2>1. g' = ArmForceNextAutoSubmit(g) /\ UNCHANGED <<session, flow>>
    BY <1>7 DEF RecoverBroker
  <2>2. g'.active = g.active /\ g'.awaiting = g.awaiting
    BY <1>0, <2>1 DEF Globals, ArmForceNextAutoSubmit
  <2>3. QED
    BY <2>1, <2>2, AgreeStays
<1>8. CASE HandleParseFailure(c)
  <2>1. g' = EndedFlags /\ session' = NoSession /\ flow' = 0
    BY <1>8 DEF HandleParseFailure, ResetBrokerSession
  <2>2. QED
    BY <1>0, <2>1, EndedValues, AgreeEnds
<1>9. CASE HandleProgress(c)
  <2>1. /\ pc[c] = "handle" /\ session' = session
        /\ g' = SetBrokerAwaitingFinal(g, why = "AUTH_PENDING")
        /\ flow' = IF why = "AUTH_PENDING" THEN 1 ELSE 2
    BY <1>9 DEF HandleProgress
  <2>2. session.connected /\ g.active
    BY <1>0, <2>1 DEF StepInv, Open, FlagsAgree
  <2>3. CASE why = "AUTH_PENDING"
    <3>1. g' = SetBrokerAwaitingFinal(g, TRUE) /\ flow' = 1
      BY <2>1, <2>3, Zenon
    <3>2. g'.awaiting /\ g'.active
      BY <1>0, <2>2, <3>1, FlagValues
    <3>3. QED
      BY <2>1, <2>2, <3>1, <3>2 DEF FlagsAgree
  <2>4. CASE why # "AUTH_PENDING"
    <3>1. g' = SetBrokerAwaitingFinal(g, FALSE) /\ flow' = 2
      BY <2>1, <2>4, Zenon
    <3>2. ~g'.awaiting /\ g'.active
      BY <1>0, <2>2, <3>1, FlagValues
    <3>3. QED
      BY <2>1, <2>2, <3>1, <3>2 DEF FlagsAgree
  <2>5. QED
    BY <2>3, <2>4
<1>10. QED
  BY <1>1, <1>2, <1>3, <1>4, <1>5, <1>6, <1>7, <1>8, <1>9 DEF GetSerializationStep

\* CloseBrokerSessionNow ends session and flags together.
LEMMA CloseEnds ==
  ASSUME g \in Globals, CloseBrokerSessionNow
  PROVE  session' = NoSession /\ flow' = 0 /\ g' = EndedFlags
  BY DEF CloseBrokerSessionNow, ResetBrokerSession

\* The calls into the provider leave flags and session alone, but for what
\* SetUsageScenario disarms.
LEMMA CallKeepsFlags ==
  ASSUME Apartment, Inv, FlagsInv, NEW c \in Callers, CallStep(c)
  PROVE  FlagsInv'
<1>0. g \in Globals /\ TypeOK
  BY DEF Inv, TypeOK, SessionTypeOK
<1>1. UNCHANGED <<session, flow>> /\ (g' = g \/ g' = ResetForceNextAutoSubmit(g))
  BY DEF CallStep, GetSerialization, SetSelected, SetDeselected,
         SetUsageScenarioLogon, SetUsageScenarioOther, EnumerateTiles, Advise,
         UnAdvise, ReportResult, sessionVars
<1>2. g'.active = g.active /\ g'.awaiting = g.awaiting
  BY <1>0, <1>1 DEF Globals, ResetForceNextAutoSubmit
<1>3. FlagsAgree'
  BY <1>1, <1>2, AgreeStays DEF FlagsInv
<1>4. UNCHANGED pc \/ \E step : step \notin FinishSteps /\ Goto(c, step)
  BY DEF CallStep, GetSerialization, SetSelected, SetDeselected,
         SetUsageScenarioLogon, SetUsageScenarioOther, EnumerateTiles, Advise,
         UnAdvise, ReportResult, FinishSteps
<1>5. ClosedInv'
  BY <1>0, <1>1, <1>4, ClosedMoves, ClosedStays DEF FlagsInv
<1>6. QED
  BY <1>3, <1>5 DEF FlagsInv

\* The steps a method takes by itself.
LEMMA MethodKeepsFlags ==
  ASSUME Apartment, Inv, FlagsInv, NEW c \in Callers, MethodStep(c)
  PROVE  FlagsInv'
<1>0. g \in Globals /\ flow \in 0 .. 2 /\ TypeOK
  BY DEF Inv, TypeOK, SessionTypeOK
<1>1. CASE GetSerializationStep(c)
  BY <1>1, StepKeepsClosed, StepKeepsAgree DEF FlagsInv
<1>2. CASE LockSession(c)
  <2>1. UNCHANGED <<g, session, flow>>
    BY <1>2 DEF LockSession, sessionVars
  <2>2. Goto(c, "create") \/ Goto(c, "read")
    BY <1>2 DEF LockSession
  <2>3. ClosedInv'
    BY <1>0, <2>2, ClosedMoves DEF FinishSteps
  <2>4. QED
    BY <2>1, <2>3, AgreeStays DEF FlagsInv
<1>3. CASE DecideAutoSubmit(c)
  <2>1. UNCHANGED <<session, flow>> /\ Goto(c, "idle")
    BY <1>3 DEF DecideAutoSubmit, sessionVars
  <2>2. \/ g' = g
        \/ g' = MarkAutoSubmitTickNow(ConsumeForceNextAutoSubmit(g))
        \/ g' = MarkAutoSubmitTickNow(g)
    BY <1>3 DEF DecideAutoSubmit, TryAcquireAutoSubmitWindow
  <2>3. g'.active = g.active /\ g'.awaiting = g.awaiting
    BY <1>0, <2>2 DEF Globals, MarkAutoSubmitTickNow, ConsumeForceNextAutoSubmit
  <2>4. ClosedInv'
    BY <1>0, <2>1, ClosedMoves DEF FinishSteps
  <2>5. QED
    BY <2>1, <2>3, <2>4, AgreeStays DEF FlagsInv
<1>4. CASE CloseSession(c)
  <2>1. session' = NoSession /\ flow' = 0 /\ g' = EndedFlags
    BY <1>0, <1>4, CloseEnds DEF CloseSession
  <2>2. ClosedInv'
    BY <2>1 DEF ClosedInv
  <2>3. QED
    BY <1>0, <2>1, <2>2, EndedValues, AgreeEnds DEF FlagsInv
<1>5. CASE FinishClose(c)
  <2>1. UNCHANGED <<session, flow>> /\ Goto(c, "idle")
    BY <1>5 DEF FinishClose, sessionVars
  <2>2. ClosedInv'
    BY <1>0, <2>1, ClosedMoves DEF FinishSteps
  <2>3. CASE g' = ArmForceNextAutoSubmit(g)
    <3>1. g'.active = g.active /\ g'.awaiting = g.awaiting
      BY <1>0, <2>3 DEF Globals, ArmForceNextAutoSubmit
    <3>2. QED
      BY <2>1, <2>2, <3>1, AgreeStays DEF FlagsInv
  <2>4. CASE pc[c] \in FinishSteps
    <3>1. session' = NoSession
      BY <2>1, <2>4 DEF FlagsInv, ClosedInv
    <3>2. flow' = 0
      BY <2>1, <3>1 DEF FlagsInv, FlagsAgree, NoSession
    <3>3. ResetForceNextAutoSubmit(g) \in Globals
      BY <1>0, FlagFacts
    <3>4. SetBrokerSessionActive(ResetForceNextAutoSubmit(g), FALSE) \in Globals
      BY <3>3, ActiveFacts
    <3>5. ~SetBrokerSessionActive(ResetForceNextAutoSubmit(g), FALSE).active
      BY <3>3, FlagValues
    <3>6. \/ g' = EndedFlags
          \/ g' = SetBrokerAwaitingFinal(
                    SetBrokerSessionActive(ResetForceNextAutoSubmit(g), FALSE), FALSE)
      BY <1>5, <2>4 DEF FinishClose, FinishSteps
    <3>7. ASSUME g' = EndedFlags
          PROVE  ~g'.active /\ ~g'.awaiting
      BY <1>0, <3>7, EndedValues
    <3>8. ASSUME g' = SetBrokerAwaitingFinal(
                        SetBrokerSessionActive(ResetForceNextAutoSubmit(g), FALSE), FALSE)
          PROVE  ~g'.active /\ ~g'.awaiting
      <4>1. ~g'.active
        BY <3>4, <3>5, <3>8, FlagValues
      <4>2. ~g'.awaiting
        BY <3>4, <3>8, FlagValues
      <4>3. QED
        BY <4>1, <4>2
    <3>9. ~g'.active /\ ~g'.awaiting
      BY <3>6, <3>7, <3>8
    <3>10. QED
      BY <2>2, <3>1, <3>2, <3>9, AgreeEnds DEF FlagsInv
  <2>5. QED
    BY <1>5, <2>3, <2>4 DEF FinishClose, FinishSteps
<1>6. QED
  BY <1>1, <1>2, <1>3, <1>4, <1>5 DEF MethodStep

LEMMA FlagsNext ==
  ASSUME Apartment
  PROVE  Inv /\ FlagsInv /\ [Next]_vars => FlagsInv'
<1> SUFFICES ASSUME Inv, FlagsInv, [Next]_vars PROVE FlagsInv'
  OBVIOUS
<1>1. CASE \E c \in Callers : CallStep(c) \/ MethodStep(c)
  BY <1>1, CallKeepsFlags, MethodKeepsFlags
<1>2. CASE RefreshStep \/ (\E b \in Launches : BrokerStep(b)) \/ UNCHANGED vars
  <2>1. UNCHANGED <<g, session, flow, pc>>
    BY <1>2 DEF RefreshStep, BrokerStep, Broker, vars, sessionVars
  <2>2. QED
    BY <2>1, AgreeStays, ClosedStays DEF FlagsInv
<1>3. QED
  BY <1>1, <1>2 DEF Next

\* FlagsMatchSession: on one thread the flags SetSelected, SetDeselected and
\* SetUsageScenario go by describe the session truthfully whenever no call is
\* in progress, after every way a session can end.
THEOREM FlagsAreTruthful ==
  ASSUME Apartment
  PROVE  Spec => []FlagsMatchSession
<1>1. Init => FlagsInv
  BY DEF Init, SessionInit, InitialGlobals, FlagsInv, FlagsAgree, ClosedInv,
         NoSession, FinishSteps
<1>2. Inv /\ FlagsInv /\ [Next]_vars => FlagsInv'
  BY FlagsNext
<1>3. FlagsInv => FlagsMatchSession
  BY DEF FlagsInv, FlagsAgree, FlagsMatchSession
<1>4. QED
  BY <1>1, <1>2, <1>3, InitInv, NextInv, PTL DEF Spec

-----------------------------------------------------------------------------
(***************************************************************************)
(* Outside the LOGON scenario there is no tile to select or submit, so     *)
(* the one thread is idle or closing, and nothing is armed any more.       *)
(***************************************************************************)

TileInv ==
  /\ selected => tile # "none"
  /\ tile # "none" => cpus = "LOGON"

ClosingSteps == {"idle", "other_close", "other_finish"}

OutsideInv ==
  cpus # "LOGON" => /\ ~g.force
                    /\ \A c \in Callers : pc[c] \in ClosingSteps
                    /\ \/ \E c \in Callers : pc[c] = "other_close"
                       \/ session = NoSession

GateInv == TileInv /\ OutsideInv

\* Nothing the gate is about changes.
LEMMA GateStays ==
  ASSUME OutsideInv, UNCHANGED <<g, session, pc, cpus>>
  PROVE  OutsideInv'
  BY DEF OutsideInv

\* Ending a session arms nothing.
LEMMA EndedForce ==
  ASSUME g \in Globals
  PROVE  EndedFlags.force = g.force
  BY DEF Globals, EndedFlags, SetBrokerSessionActive, SetBrokerAwaitingFinal

\* A step inside a method, taken outside LOGON, is a step of the close.
LEMMA MethodKeepsGate ==
  ASSUME Apartment, Inv, GateInv, NEW c \in Callers, MethodStep(c)
  PROVE  GateInv'
<1> USE DEF LockedSteps, OpenSteps
<1>1. g \in Globals /\ pc \in [Callers -> LockedSteps \cup OpenSteps]
  BY DEF Inv, TypeOK, SessionTypeOK
<1>2. UNCHANGED <<cpus, tile, selected>>
  BY DEF MethodStep, LockSession, GetSerializationStep, CreateRestrictedPipeServer,
         LaunchBroker, ConnectSucceeds, ConnectFails, ReadPipe, WaitRead,
         CancelRead, CheckElapsed, CheckExited, PollAgain, RecoverBroker,
         HandleParseFailure, HandleProgress, HandleTerminal, ReapAndAnswer,
         DecideAutoSubmit, CloseSession, FinishClose, uiVars
<1>3. TileInv'
  BY <1>2 DEF GateInv, TileInv
<1>4. CASE cpus = "LOGON"
  BY <1>2, <1>3, <1>4 DEF GateInv, OutsideInv
<1>5. CASE cpus # "LOGON"
  <2>1. /\ ~g.force /\ pc[c] \in ClosingSteps
        /\ pc[c] = "other_close" \/ session = NoSession
    BY <1>5 DEF Apartment, GateInv, OutsideInv
  <2>2. \/ pc[c] = "other_close" /\ CloseSession(c)
        \/ pc[c] = "other_finish" /\ FinishClose(c)
    BY <2>1 DEF ClosingSteps, MethodStep, LockSession, GetSerializationStep,
         CreateRestrictedPipeServer, LaunchBroker, ConnectSucceeds, ConnectFails,
         ReadPipe, WaitRead, CancelRead, CheckElapsed, CheckExited, PollAgain,
         RecoverBroker, HandleParseFailure, HandleProgress, HandleTerminal,
         ReapAndAnswer, DecideAutoSubmit, CloseSession, FinishClose
  <2>3. session' = NoSession /\ g' = EndedFlags
    <3>1. CASE pc[c] = "other_close" /\ CloseSession(c)
      BY <1>1, <3>1, CloseEnds DEF CloseSession
    <3>2. CASE pc[c] = "other_finish" /\ FinishClose(c)
      BY <2>1, <3>2 DEF FinishClose, sessionVars
    <3>3. QED
      BY <2>2, <3>1, <3>2
  <2>4. \A d \in Callers : pc'[d] \in ClosingSteps
    <3>1. Goto(c, "other_finish") \/ Goto(c, "idle")
      BY <2>2 DEF CloseSession, FinishClose
    <3>2. QED
      BY <1>1, <3>1 DEF Apartment, Goto, ClosingSteps
  <2>5. ~g'.force
    BY <1>1, <2>1, <2>3, EndedForce
  <2>6. QED
    BY <1>3, <2>3, <2>4, <2>5 DEF GateInv, OutsideInv
<1>6. QED
  BY <1>4, <1>5

\* A call: only SetUsageScenario leaves LOGON, and it starts a close.
LEMMA CallKeepsGate ==
  ASSUME Apartment, Inv, GateInv, NEW c \in Callers, CallStep(c)
  PROVE  GateInv'
<1> USE DEF LockedSteps, OpenSteps
<1>1. g \in Globals /\ pc \in [Callers -> LockedSteps \cup OpenSteps]
  BY DEF Inv, TypeOK, SessionTypeOK
<1>2. CASE GetSerialization(c) \/ SetSelected(c) \/ SetDeselected(c)
  <2>1. cpus = "LOGON" /\ UNCHANGED <<cpus, tile>>
    BY <1>2 DEF GetSerialization, SetSelected, SetDeselected, GateInv, TileInv
  <2>2. tile # "none"
    BY <1>2 DEF GetSerialization, SetSelected, SetDeselected, GateInv, TileInv
  <2>3. QED
    BY <2>1, <2>2 DEF GateInv, TileInv, OutsideInv
<1>3. CASE SetUsageScenarioLogon(c)
  BY <1>3 DEF SetUsageScenarioLogon, DropTile, GateInv, TileInv, OutsideInv
<1>4. CASE SetUsageScenarioOther(c)
  <2>1. /\ tile' = "none" /\ ~selected' /\ Goto(c, "other_close")
        /\ g' = ResetForceNextAutoSubmit(g)
    BY <1>4 DEF SetUsageScenarioOther, DropTile
  <2>2. ~g'.force
    BY <1>1, <2>1 DEF Globals, ResetForceNextAutoSubmit
  <2>3. \A d \in Callers : pc'[d] = "other_close"
    BY <1>1, <2>1 DEF Apartment, Goto
  <2>4. OutsideInv'
    BY <2>2, <2>3 DEF OutsideInv, ClosingSteps
  <2>5. QED
    BY <2>1, <2>4 DEF GateInv, TileInv
<1>5. CASE EnumerateTiles(c)
  <2>1. /\ ~selected' /\ UNCHANGED <<g, session, pc, cpus>>
        /\ tile' = IF cpus = "LOGON" THEN cpus ELSE "none"
    BY <1>5 DEF EnumerateTiles, sessionVars
  <2>2. OutsideInv'
    BY <2>1, GateStays DEF GateInv
  <2>3. QED
    BY <2>1, <2>2 DEF GateInv, TileInv
<1>6. CASE Advise(c) \/ UnAdvise(c) \/ ReportResult(c)
  <2>1. UNCHANGED <<g, session, pc, cpus, tile, selected>>
    BY <1>6 DEF Advise, UnAdvise, ReportResult, sessionVars, uiVars
  <2>2. QED
    BY <2>1, GateStays DEF GateInv, TileInv
<1>7. QED
  BY <1>2, <1>3, <1>4, <1>5, <1>6 DEF CallStep

LEMMA GateNext ==
  ASSUME Apartment
  PROVE  Inv /\ GateInv /\ [Next]_vars => GateInv'
<1> SUFFICES ASSUME Inv, GateInv, [Next]_vars PROVE GateInv'
  OBVIOUS
<1>1. CASE \E c \in Callers : CallStep(c) \/ MethodStep(c)
  BY <1>1, CallKeepsGate, MethodKeepsGate
<1>2. CASE RefreshStep \/ (\E b \in Launches : BrokerStep(b)) \/ UNCHANGED vars
  <2>1. UNCHANGED <<g, session, pc, cpus, tile, selected>>
    BY <1>2 DEF RefreshStep, BrokerStep, Broker, vars, sessionVars, uiVars
  <2>2. QED
    BY <2>1, GateStays DEF GateInv, TileInv
<1>3. QED
  BY <1>1, <1>2 DEF Next

\* ScenarioGate: on one thread, SetUsageScenario for anything but LOGON leaves
\* no session, no active flag and no armed submission behind, and nothing that
\* happens before the next SetUsageScenario brings one back.
THEOREM ScenarioIsGated ==
  ASSUME Apartment
  PROVE  Spec => []ScenarioGate
<1>1. Init => GateInv
  BY DEF Init, SessionInit, InitialGlobals, GateInv, TileInv, OutsideInv,
         ClosingSteps
<1>2. Inv /\ GateInv /\ [Next]_vars => GateInv'
  BY GateNext
<1>3. Inv /\ GateInv => ScenarioGate
  <2> SUFFICES ASSUME Inv, GateInv, AllIdle, cpus # "LOGON"
               PROVE  session = NoSession /\ ~g.active /\ ~g.force
    BY DEF ScenarioGate
  <2>1. session = NoSession /\ ~g.force
    BY DEF GateInv, OutsideInv, AllIdle
  <2>2. ~g.active
    BY <2>1 DEF Inv, Resources, NoSession
  <2>3. QED
    BY <2>1, <2>2
<1>4. QED
  BY <1>1, <1>2, <1>3, InitInv, NextInv, PTL DEF Spec

-----------------------------------------------------------------------------
(***************************************************************************)
(* The proof that the provider implements SessionLifecycle, on any number  *)
(* of threads.                                                             *)
(*                                                                         *)
(* Inv and ReasonInv say what the state of the abstract session is at each *)
(* step of the holder of the lock, and between two holders.                *)
(***************************************************************************)

ReadSteps == {"read", "wait", "cancel", "check", "poll", "handle"}

PhaseOf(step) ==
  IF step = "create" THEN "none"
  ELSE IF step \in {"launch", "connect"} THEN "starting"
  ELSE IF step \in ReadSteps THEN "live"
  ELSE IF step = "reap" /\ why \notin NoConnection THEN "finishing"
  ELSE "failing"

PhaseInv ==
  /\ \A c \in Callers : pc[c] \in LockedSteps => Lifecycle = PhaseOf(pc[c])
  /\ lock = Nobody => Lifecycle = IF session.connected THEN "live" ELSE "none"

LEMMA PhaseFacts == Inv => PhaseInv
<1> SUFFICES ASSUME Inv PROVE PhaseInv
  OBVIOUS
<1>1. ASSUME NEW c \in Callers, pc[c] \in LockedSteps
      PROVE  Lifecycle = PhaseOf(pc[c])
  <2>1. \A d \in Callers : pc[d] \in LockedSteps => d = c
    BY <1>1 DEF Inv, Control, LockInv
  <2>2. At({"recover"}) <=> pc[c] = "recover"
    BY <2>1 DEF At, LockedSteps
  <2>3. At({"reap"}) <=> pc[c] = "reap"
    BY <2>1 DEF At, LockedSteps
  <2>4. StepInv(pc[c])
    BY <1>1 DEF Inv, Control
  <2>5. CASE pc[c] \in {"recover", "reap"}
    BY <2>2, <2>3, <2>5 DEF Lifecycle, PhaseOf, ReadSteps
  <2>6. CASE pc[c] \notin {"recover", "reap"}
    <3>1. Lifecycle = IF session.connected THEN "live"
                      ELSE IF session.hPipe # NoHandle THEN "starting" ELSE "none"
      BY <2>2, <2>3, <2>6 DEF Lifecycle
    <3>2. CASE pc[c] = "create"
      <4>1. session = NoSession
        BY <2>4, <3>2 DEF StepInv
      <4>2. ~session.connected /\ session.hPipe = NoHandle
        BY <4>1 DEF NoSession
      <4>3. QED
        BY <3>1, <3>2, <4>2 DEF PhaseOf
    <3>3. CASE pc[c] \in {"launch", "connect"}
      <4>1. HasPipe
        BY <2>4, <3>3 DEF StepInv, Launching, Connecting
      <4>2. ~session.connected /\ session.hPipe # NoHandle
        BY <4>1, SessionAssumption DEF HasPipe, Launches, NoHandle
      <4>3. QED
        BY <3>1, <3>3, <4>2 DEF PhaseOf
    <3>4. CASE pc[c] \in ReadSteps
      <4>1. session.connected
        BY <2>4, <3>4 DEF StepInv, Open, ReadSteps
      <4>2. QED
        BY <3>1, <3>4, <4>1 DEF PhaseOf, ReadSteps
    <3>5. QED
      BY <1>1, <2>6, <3>2, <3>3, <3>4 DEF LockedSteps, ReadSteps
  <2>7. QED
    BY <2>5, <2>6
<1>2. ASSUME lock = Nobody
      PROVE  Lifecycle = IF session.connected THEN "live" ELSE "none"
  <2>1. \A c \in Callers : pc[c] \notin LockedSteps
    BY <1>2, ProviderAssumption DEF Inv, Control, LockInv
  <2>2. ~At({"recover"}) /\ ~At({"reap"})
    BY <2>1 DEF At, LockedSteps
  <2>3. session.connected \/ session.hPipe = NoHandle
    BY <1>2 DEF Inv, Control, FreeInv, Open, NoSession
  <2>4. QED
    BY <2>2, <2>3 DEF Lifecycle
<1>3. QED
  BY <1>1, <1>2 DEF PhaseInv

LEMMA PhaseFactsPrimed == Inv' => PhaseInv'
  BY PhaseFacts, PTL

\* Every step of the provider is one of SessionLifecycle or changes none of
\* its variables.
Maps == [SL!Next]_(SL!vars)

LEMMA StutterMaps ==
  ASSUME Lifecycle' = Lifecycle, created' = created,
         g'.generation = g.generation, response'.kind = response.kind
  PROVE  Maps
  BY DEF Maps, SL!vars

\* A thread moves, or none, and the session is at the same point.
LEMMA PhaseStays ==
  ASSUME TypeOK, session' = session, why' = why,
         \/ UNCHANGED pc
         \/ \E c \in Callers : \E step :
              /\ pc[c] \notin {"recover", "reap"}
              /\ step \notin {"recover", "reap"}
              /\ Goto(c, step)
  PROVE  Lifecycle' = Lifecycle
<1>1. At({"recover"})' <=> At({"recover"})
  BY DEF At, TypeOK, Goto
<1>2. At({"reap"})' <=> At({"reap"})
  BY DEF At, TypeOK, Goto
<1>3. QED
  BY <1>1, <1>2 DEF Lifecycle

\* The holder goes on.
LEMMA PhaseOnGoto ==
  ASSUME TypeOK, Inv', NEW c \in Callers, NEW step \in LockedSteps, Goto(c, step)
  PROVE  Lifecycle' = PhaseOf(step)'
<1>1. pc'[c] = step
  BY DEF TypeOK, Goto
<1>2. PhaseInv'
  BY PhaseFactsPrimed
<1>3. QED
  BY <1>1, <1>2 DEF PhaseInv, PhaseOf

\* The holder returns.
LEMMA PhaseOnReturn ==
  ASSUME Inv', NEW c \in Callers, NEW kind, NEW reason, Return(c, kind, reason)
  PROVE  /\ Lifecycle' = IF session'.connected THEN "live" ELSE "none"
         /\ response'.kind = kind
<1>1. PhaseInv'
  BY PhaseFactsPrimed
<1>2. QED
  BY <1>1 DEF PhaseInv, Return

\* Opening the session.
LEMMA OpeningMaps ==
  ASSUME Inv, Inv', NEW c \in Callers,
         \/ CreateRestrictedPipeServer(c) \/ LaunchBroker(c)
         \/ ConnectSucceeds(c) \/ ConnectFails(c)
  PROVE  Maps
<1> USE DEF LockedSteps
<1>0. PhaseInv /\ TypeOK /\ g \in Globals
  BY PhaseFacts DEF Inv, TypeOK, SessionTypeOK
<1>1. CASE CreateRestrictedPipeServer(c)
  <2>1. pc[c] = "create" /\ g' = g
    BY <1>1 DEF CreateRestrictedPipeServer
  <2>2. Lifecycle = "none" /\ session = NoSession
    BY <1>0, <2>1 DEF PhaseInv, PhaseOf, Inv, Control, StepInv
  <2>3. CASE created' = created + 1 /\ Goto(c, "launch") /\ UNCHANGED response
    <3>1. Lifecycle' = "starting"
      BY <1>0, <2>3, PhaseOnGoto DEF PhaseOf
    <3>2. QED
      BY <2>1, <2>2, <2>3, <3>1
      DEF Maps, SL!Next, SL!Start, SL!Moves, SL!Keeps, SL!Silent
  <2>4. CASE /\ session' = [session EXCEPT !.hPipe = NoHandle]
             /\ Return(c, "not_finished", "pipe")
             /\ UNCHANGED created
    <3>1. ~session'.connected
      BY <2>2, <2>4 DEF NoSession
    <3>2. Lifecycle' = "none" /\ response'.kind = "not_finished"
      BY <2>4, <3>1, PhaseOnReturn
    <3>3. QED
      BY <2>1, <2>2, <2>4, <3>2
      DEF Maps, SL!Next, SL!NoPipe, SL!Moves, SL!Keeps, SL!Says
  <2>5. QED
    BY <1>1, <2>3, <2>4 DEF CreateRestrictedPipeServer
<1>2. CASE LaunchBroker(c)
  <2>1. pc[c] = "launch" /\ created' = created
    BY <1>2 DEF LaunchBroker
  <2>2. Lifecycle = "starting"
    BY <1>0, <2>1 DEF PhaseInv, PhaseOf
  <2>3. CASE Goto(c, "connect") /\ UNCHANGED <<g, response>>
    <3>1. Lifecycle' = "starting"
      BY <1>0, <2>3, PhaseOnGoto DEF PhaseOf
    <3>2. QED
      BY <2>1, <2>2, <2>3, <3>1, StutterMaps
  <2>4. CASE /\ ResetBrokerSession(SetBrokerSessionActive(g, FALSE))
             /\ Return(c, "not_finished", "launch")
    <3>1. g'.generation = g.generation + 1 /\ ~session'.connected
      BY <1>0, <2>4, ActiveFacts DEF ResetBrokerSession, NoSession
    <3>2. Lifecycle' = "none" /\ response'.kind = "not_finished"
      BY <2>4, <3>1, PhaseOnReturn
    <3>3. QED
      BY <2>1, <2>2, <3>1, <3>2
      DEF Maps, SL!Next, SL!NoBroker, SL!Moves, SL!Ends, SL!Says
  <2>5. QED
    BY <1>2, <2>3, <2>4 DEF LaunchBroker
<1>3. CASE ConnectSucceeds(c)
  <2>1. pc[c] = "connect" /\ Goto(c, "read") /\ UNCHANGED <<created, response>>
        /\ g' = SetBrokerAwaitingFinal(SetBrokerSessionActive(g, TRUE), FALSE)
    BY <1>3 DEF ConnectSucceeds
  <2>2. Lifecycle = "starting" /\ Lifecycle' = "live"
    BY <1>0, <2>1, PhaseOnGoto DEF PhaseInv, PhaseOf, ReadSteps
  <2>3. g'.generation = g.generation
    <3>1. SetBrokerSessionActive(g, TRUE) \in Globals
      BY <1>0, ActiveFacts
    <3>2. g'.generation = SetBrokerSessionActive(g, TRUE).generation
      BY <2>1, <3>1, FlagFacts
    <3>3. QED
      BY <1>0, <3>2, ActiveFacts
  <2>4. QED
    BY <2>1, <2>2, <2>3
    DEF Maps, SL!Next, SL!Connect, SL!Moves, SL!Keeps, SL!Silent
<1>4. CASE ConnectFails(c)
  <2>1. /\ pc[c] = "connect" /\ Goto(c, "reap") /\ UNCHANGED <<created, response>>
        /\ why' \in ConnectFailures(session.hPipe)
        /\ g' = SetBrokerSessionActive(g, FALSE)
    BY <1>4 DEF ConnectFails, DetachSession
  <2>2. why' \in NoConnection
    BY <2>1 DEF ConnectFailures, NoConnection
  <2>3. Lifecycle = "starting" /\ Lifecycle' = "failing"
    BY <1>0, <2>1, <2>2, PhaseOnGoto DEF PhaseInv, PhaseOf, ReadSteps
  <2>4. g'.generation = g.generation + 1
    BY <1>0, <2>1, ActiveFacts
  <2>5. QED
    BY <2>1, <2>3, <2>4
    DEF Maps, SL!Next, SL!NoClient, SL!Moves, SL!Ends, SL!Silent
<1>5. QED
  BY <1>1, <1>2, <1>3, <1>4

\* The holder goes on with the open session, whose end no step has come to.
LEMMA LiveOnMaps ==
  ASSUME Inv, Inv', NEW c \in Callers, pc[c] \in ReadSteps,
         NEW step \in ReadSteps, Goto(c, step), UNCHANGED <<g, created, response>>
  PROVE  Maps
<1>1. TypeOK /\ PhaseInv /\ pc[c] \in LockedSteps /\ step \in LockedSteps
  BY PhaseFacts DEF Inv, ReadSteps, LockedSteps
<1>2. Lifecycle = "live" /\ Lifecycle' = "live"
  BY <1>1, PhaseOnGoto DEF PhaseInv, PhaseOf, ReadSteps
<1>3. QED
  BY <1>2, StutterMaps

\* The connection is lost.
LEMMA LoseMaps ==
  ASSUME Inv, Inv', NEW c \in Callers, pc[c] \in ReadSteps, LoseBroker(c),
         UNCHANGED response
  PROVE  Maps
<1>1. /\ TypeOK /\ g \in Globals /\ PhaseInv
      /\ pc[c] \in LockedSteps /\ "recover" \in LockedSteps
  BY PhaseFacts DEF Inv, TypeOK, SessionTypeOK, ReadSteps, LockedSteps
<1>2. Goto(c, "recover") /\ g' = EndedFlags /\ created' = created
  BY DEF LoseBroker, DetachSession
<1>3. Lifecycle = "live" /\ Lifecycle' = "failing"
  BY <1>1, <1>2, PhaseOnGoto DEF PhaseInv, PhaseOf, ReadSteps
<1>4. g'.generation = g.generation + 1
  BY <1>1, <1>2, EndedFacts
<1>5. QED
  BY <1>2, <1>3, <1>4 DEF Maps, SL!Next, SL!Lose, SL!Moves, SL!Ends, SL!Silent

LEMMA ReadingMaps ==
  ASSUME Inv, Inv', NEW c \in Callers,
         \/ ReadPipe(c) \/ WaitRead(c) \/ CancelRead(c)
         \/ CheckElapsed(c) \/ CheckExited(c)
  PROVE  Maps
<1>1. pc[c] \in ReadSteps /\ UNCHANGED response
  BY DEF ReadPipe, WaitRead, CancelRead, CheckElapsed, CheckExited, ReadSteps
<1>2. \/ LoseBroker(c)
      \/ /\ UNCHANGED <<g, created>>
         /\ \E step \in ReadSteps : Goto(c, step)
  BY DEF ReadPipe, WaitRead, CancelRead, CheckElapsed, CheckExited, TakeMessage,
         sessionVars, ReadSteps
<1>3. QED
  BY <1>1, <1>2, LoseMaps, LiveOnMaps

\* The answers.
LEMMA AnsweringMaps ==
  ASSUME Inv, Inv', ReasonInv, NEW c \in Callers,
         \/ PollAgain(c) \/ HandleProgress(c) \/ HandleParseFailure(c)
         \/ HandleTerminal(c) \/ RecoverBroker(c) \/ ReapAndAnswer(c)
  PROVE  Maps
<1> USE DEF LockedSteps
<1>0. PhaseInv /\ TypeOK /\ g \in Globals /\ StepInv(pc[c])
  BY PhaseFacts DEF Inv, TypeOK, SessionTypeOK, Control, PollAgain, HandleProgress,
     HandleParseFailure, HandleTerminal, RecoverBroker, ReapAndAnswer
<1>1. CASE PollAgain(c) \/ HandleProgress(c)
  <2>1. /\ pc[c] \in {"poll", "handle"} /\ UNCHANGED <<session, created>>
        /\ g' = g \/ g' = SetBrokerAwaitingFinal(g, why = "AUTH_PENDING")
        /\ \E reason \in Reasons : Return(c, "not_finished", reason)
    BY <1>0, <1>1 DEF PollAgain, HandleProgress, sessionVars, TypeOK, Reasons
  <2>2. Lifecycle = "live" /\ session.connected
    BY <1>0, <2>1 DEF PhaseInv, PhaseOf, ReadSteps, StepInv, Open
  <2>3. Lifecycle' = "live" /\ response'.kind = "not_finished"
    BY <2>1, <2>2, PhaseOnReturn
  <2>4. g'.generation = g.generation
    <3>1. (why = "AUTH_PENDING") \in BOOLEAN
      OBVIOUS
    <3>2. QED
      BY <1>0, <2>1, <3>1, FlagFacts
  <2>5. QED
    BY <2>1, <2>2, <2>3, <2>4
    DEF Maps, SL!Next, SL!AskAgain, SL!Moves, SL!Keeps, SL!Says
<1>2. CASE HandleParseFailure(c)
  <2>1. /\ pc[c] = "handle" /\ session' = NoSession /\ created' = created
        /\ g' = EndedFlags /\ Return(c, "not_finished", why)
    BY <1>2 DEF HandleParseFailure, ResetBrokerSession
  <2>2. Lifecycle = "live"
    BY <1>0, <2>1 DEF PhaseInv, PhaseOf, ReadSteps
  <2>3. Lifecycle' = "none" /\ response'.kind = "not_finished"
    BY <2>1, PhaseOnReturn DEF NoSession
  <2>4. g'.generation = g.generation + 1
    BY <1>0, <2>1, EndedFacts
  <2>5. QED
    BY <2>1, <2>2, <2>3, <2>4
    DEF Maps, SL!Next, SL!Refuse, SL!Moves, SL!Ends, SL!Says
<1>3. CASE HandleTerminal(c)
  <2>1. /\ pc[c] = "handle" /\ Goto(c, "reap") /\ why' = why /\ g' = EndedFlags
        /\ UNCHANGED <<created, response>>
    BY <1>3 DEF HandleTerminal, DetachSession
  <2>2. why' \notin NoConnection
    BY <2>1 DEF ReasonInv, Messages, NoConnection
  <2>3. Lifecycle = "live" /\ Lifecycle' = "finishing"
    BY <1>0, <2>1, <2>2, PhaseOnGoto DEF PhaseInv, PhaseOf, ReadSteps
  <2>4. g'.generation = g.generation + 1
    BY <1>0, <2>1, EndedFacts
  <2>5. QED
    BY <2>1, <2>3, <2>4 DEF Maps, SL!Next, SL!LastWord, SL!Moves, SL!Ends, SL!Silent
<1>4. CASE RecoverBroker(c)
  <2>1. /\ pc[c] = "recover" /\ UNCHANGED <<session, created>>
        /\ g' = ArmForceNextAutoSubmit(g) /\ Return(c, "not_finished", "recover")
    BY <1>4 DEF RecoverBroker
  <2>2. Lifecycle = "failing" /\ ~session.connected
    BY <1>0, <2>1 DEF PhaseInv, PhaseOf, ReadSteps, StepInv, NoSession
  <2>3. Lifecycle' = "none" /\ response'.kind = "not_finished"
    BY <2>1, <2>2, PhaseOnReturn
  <2>4. g'.generation = g.generation
    BY <1>0, <2>1 DEF ArmForceNextAutoSubmit, Globals
  <2>5. QED
    BY <2>1, <2>2, <2>3, <2>4
    DEF Maps, SL!Next, SL!GiveUp, SL!Moves, SL!Keeps, SL!Says
<1>5. CASE ReapAndAnswer(c)
  <2>1. /\ pc[c] = "reap" /\ UNCHANGED <<g, session, created>>
        /\ \E kind \in Answers(why) : Return(c, kind, why)
    BY <1>5 DEF ReapAndAnswer
  <2>2. PICK kind \in Answers(why) : Return(c, kind, why)
    BY <2>1
  <2>3. ~session.connected
    BY <1>0, <2>1 DEF StepInv, NoSession
  <2>4. Lifecycle' = "none" /\ response'.kind = kind
    BY <2>1, <2>2, <2>3, PhaseOnReturn
  <2>5. CASE why \in NoConnection
    <3>1. Lifecycle = "failing"
      BY <1>0, <2>1, <2>5 DEF PhaseInv, PhaseOf, ReadSteps
    <3>2. kind = "not_finished"
      BY <2>2, <2>5 DEF Answers, NoConnection
    <3>3. QED
      BY <2>1, <2>4, <3>1, <3>2
      DEF Maps, SL!Next, SL!GiveUp, SL!Moves, SL!Keeps, SL!Says
  <2>6. CASE why \notin NoConnection
    <3>1. Lifecycle = "finishing"
      BY <1>0, <2>1, <2>6 DEF PhaseInv, PhaseOf, ReadSteps
    <3>2. kind \in SL!Answers \ {"none"}
      BY <2>2 DEF Answers, SL!Answers
    <3>3. QED
      BY <2>1, <2>4, <3>1, <3>2
      DEF Maps, SL!Next, SL!Finish, SL!Moves, SL!Keeps, SL!Says
  <2>7. QED
    BY <2>5, <2>6
<1>6. QED
  BY <1>1, <1>2, <1>3, <1>4, <1>5

\* CloseBrokerSessionNow finds the session open or finds none, and ends the
\* generation in either case.
LEMMA CloseMaps ==
  ASSUME Inv, Inv', NEW c \in Callers, CloseSession(c)
  PROVE  Maps
<1>1. PhaseInv /\ PhaseInv' /\ g \in Globals
  BY PhaseFacts, PhaseFactsPrimed DEF Inv, TypeOK, SessionTypeOK
<1>2. lock = Nobody /\ lock' = Nobody /\ UNCHANGED <<created, response>>
  BY DEF CloseSession
<1>3. ~session'.connected /\ g' = EndedFlags
  BY <1>1, CloseEnds DEF CloseSession, NoSession
<1>4. Lifecycle \in {"none", "live"} /\ Lifecycle' = "none"
  BY <1>1, <1>2, <1>3 DEF PhaseInv
<1>5. g'.generation = g.generation + 1
  BY <1>1, <1>3, EndedFacts
<1>6. QED
  BY <1>2, <1>4, <1>5 DEF Maps, SL!Next, SL!Close, SL!Ends, SL!Silent

\* What SetUsageScenario does after its close may end one more generation.
LEMMA FinishCloseMaps ==
  ASSUME Inv, NEW c \in Callers, FinishClose(c)
  PROVE  Maps
<1>1. /\ TypeOK /\ g \in Globals /\ UNCHANGED <<session, created, why, response>>
      /\ pc[c] \notin {"recover", "reap"} /\ Goto(c, "idle")
  BY DEF Inv, TypeOK, SessionTypeOK, FinishClose, sessionVars, locals
<1>2. Lifecycle' = Lifecycle
  BY <1>1, PhaseStays
<1>3. CASE g' = ArmForceNextAutoSubmit(g)
  <2>1. g'.generation = g.generation
    BY <1>1, <1>3 DEF ArmForceNextAutoSubmit, Globals
  <2>2. QED
    BY <1>1, <1>2, <2>1, StutterMaps
<1>4. CASE \/ g' = EndedFlags
           \/ g' = SetBrokerAwaitingFinal(
                     SetBrokerSessionActive(ResetForceNextAutoSubmit(g), FALSE), FALSE)
  <2>1. ResetForceNextAutoSubmit(g) \in Globals
        /\ ResetForceNextAutoSubmit(g).generation = g.generation
    BY <1>1, FlagFacts
  <2>2. /\ SetBrokerSessionActive(ResetForceNextAutoSubmit(g), FALSE) \in Globals
        /\ SetBrokerSessionActive(ResetForceNextAutoSubmit(g), FALSE).generation
             = g.generation + 1
    BY <2>1, ActiveFacts
  <2>3. g'.generation = g.generation + 1
    BY <1>1, <1>4, <2>2, EndedFacts, FlagFacts
  <2>4. QED
    BY <1>1, <1>2, <2>3 DEF Maps, SL!Next, SL!Outdate, SL!Ends, SL!Silent
<1>5. QED
  BY <1>3, <1>4 DEF FinishClose

\* The calls, the lock and the automatic submission leave the session as it is.
LEMMA CallMaps ==
  ASSUME Inv, NEW c \in Callers,
         CallStep(c) \/ LockSession(c) \/ DecideAutoSubmit(c)
  PROVE  Maps
<1>1. TypeOK /\ g \in Globals
  BY DEF Inv, TypeOK, SessionTypeOK
<1>2. UNCHANGED <<session, created, why>>
  BY DEF CallStep, GetSerialization, SetSelected, SetDeselected,
         SetUsageScenarioLogon, SetUsageScenarioOther, EnumerateTiles, Advise,
         UnAdvise, ReportResult, LockSession, DecideAutoSubmit, sessionVars, locals
<1>3. \/ UNCHANGED pc
      \/ \E step : /\ pc[c] \notin {"recover", "reap"}
                   /\ step \notin {"recover", "reap"}
                   /\ Goto(c, step)
  BY DEF CallStep, GetSerialization, SetSelected, SetDeselected,
         SetUsageScenarioLogon, SetUsageScenarioOther, EnumerateTiles, Advise,
         UnAdvise, ReportResult, LockSession, DecideAutoSubmit
<1>4. Lifecycle' = Lifecycle
  BY <1>1, <1>2, <1>3, PhaseStays
<1>5. \/ g' = g \/ g' = ResetForceNextAutoSubmit(g)
      \/ g' = MarkAutoSubmitTickNow(g)
      \/ g' = MarkAutoSubmitTickNow(ConsumeForceNextAutoSubmit(g))
  BY DEF CallStep, GetSerialization, SetSelected, SetDeselected,
         SetUsageScenarioLogon, SetUsageScenarioOther, EnumerateTiles, Advise,
         UnAdvise, ReportResult, LockSession, DecideAutoSubmit,
         TryAcquireAutoSubmitWindow
<1>6. g'.generation = g.generation
  BY <1>1, <1>5 DEF Globals, ResetForceNextAutoSubmit, MarkAutoSubmitTickNow,
                    ConsumeForceNextAutoSubmit
<1>7. CASE response' = response
  BY <1>2, <1>4, <1>6, <1>7, StutterMaps
<1>8. CASE response.kind = "credential" /\ response' = NoAnswer
  <2>1. response'.kind = "none"
    BY <1>8 DEF NoAnswer
  <2>2. QED
    BY <1>2, <1>4, <1>6, <1>8, <2>1
    DEF Maps, SL!Next, SL!Report, SL!Keeps, SL!Says
<1>9. QED
  BY <1>7, <1>8
  DEF CallStep, GetSerialization, SetSelected, SetDeselected,
      SetUsageScenarioLogon, SetUsageScenarioOther, EnumerateTiles, Advise,
      UnAdvise, ReportResult, LockSession, DecideAutoSubmit

LEMMA NextMaps == Inv /\ Inv' /\ ReasonInv /\ [Next]_vars => Maps
<1> SUFFICES ASSUME Inv, Inv', ReasonInv, [Next]_vars PROVE Maps
  OBVIOUS
<1>1. ASSUME NEW c \in Callers, CallStep(c) \/ MethodStep(c) PROVE Maps
  <2>1. CASE GetSerializationStep(c)
    BY <2>1, OpeningMaps, ReadingMaps, AnsweringMaps DEF GetSerializationStep
  <2>2. QED
    BY <1>1, <2>1, CallMaps, CloseMaps, FinishCloseMaps DEF MethodStep
<1>2. CASE RefreshStep \/ (\E b \in Launches : BrokerStep(b)) \/ UNCHANGED vars
  <2>1. UNCHANGED <<g, session, created, why, pc, response>> /\ TypeOK
    BY <1>2 DEF RefreshStep, BrokerStep, Broker, vars, sessionVars, locals, Inv
  <2>2. QED
    BY <2>1, PhaseStays, StutterMaps
<1>3. QED
  BY <1>1, <1>2 DEF Next

LEMMA InitMaps == Init => SL!Init
<1> SUFFICES ASSUME Init PROVE SL!Init
  OBVIOUS
<1>1. ~At({"recover"}) /\ ~At({"reap"})
  BY DEF Init, At
<1>2. Lifecycle = "none"
  BY <1>1 DEF Init, SessionInit, NoSession, Lifecycle
<1>3. QED
  BY <1>2 DEF Init, SessionInit, InitialGlobals, NoAnswer, SL!Init

\* ImplementsLifecycle: with the threads, the lock, the handles, the broker and
\* its messages hidden, what the provider does with its session is what
\* SessionLifecycle says, on any number of threads and with any call failing.
THEOREM SessionsFollowTheLifecycle == Spec => ImplementsLifecycle
<1>1. Spec => [](Inv /\ ReasonInv)
  BY InitInv, NextInv, InitReason, ReasonNext, PTL DEF Spec
<1>2. Spec => [][SL!Next]_(SL!vars)
  BY <1>1, NextMaps, PTL DEF Spec, Maps
<1>3. QED
  BY <1>2, InitMaps, PTL DEF Spec, ImplementsLifecycle, SL!Spec
=============================================================================
