------------------------- MODULE CredentialProvider -------------------------
(***************************************************************************)
(* The credential provider as LogonUI drives it: the COM methods of        *)
(* src/core/ProviderCore.cpp, the GetSerialization state machine of        *)
(* src/broker/ProviderSerialization.cpp with the pipe waits of             *)
(* ProviderPipeTransport.cpp, the refresh timer of Provider.cpp and the    *)
(* broker process.                                                         *)
(*                                                                         *)
(* A method is a sequence of steps of the thread that calls it, cut where  *)
(* another thread or the broker can act: at lock acquisitions, at waits,   *)
(* and between a flag's read and its use.                                  *)
(***************************************************************************)
EXTENDS BrokerSession, FiniteSets

CONSTANTS
  Callers,        \* threads on which LogonUI calls the provider
  Nobody,         \* the holder of a free lock
  MaxSlices,      \* read slices that fill the overall time of one read
  MaxGeneration,  \* bound: no SetUsageScenario once the generation is here
  UiEvents        \* what the user and LogonUI may do of their own accord

AllUiEvents == {"submit", "deselect", "scenario", "unadvise"}

ASSUME ProviderAssumption ==
  /\ Nobody \notin Callers
  /\ MaxSlices \in Nat \ {0}
  /\ MaxGeneration \in Nat
  /\ UiEvents \subseteq AllUiEvents

VARIABLES
  lock,      \* g_brokerSessionLock
  pc,        \* the step each caller is at
  pi,        \* failedPi or terminalPi of the GetSerialization in progress
  why,       \* the message it is handling, or the reason it failed
  slices,    \* read slices it has used up
  cpus,      \* testCPProvider::_cpus
  tile,      \* _cpus of the testCPCredential LogonUI holds, "none" without one
  selected,  \* the tile is selected
  submit,    \* SetSelected answered *pbAutoLogon = TRUE and LogonUI will submit
  response,  \* what the last GetSerialization answered
  refreshPending, refresh, advised, notified

RS == INSTANCE RefreshScheduler WITH generation <- g.generation

locals      == <<pi, why, slices>>
uiVars      == <<cpus, tile, selected, submit>>
refreshVars == <<refreshPending, refresh, advised, notified>>
vars        == <<g, sessionVars, brokerVars, lock, pc, locals, uiVars,
                 response, refreshVars>>

\* Steps of GetSerialization that hold the session lock.
LockedSteps == {"create", "launch", "connect", "read", "wait", "cancel",
                "check", "poll", "recover", "handle", "reap"}
OpenSteps   == {"idle", "acquire", "select_inactive", "select_active",
                "select_awaiting", "deselect_close", "deselect_arm",
                "logon_close", "logon_finish", "other_close", "other_finish"}

Reasons   == {"none", "pipe", "launch", "timeout", "exited", "failed",
              "poll", "recover"} \cup Messages
Kinds     == {"none", "not_finished", "finished", "credential"}
NoAnswer  == [kind |-> "none", why |-> "none"]

TypeOK ==
  /\ SessionTypeOK
  /\ lock \in Callers \cup {Nobody}
  /\ pc \in [Callers -> LockedSteps \cup OpenSteps]
  /\ pi \in Handles
  /\ why \in Reasons
  /\ slices \in 0 .. MaxSlices
  /\ cpus \in {"INVALID", "LOGON"}
  /\ tile \in {"none", "INVALID", "LOGON"}
  /\ selected \in BOOLEAN
  /\ submit \in BOOLEAN
  /\ response \in [kind: Kinds, why: Reasons]
  /\ RS!TypeOK

Init ==
  /\ SessionInit
  /\ lock = Nobody
  /\ pc = [c \in Callers |-> "idle"]
  /\ pi = NoHandle /\ why = "none" /\ slices = 0
  /\ cpus = "INVALID" /\ tile = "none" /\ selected = FALSE /\ submit = FALSE
  /\ response = NoAnswer
  /\ RS!Init

-----------------------------------------------------------------------------
(***************************************************************************)
(* Common parts of the methods.                                            *)
(***************************************************************************)

Goto(c, step) == pc' = [pc EXCEPT ![c] = step]

\* GetSerialization returns: the scoped lock is released.
Return(c, kind, reason) ==
  /\ lock' = Nobody
  /\ Goto(c, "idle")
  /\ pi' = NoHandle /\ why' = "none" /\ slices' = 0
  /\ response' = [kind |-> kind, why |-> reason]

RequestRefresh(owner) ==
  /\ RS!RequestCredentialsChangedAsync(g.generation, owner, "timer" \in Faults)
  /\ UNCHANGED <<advised, notified>>

\* The handles leave g_session; the process is dealt with through pi.
DetachSession(flags) ==
  /\ pi' = session.hProcess
  /\ ClosePipeHandle
  /\ session' = NoSession
  /\ g' = flags

NeedsBroker == session.hPipe = NoHandle \/ session.hProcess = NoHandle

-----------------------------------------------------------------------------
(***************************************************************************)
(* GetSerialization: opening the session.                                  *)
(***************************************************************************)

GetSerialization(c) ==
  /\ pc[c] = "idle"
  /\ selected
  /\ submit \/ "submit" \in UiEvents
  /\ NeedsBroker => created < MaxLaunch
  /\ submit' = FALSE
  /\ Goto(c, "acquire")
  /\ UNCHANGED <<g, sessionVars, brokerVars, lock, locals, cpus, tile,
                 selected, response, refreshVars>>

LockSession(c) ==
  /\ pc[c] = "acquire"
  /\ lock = Nobody
  /\ NeedsBroker => created < MaxLaunch
  /\ lock' = c
  /\ Goto(c, IF NeedsBroker THEN "create" ELSE "read")
  /\ UNCHANGED <<g, sessionVars, brokerVars, locals, uiVars, response,
                 refreshVars>>

CreateRestrictedPipeServer(c) ==
  /\ pc[c] = "create"
  /\ \/ /\ created < MaxLaunch
        /\ created' = created + 1
        /\ session' = [session EXCEPT !.hPipe = created + 1]
        /\ openPipes' = openPipes \cup {created + 1}
        /\ Goto(c, "launch")
        /\ UNCHANGED <<lock, locals, response>>
     \/ /\ "pipe" \in Faults
        /\ session' = [session EXCEPT !.hPipe = NoHandle]
        /\ Return(c, "not_finished", "pipe")
        /\ UNCHANGED <<openPipes, created>>
  /\ UNCHANGED <<g, flow, openProcs, brokerVars, uiVars, refreshVars>>

\* Mutant: a failed launch leaves the pipe in the session.
LaunchBroker_NoReset(c) ==
  /\ pc[c] = "launch"
  /\ \/ LET b == session.hPipe IN
        /\ broker' = [broker EXCEPT ![b] = "running"]
        /\ session' = [session EXCEPT !.hProcess = b]
        /\ openProcs' = openProcs \cup {b}
        /\ Goto(c, "connect")
        /\ UNCHANGED <<g, flow, openPipes, client, queue, lock, locals,
                       response>>
     \/ /\ "launch" \in Faults
        /\ Return(c, "not_finished", "launch")
        /\ UNCHANGED <<g, session, flow, openPipes, openProcs, brokerVars>>
  /\ UNCHANGED <<created, uiVars, refreshVars>>

LaunchBroker(c) ==
  /\ pc[c] = "launch"
  /\ \/ LET b == session.hPipe IN
        /\ broker' = [broker EXCEPT ![b] = "running"]
        /\ session' = [session EXCEPT !.hProcess = b]
        /\ openProcs' = openProcs \cup {b}
        /\ Goto(c, "connect")
        /\ UNCHANGED <<g, flow, openPipes, client, queue, lock, locals,
                       response>>
     \/ /\ "launch" \in Faults
        /\ ResetBrokerSession(SetBrokerSessionActive(g, FALSE))
        /\ Return(c, "not_finished", "launch")
  /\ UNCHANGED <<created, uiVars, refreshVars>>

(***************************************************************************)
(* WaitPipeClientConnect.  The pipe's event is looked at before the        *)
(* process, so a client that came counts even when its process has ended;  *)
(* one that came and left before ConnectNamedPipe makes that call fail.    *)
(***************************************************************************)
ConnectFailures(b) ==
     {r \in {"timeout"} : client[b] = "none" /\ broker[b] = "running"}
  \cup {r \in {"exited"} : client[b] = "none" /\ broker[b] = "exited"}
  \cup {r \in {"failed"} : client[b] = "closed" \/ "connect" \in Faults}

ConnectSucceeds(c) ==
  /\ pc[c] = "connect"
  /\ client[session.hPipe] # "none"
  /\ session' = [session EXCEPT !.connected = TRUE]
  /\ g' = SetBrokerAwaitingFinal(SetBrokerSessionActive(g, TRUE), FALSE)
  /\ flow' = 0
  /\ Goto(c, "read")
  /\ UNCHANGED <<openPipes, openProcs, created, brokerVars, lock, locals,
                 uiVars, response, refreshVars>>

ConnectFails(c) ==
  /\ pc[c] = "connect"
  /\ why' \in ConnectFailures(session.hPipe)
  /\ DetachSession(SetBrokerSessionActive(g, FALSE))
  /\ Goto(c, "reap")
  /\ UNCHANGED <<flow, openProcs, created, broker, client, lock, slices,
                 uiVars, response, refreshVars>>

-----------------------------------------------------------------------------
(***************************************************************************)
(* GetSerialization: ReadPipeMessageUntilDone.                             *)
(***************************************************************************)

Unread   == queue[session.hPipe] # <<>>
PipeEnds == client[session.hPipe] = "closed" \/ broker[session.hProcess] = "exited"

TakeMessage(c) ==
  /\ Unread
  /\ why' = Head(queue[session.hPipe])
  /\ queue' = [queue EXCEPT ![session.hPipe] = Tail(@)]
  /\ Goto(c, "handle")
  /\ UNCHANGED <<g, sessionVars, broker, client, pi>>

\* BrokerExited or Failed: the session is given up and recovery follows.
LoseBroker(c) ==
  /\ DetachSession(EndedFlags)
  /\ flow' = 0
  /\ Goto(c, "recover")
  /\ UNCHANGED <<openProcs, created, broker, client, why>>

\* ReadFile completes, fails, or stays pending.
ReadPipe(c) ==
  /\ pc[c] = "read"
  /\ \/ TakeMessage(c)
     \/ /\ (~Unread /\ client[session.hPipe] = "closed") \/ "read" \in Faults
        /\ LoseBroker(c)
     \/ /\ ~Unread /\ client[session.hPipe] # "closed"
        /\ Goto(c, "wait")
        /\ UNCHANGED <<g, sessionVars, brokerVars, pi, why>>
  /\ UNCHANGED <<lock, slices, uiVars, response, refreshVars>>

\* WaitForMultipleObjects on the pending read and the process.
WaitRead(c) ==
  /\ pc[c] = "wait"
  /\ \/ TakeMessage(c)
     \/ /\ (~Unread /\ PipeEnds) \/ "read" \in Faults
        /\ LoseBroker(c)
     \/ /\ ~Unread /\ ~PipeEnds
        /\ Goto(c, "cancel")
        /\ UNCHANGED <<g, sessionVars, brokerVars, pi, why>>
  /\ UNCHANGED <<lock, slices, uiVars, response, refreshVars>>

(***************************************************************************)
(* The slice timed out.  CancelIoEx does not say whether the read had      *)
(* already completed, and the buffer is wiped either way: a message that   *)
(* arrived between the timeout and the cancellation is gone.               *)
(***************************************************************************)
CancelRead(c) ==
  /\ pc[c] = "cancel"
  /\ queue' = IF Unread THEN [queue EXCEPT ![session.hPipe] = Tail(@)] ELSE queue
  /\ slices' = slices + 1
  /\ Goto(c, "check")
  /\ UNCHANGED <<g, sessionVars, broker, client, lock, pi, why, uiVars,
                 response, refreshVars>>

\* Mutants: the overall time is never looked at; the count of the slices is
\* dropped with it in the second.
CheckElapsed_NoOverall(c) ==
  /\ pc[c] = "check"
  /\ broker[session.hProcess] = "running"
  /\ Goto(c, "read")
  /\ UNCHANGED <<g, sessionVars, brokerVars, lock, locals, uiVars, response,
                 refreshVars>>

CheckElapsed_Forever(c) ==
  /\ pc[c] = "check"
  /\ broker[session.hProcess] = "running"
  /\ Goto(c, "read")
  /\ slices' = 0
  /\ UNCHANGED <<g, sessionVars, brokerVars, lock, pi, why, uiVars, response,
                 refreshVars>>

\* After a slice: the process is looked at, then the overall time, which is
\* over when every slice is used and may be over before on a slow machine.
CheckElapsed(c) ==
  /\ pc[c] = "check"
  /\ broker[session.hProcess] = "running"
  /\ \/ slices < MaxSlices /\ Goto(c, "read")
     \/ Goto(c, "poll")
  /\ UNCHANGED <<g, sessionVars, brokerVars, lock, locals, uiVars, response,
                 refreshVars>>

CheckExited(c) ==
  /\ pc[c] = "check"
  /\ broker[session.hProcess] = "exited"
  /\ LoseBroker(c)
  /\ UNCHANGED <<lock, slices, uiVars, response, refreshVars>>

-----------------------------------------------------------------------------
(***************************************************************************)
(* GetSerialization: its answers.                                          *)
(***************************************************************************)

\* The read timed out: the session stays and LogonUI will be asked again.
PollAgain(c) ==
  /\ pc[c] = "poll"
  /\ RequestRefresh(session.hProcess)
  /\ Return(c, "not_finished", "poll")
  /\ UNCHANGED <<g, sessionVars, brokerVars, uiVars>>

RecoverBroker(c) ==
  /\ pc[c] = "recover"
  /\ WaitAndCloseBrokerProcess(pi)
  /\ g' = ArmForceNextAutoSubmit(g)
  /\ RequestRefresh(NoHandle)
  /\ Return(c, "not_finished", "recover")
  /\ UNCHANGED <<session, flow, openPipes, created, queue, uiVars>>

\* ParseJsonLine fails.
HandleParseFailure(c) ==
  /\ pc[c] = "handle" /\ why = "GARBAGE"
  /\ ResetBrokerSession(EndedFlags)
  /\ Return(c, "not_finished", why)
  /\ UNCHANGED <<created, uiVars, refreshVars>>

HandleProgress(c) ==
  /\ pc[c] = "handle" /\ why \in {"AUTH_PENDING", "AUTH_IDLE"}
  /\ g' = SetBrokerAwaitingFinal(g, why = "AUTH_PENDING")
  /\ flow' = IF why = "AUTH_PENDING" THEN 1 ELSE 2
  /\ RequestRefresh(session.hProcess)
  /\ Return(c, "not_finished", why)
  /\ UNCHANGED <<session, openPipes, openProcs, created, brokerVars, uiVars>>

\* Mutants: the finished session still counts as active, and its generation is
\* not ended; its flow state is kept.
HandleTerminal_KeepsActive(c) ==
  /\ pc[c] = "handle"
  /\ why \notin {"GARBAGE", "AUTH_PENDING", "AUTH_IDLE"}
  /\ DetachSession(SetBrokerAwaitingFinal(g, FALSE))
  /\ flow' = 0
  /\ Goto(c, "reap")
  /\ UNCHANGED <<openProcs, created, broker, client, lock, why, slices,
                 uiVars, response, refreshVars>>

HandleTerminal_KeepsFlow(c) ==
  /\ pc[c] = "handle"
  /\ why \notin {"GARBAGE", "AUTH_PENDING", "AUTH_IDLE"}
  /\ DetachSession(EndedFlags)
  /\ Goto(c, "reap")
  /\ UNCHANGED <<flow, openProcs, created, broker, client, lock, why, slices,
                 uiVars, response, refreshVars>>

\* Every other message ends the session, whatever its type.
HandleTerminal(c) ==
  /\ pc[c] = "handle"
  /\ why \notin {"GARBAGE", "AUTH_PENDING", "AUTH_IDLE"}
  /\ DetachSession(EndedFlags)
  /\ flow' = 0
  /\ Goto(c, "reap")
  /\ UNCHANGED <<openProcs, created, broker, client, lock, why, slices,
                 uiVars, response, refreshVars>>

\* HandleParsedBrokerMessage and the failed connection.
Answers(reason) ==
  IF reason = "AUTH_SUCCESS"
  THEN {"credential"} \cup {k \in {"not_finished"} : "pack" \in Faults}
  ELSE IF reason = "AUTH_FALLBACK" THEN {"finished"} ELSE {"not_finished"}

ReapAndAnswer(c) ==
  /\ pc[c] = "reap"
  /\ WaitAndCloseBrokerProcess(pi)
  /\ \E kind \in Answers(why) : Return(c, kind, why)
  /\ UNCHANGED <<g, session, flow, openPipes, created, queue, uiVars,
                 refreshVars>>

GetSerializationStep(c) ==
  \/ CreateRestrictedPipeServer(c) \/ LaunchBroker(c)
  \/ ConnectSucceeds(c) \/ ConnectFails(c)
  \/ ReadPipe(c) \/ WaitRead(c) \/ CancelRead(c)
  \/ CheckElapsed(c) \/ CheckExited(c)
  \/ PollAgain(c) \/ RecoverBroker(c)
  \/ HandleParseFailure(c) \/ HandleProgress(c) \/ HandleTerminal(c)
  \/ ReapAndAnswer(c)

-----------------------------------------------------------------------------
(***************************************************************************)
(* Selecting the tile.                                                     *)
(***************************************************************************)

\* The two flags are read here and acted upon in the next step.
SetSelected(c) ==
  /\ pc[c] = "idle"
  /\ tile # "none" /\ ~selected
  /\ selected' = TRUE
  /\ IF tile # "LOGON" THEN UNCHANGED pc
     ELSE Goto(c, IF ~g.active THEN "select_inactive"
                  ELSE IF g.awaiting THEN "select_awaiting"
                  ELSE "select_active")
  /\ UNCHANGED <<g, sessionVars, brokerVars, lock, locals, cpus, tile, submit,
                 response, refreshVars>>

DecideAutoSubmit(c) ==
  /\ \/ /\ pc[c] = "select_awaiting"
        /\ submit' = TRUE
        /\ UNCHANGED g
     \/ /\ pc[c] = "select_inactive" /\ ConsumesForce(g)
        /\ submit' = TRUE
        /\ g' = MarkAutoSubmitTickNow(ConsumeForceNextAutoSubmit(g))
     \/ /\ \/ pc[c] = "select_active"
           \/ pc[c] = "select_inactive" /\ ~ConsumesForce(g)
        /\ \E elapsed \in BOOLEAN :
              /\ submit' = GrantsWindow(g, elapsed)
              /\ g' = TryAcquireAutoSubmitWindow(g, elapsed)
  /\ Goto(c, "idle")
  /\ UNCHANGED <<sessionVars, brokerVars, lock, locals, cpus, tile, selected,
                 response, refreshVars>>

SetDeselected(c) ==
  /\ "deselect" \in UiEvents
  /\ pc[c] = "idle"
  /\ selected
  /\ selected' = FALSE /\ submit' = FALSE
  /\ IF tile = "LOGON" /\ g.active THEN Goto(c, "deselect_close")
                                   ELSE UNCHANGED pc
  /\ UNCHANGED <<g, sessionVars, brokerVars, lock, locals, cpus, tile,
                 response, refreshVars>>

-----------------------------------------------------------------------------
(***************************************************************************)
(* Closing the session from the outside: CloseBrokerSessionNow waits for   *)
(* the lock, and what its caller does next is a step of its own.           *)
(***************************************************************************)

CloseSession(c) ==
  /\ \E from \in {"deselect_close", "logon_close", "other_close"} :
       /\ pc[c] = from
       /\ Goto(c, CASE from = "deselect_close" -> "deselect_arm"
                    [] from = "logon_close"    -> "logon_finish"
                    [] from = "other_close"    -> "other_finish")
  /\ lock = Nobody
  /\ CloseBrokerSessionNow
  /\ UNCHANGED <<created, lock, locals, uiVars, response, refreshVars>>

\* Mutant: leaving the LOGON scenario arms the next submission like a deselect.
FinishClose_AlwaysArms(c) ==
  /\ g' = ArmForceNextAutoSubmit(g)
  /\ pc[c] \in {"deselect_arm", "logon_finish", "other_finish"}
  /\ Goto(c, "idle")
  /\ UNCHANGED <<sessionVars, brokerVars, lock, locals, uiVars, response,
                 refreshVars>>

FinishClose(c) ==
  /\ \/ pc[c] = "deselect_arm" /\ g' = ArmForceNextAutoSubmit(g)
     \/ pc[c] = "logon_finish"
        /\ g' = SetBrokerAwaitingFinal(
                  SetBrokerSessionActive(ResetForceNextAutoSubmit(g), FALSE), FALSE)
     \/ pc[c] = "other_finish" /\ g' = EndedFlags
  /\ Goto(c, "idle")
  /\ UNCHANGED <<sessionVars, brokerVars, lock, locals, uiVars, response,
                 refreshVars>>

(***************************************************************************)
(* SetUsageScenario.  LogonUI calls it on a provider without a tile, and   *)
(* drops the tiles it had.                                                 *)
(***************************************************************************)
ScenarioMayChange == cpus = "INVALID" \/ "scenario" \in UiEvents

DropTile == tile' = "none" /\ selected' = FALSE /\ submit' = FALSE

SetUsageScenarioLogon(c) ==
  /\ pc[c] = "idle"
  /\ ScenarioMayChange
  /\ g.generation < MaxGeneration
  /\ cpus' = "LOGON"
  /\ DropTile
  /\ IF g.active THEN UNCHANGED pc ELSE Goto(c, "logon_close")
  /\ UNCHANGED <<g, sessionVars, brokerVars, lock, locals, response,
                 refreshVars>>

SetUsageScenarioOther(c) ==
  /\ pc[c] = "idle"
  /\ "scenario" \in UiEvents
  /\ g.generation < MaxGeneration
  /\ cpus' = "INVALID"
  /\ DropTile
  /\ g' = ResetForceNextAutoSubmit(g)
  /\ Goto(c, "other_close")
  /\ UNCHANGED <<sessionVars, brokerVars, lock, locals, response, refreshVars>>

-----------------------------------------------------------------------------
(***************************************************************************)
(* Enumeration, events, results.                                           *)
(***************************************************************************)

\* GetCredentialCount offers one tile in the LOGON scenario and none outside
\* it; GetCredentialAt makes the tile with the provider's scenario.  LogonUI
\* asks for tiles once it has advised, at first and after CredentialsChanged.
EnumerateTiles(c) ==
  /\ pc[c] = "idle"
  /\ advised
  /\ notified \/ (tile = "none" /\ cpus = "LOGON")
  /\ tile' = IF cpus = "LOGON" THEN cpus ELSE "none"
  /\ selected' = FALSE /\ submit' = FALSE
  /\ notified' = FALSE
  /\ UNCHANGED <<g, sessionVars, brokerVars, lock, pc, locals, cpus, response,
                 refreshPending, refresh, advised>>

Advise(c) ==
  /\ pc[c] = "idle" /\ ~advised
  /\ RS!SetProviderEvents
  /\ UNCHANGED <<g, sessionVars, brokerVars, lock, pc, locals, uiVars, response,
                 refreshPending, refresh, notified>>

UnAdvise(c) ==
  /\ "unadvise" \in UiEvents
  /\ pc[c] = "idle" /\ advised
  /\ RS!ClearProviderEvents
  /\ UNCHANGED <<g, sessionVars, brokerVars, lock, pc, locals, uiVars, response,
                 refreshPending, refresh, notified>>

\* LSA refused the credential: the method only words the status.
ReportResult(c) ==
  /\ pc[c] = "idle"
  /\ response.kind = "credential"
  /\ response' = NoAnswer
  /\ UNCHANGED <<g, sessionVars, brokerVars, lock, pc, locals, uiVars,
                 refreshVars>>

CallStep(c) ==
  \/ GetSerialization(c) \/ SetSelected(c) \/ SetDeselected(c)
  \/ SetUsageScenarioLogon(c) \/ SetUsageScenarioOther(c)
  \/ EnumerateTiles(c) \/ Advise(c) \/ UnAdvise(c) \/ ReportResult(c)

MethodStep(c) ==
  \/ LockSession(c) \/ GetSerializationStep(c) \/ DecideAutoSubmit(c)
  \/ CloseSession(c) \/ FinishClose(c)

RefreshStep ==
  /\ RS!Callback
  /\ UNCHANGED <<g, sessionVars, brokerVars, lock, pc, locals, uiVars, response,
                 advised>>

BrokerStep(b) ==
  /\ Broker(b)
  /\ UNCHANGED <<lock, pc, locals, uiVars, response, refreshVars>>

Next ==
  \/ \E c \in Callers : CallStep(c) \/ MethodStep(c)
  \/ RefreshStep
  \/ \E b \in Launches : BrokerStep(b)

Spec == Init /\ [][Next]_vars

(***************************************************************************)
(* A thread inside the provider runs on.  Nothing is assumed of the timer, *)
(* the broker or LogonUI.                                                  *)
(***************************************************************************)
FairSpec ==
  /\ Spec
  /\ \A c \in Callers : WF_vars(MethodStep(c))

-----------------------------------------------------------------------------
(***************************************************************************)
(* What makes the provider correct on any number of threads.               *)
(***************************************************************************)

\* Between two holders of the lock the session is all there or not at all:
\* GetSerialization tests two of its fields, CloseBrokerSessionNow all four.
\* The flag SetSelected and SetDeselected trust never outlives the session.
SessionCoherent ==
  /\ lock = Nobody => /\ session.hPipe = session.hProcess
                      /\ session.connected <=> session.hPipe # NoHandle
  /\ g.active => session.connected

\* No handle is leaked and none is closed twice: the open pipe is the
\* session's, an open process handle is the session's or a local of the
\* GetSerialization that is putting its broker away.
HandlesBalanced ==
  /\ openPipes = {session.hPipe} \ {NoHandle}
  /\ openProcs = {session.hProcess, pi} \ {NoHandle}

\* No broker runs that the provider has lost sight of, on any path of
\* GetSerialization or of a close, unless Windows refuses to end it.
NoOrphanBroker ==
  "reap" \in Faults \/ \A b \in Launches :
     broker[b] = "running" => b \in {session.hProcess, pi}

\* A timer the callback would honour was set for the session that is open:
\* a session cannot end, by any method, and leave its timer valid for the next.
GenerationNamesSession ==
  refresh.pc = "armed" /\ refresh.gen = g.generation /\ refresh.owner # NoHandle
    => session.hProcess = refresh.owner

(***************************************************************************)
(* What makes it correct in the apartment it is registered for, where      *)
(* LogonUI calls it on one thread.                                         *)
(***************************************************************************)

AllIdle == \A c \in Callers : pc[c] = "idle"

\* Between two calls the flags other files keep about the session tell the
\* truth: active means connected, and the two records of a pending answer
\* (g_brokerAwaitingFinal, g_lastBrokerFlowState) agree.
FlagsMatchSession ==
  AllIdle => /\ g.active <=> session.connected
             /\ g.awaiting => g.active
             /\ g.awaiting <=> flow = 1
             /\ flow # 0 => g.active

\* Outside the LOGON scenario the provider keeps no broker and no request to
\* submit: neither survives SetUsageScenario, whatever went before.
ScenarioGate ==
  AllIdle /\ cpus # "LOGON" => session = NoSession /\ ~g.active /\ ~g.force

\* What GetSerialization answers decides what becomes of the session: only
\* "poll", AUTH_PENDING and AUTH_IDLE leave it as it was, every other answer,
\* a failure half way through included, leaves none.
AnswerDecidesSession ==
  [][lock # Nobody /\ lock' = Nobody =>
       IF response'.why \in {"poll", "AUTH_PENDING", "AUTH_IDLE"}
       THEN session'.connected /\ session' = session
       ELSE session' = NoSession]_vars

(***************************************************************************)
(* What GetSerialization promises: the session as SessionLifecycle has it. *)
(***************************************************************************)

At(steps) == \E c \in Callers : pc[c] \in steps

\* The reasons of a connection that failed; every other reason to put a broker
\* away is the message it sent last.
NoConnection == {"timeout", "exited", "failed"}

Lifecycle ==
  IF At({"recover"}) \/ (At({"reap"}) /\ why \in NoConnection) THEN "failing"
  ELSE IF At({"reap"}) THEN "finishing"
  ELSE IF session.connected THEN "live"
  ELSE IF session.hPipe # NoHandle THEN "starting" ELSE "none"

SL == INSTANCE SessionLifecycle
        WITH state <- Lifecycle, launch <- created,
             generation <- g.generation, answer <- response.kind

\* The provider's sessions are those of SessionLifecycle: none is launched or
\* connected while another lives, every one ends by one new generation on each
\* of its failure paths, and LogonUI gets a credential or a final refusal only
\* from a connected session that has been put away.
ImplementsLifecycle == SL!Spec

(***************************************************************************)
(* How long a method is.                                                   *)
(***************************************************************************)

\* A bound on the steps that remain of the method a thread is in: four to each
\* slice of the read that is left, and those before and after the read.
StepsLeft(c) ==
  LET step  == pc[c]
      reads == 4 * (MaxSlices - slices)
  IN  IF step = "idle" THEN 0
      ELSE IF step = "acquire" THEN 4 * MaxSlices + 8
      ELSE IF step = "create"  THEN 4 * MaxSlices + 7
      ELSE IF step = "launch"  THEN 4 * MaxSlices + 6
      ELSE IF step = "connect" THEN 4 * MaxSlices + 5
      ELSE IF step = "check"   THEN reads + 5
      ELSE IF step = "read"    THEN reads + 4
      ELSE IF step = "wait"    THEN reads + 3
      ELSE IF step = "cancel"  THEN reads + 2
      ELSE IF step \in {"handle", "deselect_close", "logon_close", "other_close"}
        THEN 2
      ELSE 1

\* A method ends within 4 * MaxSlices + 8 steps of its thread, waits for the
\* lock apart: no retry and no message of the broker gives it back a slice it
\* has used, and nothing another thread does makes it longer.
MethodsShorten ==
  [][\A c \in Callers : pc[c] # "idle" =>
       IF pc'[c] = pc[c] THEN StepsLeft(c)' = StepsLeft(c)
                         ELSE StepsLeft(c)' \in 0 .. StepsLeft(c) - 1]_vars

(***************************************************************************)
(* What must happen.                                                       *)
(***************************************************************************)

\* Every method LogonUI calls on its one thread returns, however the broker
\* behaves: silent, chatty, disconnecting or dying at any moment.
MethodsReturn ==
  \A c \in Callers : pc[c] # "idle" ~> pc[c] = "idle"
=============================================================================
