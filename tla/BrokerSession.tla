---------------------------- MODULE BrokerSession ----------------------------
(***************************************************************************)
(* The broker session of src/broker/ProviderBrokerSession.cpp: the pipe    *)
(* and process handles the provider holds, the flags it keeps about them,  *)
(* and the two Windows objects behind the handles, one broker process and  *)
(* one message pipe per launch.                                            *)
(*                                                                         *)
(* MakePipeName gives every launch a pipe of its own, so one number names  *)
(* the launch, its pipe handle and its process handle; 0 is no handle      *)
(* (INVALID_HANDLE_VALUE, a zeroed PROCESS_INFORMATION).                   *)
(***************************************************************************)
EXTENDS ProviderState, Sequences

CONSTANTS
  MaxLaunch,       \* bound: how many times a pipe is created
  MaxQueue,        \* bound: messages the broker may have in the pipe
  BrokerMessages,  \* what the broker may send
  Faults           \* which Windows calls may fail

(***************************************************************************)
(* UNKNOWN is a well-formed message of another type; GARBAGE is one that   *)
(* ParseJsonLine rejects.                                                  *)
(***************************************************************************)
Messages == {"AUTH_PENDING", "AUTH_IDLE", "AUTH_SUCCESS", "AUTH_FAIL",
             "AUTH_FALLBACK", "UNKNOWN", "GARBAGE"}

AllFaults == {"pipe", "launch", "connect", "read", "timer", "pack", "reap"}

ASSUME SessionAssumption ==
  /\ MaxLaunch \in Nat
  /\ MaxQueue \in Nat
  /\ BrokerMessages \subseteq Messages
  /\ Faults \subseteq AllFaults

VARIABLES
  g,          \* the flags of Provider.cpp
  session,    \* g_session
  flow,       \* g_lastBrokerFlowState: 0 none, 1 pending, 2 idle
  openPipes,  \* pipe handles not closed yet
  openProcs,  \* process handles not closed yet
  created,    \* pipes created so far
  broker,     \* the broker processes
  client,     \* the broker's end of each pipe
  queue       \* messages written to each pipe and not read

sessionVars == <<session, flow, openPipes, openProcs, created>>
brokerVars  == <<broker, client, queue>>

NoHandle == 0
Launches == 1 .. MaxLaunch
Handles  == 0 .. MaxLaunch

NoSession == [hPipe |-> NoHandle, hProcess |-> NoHandle, connected |-> FALSE]

SessionTypeOK ==
  /\ g \in Globals
  /\ session \in [hPipe: Handles, hProcess: Handles, connected: BOOLEAN]
  /\ flow \in 0 .. 2
  /\ openPipes \subseteq Launches
  /\ openProcs \subseteq Launches
  /\ created \in Handles
  /\ broker \in [Launches -> {"unborn", "running", "exited"}]
  /\ client \in [Launches -> {"none", "open", "closed"}]
  /\ queue \in [Launches -> Seq(BrokerMessages)]

SessionInit ==
  /\ g = InitialGlobals
  /\ session = NoSession
  /\ flow = 0
  /\ openPipes = {}
  /\ openProcs = {}
  /\ created = 0
  /\ broker = [b \in Launches |-> "unborn"]
  /\ client = [b \in Launches |-> "none"]
  /\ queue = [b \in Launches |-> <<>>]

-----------------------------------------------------------------------------
(***************************************************************************)
(* The provider's side.                                                    *)
(***************************************************************************)

\* Mutant: the handle variable is reset and the handle stays open.
ClosePipeHandle_Leaks == UNCHANGED <<openPipes, queue>>

\* Closing the server end discards what was not read.
ClosePipeHandle ==
  IF session.hPipe = NoHandle
  THEN UNCHANGED <<openPipes, queue>>
  ELSE /\ openPipes' = openPipes \ {session.hPipe}
       /\ queue' = [queue EXCEPT ![session.hPipe] = <<>>]

\* Mutant: the handles are closed and the process is left running.
WaitAndCloseBrokerProcess_NoTerminate(b) ==
  /\ openProcs' = openProcs \ {b}
  /\ UNCHANGED <<broker, client>>

\* A process that has ended no longer holds its end of the pipe.
Ends(b) ==
  /\ broker' = [broker EXCEPT ![b] = "exited"]
  /\ client' = [client EXCEPT ![b] = IF @ = "open" THEN "closed" ELSE @]

(***************************************************************************)
(* Waits for the process, terminates it when it does not leave in time,    *)
(* and closes its handles.  When the wait or the termination itself fails  *)
(* the handles are closed all the same and the process lives on.           *)
(***************************************************************************)
WaitAndCloseBrokerProcess(b) ==
  IF b = NoHandle
  THEN UNCHANGED <<openProcs, broker, client>>
  ELSE /\ openProcs' = openProcs \ {b}
       /\ \/ Ends(b)
          \/ /\ "reap" \in Faults
             /\ UNCHANGED <<broker, client>>

\* Mutant: the handles are reset and the mark of the connection stays.
ResetBrokerSession_KeepsConnected(flags) ==
  /\ ClosePipeHandle
  /\ WaitAndCloseBrokerProcess(session.hProcess)
  /\ session' = [session EXCEPT !.hPipe = NoHandle, !.hProcess = NoHandle]
  /\ g' = flags
  /\ flow' = 0

\* Leaves the flags to the caller, who may change them further.
ResetBrokerSession(flags) ==
  /\ ClosePipeHandle
  /\ WaitAndCloseBrokerProcess(session.hProcess)
  /\ session' = NoSession
  /\ g' = flags
  /\ flow' = 0

EndedFlags == SetBrokerAwaitingFinal(SetBrokerSessionActive(g, FALSE), FALSE)

\* The critical section of CloseBrokerSessionNow; its lock is the caller's.
CloseBrokerSessionNow ==
  IF session = NoSession
  THEN /\ g' = EndedFlags
       /\ flow' = 0
       /\ UNCHANGED <<session, openPipes, openProcs, brokerVars>>
  ELSE ResetBrokerSession(EndedFlags)

-----------------------------------------------------------------------------
(***************************************************************************)
(* The broker's side (external): it connects to its pipe, writes messages, *)
(* may close its end or exit at any time.                                  *)
(***************************************************************************)

BrokerConnects(b) ==
  /\ broker[b] = "running"
  /\ client[b] = "none"
  /\ b \in openPipes
  /\ client' = [client EXCEPT ![b] = "open"]
  /\ UNCHANGED <<broker, queue>>

BrokerSends(b, m) ==
  /\ broker[b] = "running"
  /\ client[b] = "open"
  /\ b \in openPipes
  /\ Len(queue[b]) < MaxQueue
  /\ queue' = [queue EXCEPT ![b] = Append(@, m)]
  /\ UNCHANGED <<broker, client>>

BrokerDisconnects(b) ==
  /\ broker[b] = "running"
  /\ client[b] = "open"
  /\ client' = [client EXCEPT ![b] = "closed"]
  /\ UNCHANGED <<broker, queue>>

BrokerExits(b) ==
  /\ broker[b] = "running"
  /\ Ends(b)
  /\ UNCHANGED queue

Broker(b) ==
  /\ \/ BrokerConnects(b)
     \/ \E m \in BrokerMessages : BrokerSends(b, m)
     \/ BrokerDisconnects(b)
     \/ BrokerExits(b)
  /\ UNCHANGED <<g, sessionVars>>
=============================================================================
