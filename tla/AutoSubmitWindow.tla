-------------------------- MODULE AutoSubmitWindow --------------------------
(***************************************************************************)
(* SetSelected and the window that spaces automatic submissions, with the  *)
(* tick count of src/core/Provider.cpp at its width.  ProviderState leaves *)
(* the time to chance; here GetTickCount() is a clock that wraps, and a    *)
(* stored tick of 0 means that none is stored.                             *)
(*                                                                         *)
(* SetSelected runs on LogonUI's thread, the session may start, answer and *)
(* end on another one between any two of its interlocked operations.       *)
(***************************************************************************)
EXTENDS Integers

CONSTANTS
  Modulus,      \* 2^32: GetTickCount() wraps after 49.7 days
  MinInterval,  \* kMinSubmitIntervalMs, 2500
  MaxTime       \* bound on the clock

ASSUME WindowAssumption ==
  /\ Modulus \in Nat \ {0}
  /\ MinInterval \in 1 .. Modulus - 1
  /\ MaxTime \in Nat

VARIABLES
  now,       \* the time since the machine started
  tick,      \* g_brokerSessionAutoSubmitTick
  active, awaiting, force,   \* the flags of Provider.cpp
  pc,        \* where SetSelected is
  seen,      \* the flags it has read
  nowRead,   \* when it called GetTickCount()
  ending,    \* where SetBrokerSessionActive(false) is on the other thread
  marked,    \* history: when the tick was taken that was last stored
  reset,     \* history: the tick was cleared since
  outcome    \* history: the last decision of the window

vars == <<now, tick, active, awaiting, force, pc, seen, nowRead, ending,
          marked, reset, outcome>>

NoOutcome == [kind |-> "none", gap |-> 0, reset |-> TRUE, marked |-> 0]

TypeOK ==
  /\ now \in 0 .. MaxTime
  /\ tick \in 0 .. Modulus - 1
  /\ active \in BOOLEAN /\ awaiting \in BOOLEAN /\ force \in BOOLEAN
  /\ pc \in {"idle", "decide", "force", "clock", "window", "store", "mark"}
  /\ seen \in [active: BOOLEAN, awaiting: BOOLEAN]
  /\ nowRead \in 0 .. MaxTime
  /\ ending \in {"no", "awaiting", "tick"}
  /\ marked \in 0 .. MaxTime
  /\ reset \in BOOLEAN
  /\ outcome \in [kind: {"none", "granted", "denied"}, gap: Int,
                  reset: BOOLEAN, marked: 0 .. MaxTime]

Init ==
  /\ now \in 0 .. Modulus
  /\ tick = 0
  /\ active = FALSE /\ awaiting = FALSE /\ force = FALSE
  /\ pc = "idle"
  /\ seen = [active |-> FALSE, awaiting |-> FALSE]
  /\ nowRead = 0
  /\ ending = "no"
  /\ marked = 0
  /\ reset = TRUE
  /\ outcome = NoOutcome

GetTickCount(t) == t % Modulus

flags     == <<active, awaiting, force>>
selection == <<pc, seen, nowRead>>
history   == <<marked, reset, outcome>>

-----------------------------------------------------------------------------
(* SetSelected on a LOGON tile.                                             *)

ReadActive ==
  /\ pc = "idle"
  /\ seen' = [seen EXCEPT !.active = active]
  /\ pc' = "decide"
  /\ UNCHANGED <<now, tick, flags, nowRead, ending, history>>

\* An active session that awaits its final answer is polled at once.
ReadAwaiting ==
  /\ pc = "decide"
  /\ seen' = [seen EXCEPT !.awaiting = awaiting]
  /\ pc' = IF ~seen.active THEN "force" ELSE IF awaiting THEN "idle"
           ELSE "clock"
  /\ UNCHANGED <<now, tick, flags, nowRead, ending, history>>

ConsumeForceNextAutoSubmit ==
  /\ pc = "force"
  /\ pc' = IF force THEN "mark" ELSE "clock"
  /\ force' = FALSE
  /\ UNCHANGED <<now, tick, active, awaiting, seen, nowRead, ending, history>>

MarkAutoSubmitTickNow ==
  /\ pc = "mark"
  /\ tick' = GetTickCount(now)
  /\ marked' = now /\ reset' = FALSE
  /\ pc' = "idle"
  /\ UNCHANGED <<now, flags, seen, nowRead, ending, outcome>>

\* TryAcquireAutoSubmitWindow: nowTick, then lastTick, then the store.
ReadClock ==
  /\ pc = "clock"
  /\ nowRead' = now
  /\ pc' = "window"
  /\ UNCHANGED <<now, tick, flags, seen, ending, history>>

\* The subtraction is DWORD arithmetic.
Elapsed == (GetTickCount(nowRead) - tick) % Modulus

\* Mutant: the ticks are compared as if they did not wrap.
Grants_NoWrap == tick = 0 \/ GetTickCount(nowRead) >= tick + MinInterval

\* Mutant: the last tick is forgotten when the difference is one too small.
Grants_OffByOne == tick = 0 \/ Elapsed >= MinInterval - 1

Grants == tick = 0 \/ Elapsed >= MinInterval

ReadTick ==
  /\ pc = "window"
  /\ outcome' = [kind |-> IF Grants THEN "granted" ELSE "denied",
                 gap |-> nowRead - marked, reset |-> reset,
                 marked |-> marked]
  /\ pc' = IF Grants THEN "store" ELSE "idle"
  /\ UNCHANGED <<now, tick, flags, seen, nowRead, ending, marked, reset>>

StoreTick ==
  /\ pc = "store"
  /\ tick' = GetTickCount(nowRead)
  /\ marked' = nowRead /\ reset' = FALSE
  /\ pc' = "idle"
  /\ UNCHANGED <<now, flags, seen, nowRead, ending, outcome>>

-----------------------------------------------------------------------------
(* The session, on whichever thread runs it.                                *)

SessionStarts ==
  /\ ending = "no" /\ ~active
  /\ active' = TRUE
  /\ UNCHANGED <<now, tick, awaiting, force, selection, ending, history>>

\* AUTH_PENDING: SetBrokerAwaitingFinal(true).
SessionAwaits ==
  /\ ending = "no" /\ active
  /\ awaiting' = TRUE
  /\ tick' = 0 /\ reset' = TRUE
  /\ UNCHANGED <<now, active, force, selection, ending, marked, outcome>>

\* SetBrokerSessionActive(false), one exchange after the other.
SessionEnds ==
  /\ ending = "no" /\ active
  /\ active' = FALSE
  /\ ending' = "awaiting"
  /\ UNCHANGED <<now, tick, awaiting, force, selection, history>>

ClearAwaiting ==
  /\ ending = "awaiting"
  /\ awaiting' = FALSE
  /\ ending' = "tick"
  /\ UNCHANGED <<now, tick, active, force, selection, history>>

ClearTick ==
  /\ ending = "tick"
  /\ tick' = 0 /\ reset' = TRUE
  /\ ending' = "no"
  /\ UNCHANGED <<now, flags, selection, marked, outcome>>

ArmForceNextAutoSubmit ==
  /\ ~force
  /\ force' = TRUE
  /\ UNCHANGED <<now, tick, active, awaiting, selection, ending, history>>

TimePasses ==
  /\ now < MaxTime
  /\ now' = now + 1
  /\ UNCHANGED <<tick, flags, selection, ending, history>>

Next ==
  \/ ReadActive \/ ReadAwaiting \/ ConsumeForceNextAutoSubmit
  \/ MarkAutoSubmitTickNow \/ ReadClock \/ ReadTick \/ StoreTick
  \/ SessionStarts \/ SessionAwaits \/ SessionEnds \/ ClearAwaiting
  \/ ClearTick \/ ArmForceNextAutoSubmit \/ TimePasses

Spec == Init /\ [][Next]_vars

-----------------------------------------------------------------------------

(***************************************************************************)
(* The window never lets a submission through less than the interval after *)
(* the previous one unless the session cleared the tick in between, across *)
(* the wrap of the clock and whatever the session does meanwhile.  The one *)
(* exception is a submission taken at a tick of exactly 0, which is stored *)
(* as none: once in 49.7 days the window is open again at once.            *)
(***************************************************************************)
WindowThrottles ==
  outcome.kind = "granted" =>
    \/ outcome.reset
    \/ outcome.gap >= MinInterval
    \/ GetTickCount(outcome.marked) = 0

(***************************************************************************)
(* A submission is held back only less than the interval after another     *)
(* one, counted on the wrapping clock: a selection that comes 49.7 days    *)
(* later may be held back once more, never for longer than the interval.   *)
(***************************************************************************)
DenialIsRecent ==
  outcome.kind = "denied" => ~outcome.reset /\ outcome.gap % Modulus < MinInterval
=============================================================================
