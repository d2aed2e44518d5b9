-------------------------- MODULE AutoSubmitProofs --------------------------
(***************************************************************************)
(* Proofs about AutoSubmitWindow: for a clock of any width, an interval of *)
(* any length that fits in it and any time that passes.                    *)
(***************************************************************************)
EXTENDS AutoSubmitWindow, TLAPS

-----------------------------------------------------------------------------
(* Arithmetic of a clock that wraps.                                        *)

LEMMA Division ==
  ASSUME NEW n \in Nat \ {0}, NEW x \in Int
  PROVE  \E q \in Int, r \in 0 .. n - 1 : x = n * q + r /\ x % n = r
<1>1. x = n * (x \div n) + (x % n) /\ x \div n \in Int /\ x % n \in 0 .. n - 1
  OBVIOUS
<1>2. QED
  BY <1>1

\* A multiple of the modulus that is smaller than it is 0.
LEMMA SmallMultiple ==
  ASSUME NEW n \in Nat \ {0}, NEW q \in Int, n * q < n, -n < n * q
  PROVE  q = 0
<1>1. CASE q >= 1
  <2>1. n * q >= n * 1
    BY <1>1
  <2>2. QED
    BY <2>1
<1>2. CASE q <= -1
  <2>1. n * q <= n * (-1)
    BY <1>2
  <2>2. QED
    BY <2>1
<1>. QED
  BY <1>1, <1>2

LEMMA Remainder ==
  ASSUME NEW n \in Nat \ {0}, NEW x \in Int, NEW q \in Int, NEW r \in 0 .. n - 1,
         x = n * q + r
  PROVE  x % n = r
<1>1. PICK p \in Int, s \in 0 .. n - 1 : x = n * p + s /\ x % n = s
  BY Division
<1>2. n * (q - p) = n * q - n * p
  OBVIOUS
<1>3. n * (q - p) = s - r
  BY <1>1, <1>2
<1>4. -n < s - r /\ s - r < n
  OBVIOUS
<1>5. q - p = 0
  BY <1>3, <1>4, SmallMultiple
<1>6. n * q = n * p
  BY <1>5
<1>7. QED
  BY <1>1, <1>6

\* DWORD subtraction of two times gives the time between them, wrapped.
LEMMA Difference ==
  ASSUME NEW n \in Nat \ {0}, NEW a \in Nat, NEW b \in Nat
  PROVE  ((a % n) - (b % n)) % n = (a - b) % n
<1>a. a \in Int /\ b \in Int
  OBVIOUS
<1>1. PICK p \in Int, s \in 0 .. n - 1 : a = n * p + s /\ a % n = s
  BY <1>a, Division
<1>2. PICK q \in Int, t \in 0 .. n - 1 : b = n * q + t /\ b % n = t
  BY <1>a, Division
<1>3. s - t \in Int
  OBVIOUS
<1>4. PICK u \in Int, v \in 0 .. n - 1 : s - t = n * u + v /\ (s - t) % n = v
  BY <1>3, Division
<1>5. n * ((p - q) + u) = n * p - n * q + n * u
  OBVIOUS
<1>6. a - b = n * ((p - q) + u) + v
  BY <1>1, <1>2, <1>4, <1>5
<1>7. (a - b) % n = v
  BY <1>6, Remainder
<1>8. QED
  BY <1>1, <1>2, <1>4, <1>7

\* Wrapping never makes a time longer.
LEMMA WrappedIsShorter ==
  ASSUME NEW n \in Nat \ {0}, NEW x \in Nat
  PROVE  x % n \in 0 .. n - 1 /\ x % n <= x
<1>a. x \in Int
  OBVIOUS
<1>1. PICK q \in Int, r \in 0 .. n - 1 : x = n * q + r /\ x % n = r
  BY <1>a, Division
<1>2. n * q >= 0
  <2>1. CASE q <= -1
    <3>1. n * q <= n * (-1)
      BY <2>1
    <3>2. QED
      BY <1>1, <3>1
  <2>2. CASE q >= 0
    BY <2>2
  <2>3. QED
    BY <2>1, <2>2
<1>3. QED
  BY <1>1, <1>2

-----------------------------------------------------------------------------
(* The window.                                                              *)

\* SetSelected never stores a time that is older than the one stored; the
\* stored tick is the time it was taken at, wrapped, until it is cleared.
ClockInv ==
  /\ now \in Nat /\ nowRead \in Nat /\ marked \in Nat
  /\ marked <= now /\ nowRead <= now
  /\ pc \in {"window", "store"} => marked <= nowRead

TickInv ==
  /\ reset \in BOOLEAN
  /\ tick = IF reset THEN 0 ELSE GetTickCount(marked)

WindowInv == ClockInv /\ TickInv /\ WindowThrottles /\ DenialIsRecent

LEMMA InitSafe == Init => WindowInv
  BY WindowAssumption
     DEF Init, NoOutcome, WindowInv, ClockInv, TickInv, WindowThrottles, DenialIsRecent

\* The decision: what the wrapped difference of the ticks says of the times.
LEMMA ReadTickSafe ==
  ASSUME WindowInv, ReadTick
  PROVE  WindowInv'
<1>1. /\ pc = "window" /\ UNCHANGED <<now, tick, nowRead, marked, reset>>
      /\ outcome' = [kind |-> IF Grants THEN "granted" ELSE "denied",
                     gap |-> nowRead - marked, reset |-> reset,
                     marked |-> marked]
  BY DEF ReadTick
<1>2. /\ nowRead \in Nat /\ marked \in Nat /\ marked <= nowRead
      /\ Modulus \in Nat \ {0} /\ MinInterval \in Nat /\ reset \in BOOLEAN
  BY <1>1, WindowAssumption DEF WindowInv, ClockInv, TickInv
<1>3. ClockInv' /\ TickInv'
  BY <1>1 DEF WindowInv, ClockInv, TickInv, ReadTick, GetTickCount
<1>4. PICK gap \in Nat : gap = nowRead - marked
  BY <1>2
<1>5. gap % Modulus \in Nat /\ gap % Modulus <= gap
  BY <1>2, WrappedIsShorter
<1>6. ~reset => Elapsed = gap % Modulus
  <2>1. ((nowRead % Modulus) - (marked % Modulus)) % Modulus = (nowRead - marked) % Modulus
    BY <1>2, Difference
  <2>2. ~reset => tick = marked % Modulus
    BY DEF WindowInv, TickInv, GetTickCount
  <2>3. ASSUME ~reset PROVE Elapsed = (nowRead - marked) % Modulus
    <3>1. Elapsed = ((nowRead % Modulus) - (marked % Modulus)) % Modulus
      BY <2>2, <2>3, Zenon DEF Elapsed, GetTickCount
    <3>2. QED
      BY <2>1, <3>1, Zenon
  <2>4. (nowRead - marked) % Modulus = gap % Modulus
    BY <1>4
  <2>5. QED
    BY <2>3, <2>4
<1>7. CASE Grants
  <2>1. /\ outcome'.kind = "granted" /\ outcome'.gap = gap
        /\ outcome'.reset = reset /\ outcome'.marked = marked
    BY <1>1, <1>4, <1>7
  <2>2. reset \/ GetTickCount(marked) = 0 \/ gap >= MinInterval
    <3>1. CASE tick = 0
      BY <3>1 DEF WindowInv, TickInv
    <3>2. CASE ~reset /\ Elapsed >= MinInterval
      BY <1>2, <1>5, <1>6, <3>2
    <3>3. QED
      BY <1>2, <1>7, <3>1, <3>2 DEF Grants
  <2>3. WindowThrottles' /\ DenialIsRecent'
    BY <2>1, <2>2 DEF WindowThrottles, DenialIsRecent, GetTickCount
  <2>4. QED
    BY <1>3, <2>3 DEF WindowInv
<1>8. CASE ~Grants
  <2>1. outcome'.kind = "denied" /\ outcome'.gap = gap /\ outcome'.reset = reset
    BY <1>1, <1>4, <1>8
  <2>2. ~reset
    BY <1>8 DEF Grants, WindowInv, TickInv
  <2>3. Elapsed < MinInterval
    BY <1>2, <1>5, <1>6, <1>8, <2>2 DEF Grants
  <2>4. gap % Modulus < MinInterval
    BY <1>6, <2>2, <2>3
  <2>5. WindowThrottles' /\ DenialIsRecent'
    BY <2>1, <2>2, <2>4 DEF WindowThrottles, DenialIsRecent
  <2>6. QED
    BY <1>3, <2>5 DEF WindowInv
<1>. QED
  BY <1>7, <1>8

\* The steps that decide nothing.
LEMMA OutcomeStays ==
  ASSUME WindowInv, outcome' = outcome, ClockInv', TickInv'
  PROVE  WindowInv'
  BY DEF WindowInv, WindowThrottles, DenialIsRecent

LEMMA StepSafe == WindowInv /\ [Next]_vars => WindowInv'
<1> SUFFICES ASSUME WindowInv, [Next]_vars PROVE WindowInv'
  OBVIOUS
<1>1. ClockInv /\ TickInv
  BY DEF WindowInv
<1>2. CASE ReadTick
  BY <1>2, ReadTickSafe
<1>3. CASE \/ ReadActive \/ ReadAwaiting \/ ConsumeForceNextAutoSubmit
           \/ SessionStarts \/ SessionEnds \/ ClearAwaiting
           \/ ArmForceNextAutoSubmit \/ UNCHANGED vars
  <2>1. /\ UNCHANGED <<now, tick, nowRead, marked, reset, outcome>>
        /\ pc' \in {"window", "store"} => pc' = pc
    BY <1>3 DEF ReadActive, ReadAwaiting, ConsumeForceNextAutoSubmit,
       SessionStarts, SessionEnds, ClearAwaiting, ArmForceNextAutoSubmit,
       vars, flags, selection, history
  <2>2. ClockInv' /\ TickInv'
    BY <1>1, <2>1 DEF ClockInv, TickInv
  <2>3. QED
    BY <2>1, <2>2, OutcomeStays
<1>4. CASE MarkAutoSubmitTickNow
  <2>1. /\ tick' = GetTickCount(now) /\ marked' = now /\ reset' = FALSE
        /\ pc' = "idle" /\ UNCHANGED <<now, nowRead, outcome>>
    BY <1>4 DEF MarkAutoSubmitTickNow
  <2>2. TickInv'
    BY <2>1 DEF TickInv, GetTickCount
  <2>3. ClockInv'
    BY <1>1, <2>1 DEF ClockInv
  <2>4. QED
    BY <2>1, <2>2, <2>3, OutcomeStays
<1>5. CASE ReadClock
  <2>1. ClockInv' /\ TickInv' /\ outcome' = outcome
    BY <1>1, <1>5 DEF ReadClock, ClockInv, TickInv, GetTickCount, flags, history
  <2>2. QED
    BY <2>1, OutcomeStays
<1>6. CASE StoreTick
  <2>1. ClockInv' /\ TickInv' /\ outcome' = outcome
    BY <1>1, <1>6 DEF StoreTick, ClockInv, TickInv, GetTickCount, flags
  <2>2. QED
    BY <2>1, OutcomeStays
<1>7. CASE SessionAwaits \/ ClearTick
  <2>1. /\ UNCHANGED <<now, nowRead, marked, pc, outcome>>
        /\ tick' = 0 /\ reset' = TRUE
    BY <1>7 DEF SessionAwaits, ClearTick, flags, selection
  <2>2. ClockInv' /\ TickInv'
    BY <1>1, <2>1 DEF ClockInv, TickInv
  <2>3. QED
    BY <2>1, <2>2, OutcomeStays
<1>8. CASE TimePasses
  <2>1. now' = now + 1 /\ UNCHANGED <<tick, nowRead, marked, reset, pc, outcome>>
    BY <1>8 DEF TimePasses, flags, selection, history
  <2>2. ClockInv' /\ TickInv'
    BY <1>1, <2>1 DEF ClockInv, TickInv, GetTickCount
  <2>3. QED
    BY <2>1, <2>2, OutcomeStays
<1>. QED
  BY <1>2, <1>3, <1>4, <1>5, <1>6, <1>7, <1>8 DEF Next

LEMMA Invariance == Spec => []WindowInv
  BY InitSafe, StepSafe, PTL DEF Spec

(***************************************************************************)
(* TryAcquireAutoSubmitWindow keeps kMinSubmitIntervalMs between two       *)
(* submissions of which no session cleared the first one's tick, for ever  *)
(* and across every wrap of GetTickCount(), but for a tick of exactly 0.   *)
(***************************************************************************)
THEOREM SubmissionsAreSpaced == Spec => []WindowThrottles
<1>1. WindowInv => WindowThrottles
  BY DEF WindowInv
<1>2. QED
  BY <1>1, Invariance, PTL

(***************************************************************************)
(* It refuses a submission only with a tick in store that is less than the *)
(* interval old, or as much and any number of whole wraps.                 *)
(***************************************************************************)
THEOREM RefusalsAreRecent == Spec => []DenialIsRecent
<1>1. WindowInv => DenialIsRecent
  BY DEF WindowInv
<1>2. QED
  BY <1>1, Invariance, PTL
=============================================================================
