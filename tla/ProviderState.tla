--------------------------- MODULE ProviderState ---------------------------
(***************************************************************************)
(* The process-wide flags of src/core/Provider.cpp, which LogonUI's        *)
(* callers read and write with Interlocked operations, as one record.      *)
(*                                                                         *)
(* Every C++ helper is an operator from the record before the call to the  *)
(* record after it, so an action that makes several calls composes them    *)
(* in the order of the code.                                               *)
(*                                                                         *)
(*   active      g_brokerSessionActive                                     *)
(*   awaiting    g_brokerAwaitingFinal                                     *)
(*   force       g_forceNextAutoSubmit                                     *)
(*   ticked      g_brokerSessionAutoSubmitTick # 0                         *)
(*   generation  g_brokerSessionGeneration                                 *)
(*                                                                         *)
(* The value of the tick is abstracted to whether one is remembered: the   *)
(* clock is an input of TryAcquireAutoSubmitWindow.                        *)
(***************************************************************************)
EXTENDS Integers

Globals == [active: BOOLEAN, awaiting: BOOLEAN, force: BOOLEAN,
            ticked: BOOLEAN, generation: Nat]

InitialGlobals == [active |-> FALSE, awaiting |-> FALSE, force |-> FALSE,
                   ticked |-> FALSE, generation |-> 1]

-----------------------------------------------------------------------------

\* Mutant: the session ends and its generation stays.
SetBrokerSessionActive_SameGeneration(gl, value) ==
  IF value THEN [gl EXCEPT !.active = TRUE]
           ELSE [gl EXCEPT !.active = FALSE, !.awaiting = FALSE, !.ticked = FALSE]

SetBrokerSessionActive(gl, value) ==
  IF value
  THEN [gl EXCEPT !.active = TRUE]
  ELSE [gl EXCEPT !.active     = FALSE,
                  !.awaiting   = FALSE,
                  !.ticked     = FALSE,
                  !.generation = @ + 1]

\* Waiting for the final answer also forgets the last automatic submission.
SetBrokerAwaitingFinal(gl, value) ==
  [gl EXCEPT !.awaiting = value,
             !.ticked   = IF value THEN FALSE ELSE @]

ArmForceNextAutoSubmit(gl)   == [gl EXCEPT !.force = TRUE]
ResetForceNextAutoSubmit(gl) == [gl EXCEPT !.force = FALSE]
MarkAutoSubmitTickNow(gl)    == [gl EXCEPT !.ticked = TRUE]

(***************************************************************************)
(* ConsumeForceNextAutoSubmit is the compare-and-exchange 1 -> 0: it       *)
(* succeeds when the flag is set and clears it.                            *)
(***************************************************************************)
ConsumesForce(gl)              == gl.force
ConsumeForceNextAutoSubmit(gl) == [gl EXCEPT !.force = FALSE]

(***************************************************************************)
(* TryAcquireAutoSubmitWindow grants the submission when none is           *)
(* remembered or when the interval has elapsed, and then remembers it.     *)
(***************************************************************************)
GrantsWindow(gl, elapsed)               == ~gl.ticked \/ elapsed
TryAcquireAutoSubmitWindow(gl, elapsed) ==
  IF GrantsWindow(gl, elapsed) THEN MarkAutoSubmitTickNow(gl) ELSE gl
=============================================================================
