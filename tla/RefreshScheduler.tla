-------------------------- MODULE RefreshScheduler --------------------------
(***************************************************************************)
(* What the refresh machinery of src/core/Provider.cpp promises: at most   *)
(* one delayed CredentialsChanged is outstanding, a request made meanwhile *)
(* is dropped, and the callback tells LogonUI only when the session        *)
(* generation it was asked for is still the current one.                   *)
(*                                                                         *)
(* The callback runs on a thread-pool thread.  Its three steps that other  *)
(* threads can observe are kept apart: the generation check, the call to   *)
(* CredentialsChanged, and the release of g_refreshPending.                *)
(***************************************************************************)
EXTENDS Integers

VARIABLES
  generation,      \* g_brokerSessionGeneration
  refreshPending,  \* g_refreshPending
  refresh,         \* the CredRefreshAsyncCtx in flight and its callback
  advised,         \* g_cpEvents # nullptr
  notified         \* LogonUI got a CredentialsChanged it has not acted on

vars == <<generation, refreshPending, refresh, advised, notified>>

RefreshSteps == {"free", "armed", "notify", "clear"}

\* owner: the broker whose session asked for the refresh, 0 when none was
\* left.  It plays no part in the guards: the code compares generations only.
NoRefresh == [pc |-> "free", gen |-> 0, owner |-> 0]

TypeOK ==
  /\ generation \in Nat
  /\ refreshPending \in BOOLEAN
  /\ refresh \in [pc: RefreshSteps, gen: Nat, owner: Nat]
  /\ advised \in BOOLEAN
  /\ notified \in BOOLEAN

Init ==
  /\ generation = 1
  /\ refreshPending = FALSE
  /\ refresh = NoRefresh
  /\ advised = FALSE
  /\ notified = FALSE

-----------------------------------------------------------------------------

(***************************************************************************)
(* RequestCredentialsChangedAsync.  The delay is left out: a thread-pool   *)
(* timer may fire any time after it was set.  mayFail is the failure to    *)
(* allocate the context or the timer, which gives the slot back.           *)
(***************************************************************************)
RequestCredentialsChangedAsync(gen, owner, mayFail) ==
  \/ /\ ~refreshPending
     /\ advised
     /\ refreshPending' = TRUE
     /\ refresh' = [pc |-> "armed", gen |-> gen, owner |-> owner]
  \/ /\ refreshPending \/ ~advised \/ mayFail
     /\ UNCHANGED <<refreshPending, refresh>>

\* CredRefreshTimerCallback: IsCurrentSessionGeneration(ctx->sessionGeneration).
TimerFires ==
  /\ refresh.pc = "armed"
  /\ refresh' = [refresh EXCEPT !.pc = IF refresh.gen = generation
                                       THEN "notify" ELSE "clear"]
  /\ UNCHANGED <<refreshPending, notified>>

\* ctx->events->CredentialsChanged(ctx->context), then the context is freed.
CredentialsChanged ==
  /\ refresh.pc = "notify"
  /\ notified' = TRUE
  /\ refresh' = [refresh EXCEPT !.pc = "clear"]
  /\ UNCHANGED refreshPending

\* InterlockedExchange(&g_refreshPending, 0), the callback's last statement.
CallbackReturns ==
  /\ refresh.pc = "clear"
  /\ refreshPending' = FALSE
  /\ refresh' = NoRefresh
  /\ UNCHANGED notified

Callback == TimerFires \/ CredentialsChanged \/ CallbackReturns

SetProviderEvents   == advised' = TRUE
ClearProviderEvents == advised' = FALSE

-----------------------------------------------------------------------------
(***************************************************************************)
(* The scheduler on its own, the specification CredRefresh implements.     *)
(* There a request first finds an events object and then allocates its     *)
(* context and its timer: Withdraw is the failure of either.               *)
(***************************************************************************)
Withdraw ==
  /\ refresh.pc = "armed"
  /\ refreshPending' = FALSE
  /\ refresh' = NoRefresh

Next ==
  \/ /\ \/ \E gen \in 1..generation :
             RequestCredentialsChangedAsync(gen, 0, FALSE)
        \/ Withdraw
     /\ UNCHANGED <<generation, advised, notified>>
  \/ Callback /\ UNCHANGED <<generation, advised>>
  \/ /\ SetProviderEvents \/ ClearProviderEvents
     /\ UNCHANGED <<generation, refreshPending, refresh, notified>>
  \/ /\ notified' = FALSE
     /\ UNCHANGED <<generation, refreshPending, refresh, advised>>
  \/ /\ generation' = generation + 1
     /\ UNCHANGED <<refreshPending, refresh, advised, notified>>

Spec == Init /\ [][Next]_vars
=============================================================================
