# Dot1xCP: TLA+ models, checks and proofs

Dot1xCP is a Windows credential provider. LogonUI loads it as a COM server,
shows its tile and asks it for a credential (`GetSerialization`). The provider
has no user interface of its own for 802.1X: it starts a helper process, the
*broker*, gives it a named pipe, reads JSON messages from that pipe and turns
the final one into a serialized logon. As the broker may take minutes and
`GetSerialization` runs on LogonUI's thread, the provider answers "not
finished", keeps the broker session open in process-wide variables, and uses a
delayed `CredentialsChanged` plus automatic submission to be called again.

This directory models that mechanism and the parts around it (the parser of the
broker's messages, the packing of the credential, the COM server, the
installer's policy backup), checks them with TLC on small instances and proves
all but one of their safety properties with TLAPS for all instances.
`PROJECT.json` maps every definition to the lines it models (paths there are
relative to the directory above `src/`, so the repository's own
`src/core/Provider.cpp` is `src/src/core/Provider.cpp`).

## 1. Inventory

| component | state it keeps | operations | hard behaviour |
|---|---|---|---|
| Flags and generation, `core/Provider.cpp` | `g_brokerSessionActive`, `g_brokerAwaitingFinal`, `g_forceNextAutoSubmit`, `g_brokerSessionAutoSubmitTick`, `g_brokerSessionGeneration` | Set/Arm/Reset/Consume/TryAcquire helpers | read without a lock by LogonUI's calls, written by whoever ends a session |
| Delayed `CredentialsChanged`, `core/Provider.cpp` | `g_refreshPending`, `g_cpEvents`, `g_cpEventsContext`, the context in flight | `RequestCredentialsChangedAsync`, `CredRefreshTimerCallback`, `SetProviderEvents`, `ClearProviderEvents` | a thread-pool thread races LogonUI's thread; one slot for all requests; stale timers |
| Broker session, `broker/ProviderBrokerSession.cpp` | `g_session` (pipe, process, connected), `g_lastBrokerFlowState`, `g_brokerSessionLock` | `ResetBrokerSession`, `CloseBrokerSessionNow`, `ClosePipeHandle`, `WaitAndCloseBrokerProcess` | handles closed by hand on many paths; wait, terminate, or neither |
| `GetSerialization`, `broker/ProviderSerialization.cpp` | locals `failedPi`, `terminalPi`, the message | open the session, read a message, answer | eight ways to return, each with its own clean-up |
| Pipe transport, `broker/ProviderPipeTransport.cpp` | the pending overlapped read | `CreateRestrictedPipeServer`, `WaitPipeClientConnect`, `ReadPipeMessageWithTimeout`, `ReadPipeMessageUntilDone` | timeout against late data, process exit against unread data, cancellation |
| Broker launch, `broker/ProviderPipe.cpp` | none | `LaunchBroker` | fails after the pipe exists |
| Provider and tile, `core/ProviderCore.cpp` | `_cpus` of provider and tile, reference counts | `SetUsageScenario`, `Advise`, `UnAdvise`, `GetCredentialCount`, `GetCredentialAt`, `SetSelected`, `SetDeselected`, `ReportResult` | flags read, then acted on; close from outside while a call is inside |
| Tile fields, `core/ProviderCredentialFields.cpp` | none | constant answers | none |
| JSON parser, `broker/ProviderJson.cpp` | none | `ParseJsonLine` | escapes, duplicated keys, truncated input |
| Credential packing, `auth/Serialization.cpp` | none | `PackKerb`, `PackMsv`, `PackAutoEx` | buffer layout, 16-bit lengths |
| LSA package lookup, `auth/SerializationAuth.cpp` | the cached package ids | `ResolvePkgA`, the two getters | lock-free cache |
| COM lifetime, `com/` | server lock count, object reference counts | `QueryInterface`/`AddRef`/`Release`, `LockServer`, `DllCanUnloadNow`, registration | unload against live objects and timers |
| Utilities, `common/` | a log file | string copies, status texts | none |
| Installer, `Dot1xCP_Setup.iss` | policy values and their backup | install, upgrade, uninstall | backup must not save the installer's own values |
| Broker (external) | a process and its end of the pipe | connect, send, disconnect, exit | all of it at any time |

How they interact: LogonUI calls the methods of `ProviderCore.cpp`.
`SetSelected` reads the flags and tells LogonUI whether to submit at once;
`GetSerialization` takes the session lock for its whole duration, waits on the
pipe, writes flags and session and may request a refresh; the timer callback
compares the generation it was given with the current one and calls
`CredentialsChanged`, on which LogonUI enumerates and selects the tile again;
`SetDeselected` and `SetUsageScenario` close the session from outside, under the
lock but on the strength of a flag read before it.

What makes the components correct:

- *flags*: between calls they describe the session truthfully; nothing armed
  survives into another scenario;
- *refresh*: one request at a time, the slot always comes back, a timer never
  acts for a session other than its own;
- *session*: whole or absent whenever the lock is free; every handle closed
  exactly once; no broker left running unobserved;
- *GetSerialization*: always returns; each answer either keeps the session or
  ends it whole;
- *re-entry*: while an answer is pending or a recovery is due, LogonUI will come
  back; after a success it is not sent back;
- *automatic submission*: submissions are spaced, and none is held back for
  longer than the interval, across the wrap of the clock;
- *transport*: what is returned is one whole message within the size limit,
  and only a cancelled read loses anything;
- *parser*: a message is read as what the broker meant, a piece of one is
  refused, and a refusal leaves nothing behind;
- *packing*: the descriptors of a local account read back the packed fields, also
  when a length has wrapped; the package id is one the LSA gave, the same for every caller;
- *lifetime*: objects live while they are held and no longer, whether a creating
  call grants or refuses the interface; the DLL stays while a factory, a server
  lock or a creating call exists;
- *installer*: the user's policy values come back.

The hazards behind these, each at its line, are listed in `PROJECT.json`.

## 2. Modules

The DLL's session machinery, composed:

| module | models | role |
|---|---|---|
| `ProviderState` | `Provider.cpp` flags | pure operators from flags to flags, no variables |
| `RefreshScheduler` | `Provider.cpp` refresh, as the DLL sees it | slot, timer, callback; instantiated by `CredentialProvider` with the generation |
| `BrokerSession` | `ProviderBrokerSession.cpp` and, as environment, the broker | session variables, clean-up operators, broker actions |
| `CredentialProvider` | `ProviderCore.cpp`, `ProviderSerialization.cpp`, control of `ProviderPipeTransport.cpp` | the composition: one action per step of a method, `Spec`, `FairSpec`, properties |
| `SessionLifecycle` | what `GetSerialization` promises about the session | the abstract specification the composition implements (`ImplementsLifecycle`) |

The parts whose detail the composition abstracts:

| module | models | relation |
|---|---|---|
| `CredRefresh` | `Provider.cpp` refresh, one action per interlocked operation, lock operation and COM call | implements `RefreshScheduler` (`ImplementsScheduler`), so the composition may use the latter |
| `AutoSubmitWindow` | `SetSelected`, the tick at its width | stands for the choice "the interval has elapsed" of `ProviderState` |
| `PipeRead` | `ReadPipeMessageUntilDone`, chunk by chunk | stands for the one-read `TakeMessage` of `CredentialProvider` |
| `BrokerJson` | `ParseJsonLine` and its scanners | stands for the type of a message; `GARBAGE` is what it refuses |
| `PackageCache` | `ResolvePkgCached`, `ResolvePkgA` | the lock-free cache of one package id per package |
| `CredentialLayout` | offsets and counts of `PackMsv`, `PackKerb` | operators, no variables |
| `CredentialPacking` | `PackAutoEx` | composes the two; stands for the choice "packing failed" |

Beside the session:

| module | models |
|---|---|
| `ComServer` | reference counts of the three classes, the lock count, unloading, registration |
| `InstallerPolicy` | backup and restore of the policy values in `Dot1xCP_Setup.iss` |

`DocumentedClaims` states what the repository's `README.md` says and the code
does not keep. `MCCredentialProvider`, `MCBrokerJson`, `MCCredentialPacking` and
`MCInstallerPolicy` hold symmetry and inputs for TLC; the other modules are
checked with a configuration alone. Eight modules hold the theorems:
`CredentialProviderProofs`, `CredRefreshProofs`, `PipeReadProofs`,
`AutoSubmitProofs`, `BrokerJsonProofs`, `PackingProofs` (with the package cache),
`ComServerProofs` and `InstallerProofs`.

### State and code of the composition

One number names a launch: its pipe handle, its process handle and its process,
because `MakePipeName` gives each launch a pipe of its own. `session` is
`g_session`; `openPipes` and `openProcs` are ghosts that record which handles
are open in Windows. `broker`, `client` and `queue` are the process, its end of
the pipe and the unread messages. A message is one of the types the code tells
apart: the five `AUTH_*` types, `UNKNOWN` (well formed, any other type) and
`GARBAGE` (rejected by `ParseJsonLine`).

`pc[c]` is where thread `c` is inside a method. A method is cut where another
thread, the timer or the broker can act in a way that matters:

| step | code | next |
|---|---|---|
| `acquire` | `GetSerialization` before its scoped lock | `create` or `read` (`LockSession`) |
| `create`, `launch`, `connect` | opening the session | the next one, or back to `idle` / `reap` on failure |
| `read`, `wait` | `ReadFile`, then `WaitForMultipleObjects` | `handle` with a message, `recover` when the broker is lost, `cancel` on a timeout |
| `cancel`, `check` | `CancelIoEx` and the loop of `ReadPipeMessageUntilDone` | `read`, `poll` when the overall time is over, `recover` |
| `poll`, `recover`, `handle`, `reap` | the answers | `idle`, lock released |
| `select_*` | `SetSelected` after it has read the flags | `idle` (`DecideAutoSubmit`) |
| `deselect_close`, `logon_close`, `other_close` | before `CloseBrokerSessionNow` gets the lock | `deselect_arm`, `logon_finish`, `other_finish` |
| `deselect_arm`, `logon_finish`, `other_finish` | what the caller of `CloseBrokerSessionNow` does after it | `idle` |

A close is one step: it happens entirely under the lock and the only thing it
waits for, the broker's end, is bounded by the code's own `TerminateProcess`.
`pi`, `why` and `slices` are locals of the one `GetSerialization` that holds the
lock. `response` is the answer LogonUI got last.

LogonUI is modelled by what the interface allows: it enumerates tiles after
`Advise` and after a `CredentialsChanged`, selects a tile, submits it when
`SetSelected` told it to or when the user does, and drops its tiles on
`SetUsageScenario`. `UiEvents` says which spontaneous events an instance has.

### State and code of the other modules

- `CredRefresh`: a request `r` is one call of `RequestCredentialsChangedAsync`
  and then the run of its callback; `pc[r]` names the next statement (`lock`,
  `read`, `addref`, `unlock`, `alloc`, `timer`, `armed`, `notify`, `release`,
  `clear`, and `undo`, `giveback` on the error paths). `events[r]` and
  `context[r]` are first locals, then members of the heap context. `readers` and
  `ui` are the shared and the exclusive holders of `g_cpEventsLock`; `ui` walks
  through `SetProviderEvents`. `rc` is the reference count of each events object
  and `owned` says whether LogonUI's own reference is one of them. The refinement
  maps a request that has found an events object to the scheduler's outstanding
  refresh; a request that finds none, and the time until it does, are stutters.
- `AutoSubmitWindow`: `now` is real time, `tick` what is stored of it, modulo
  `Modulus`. `SetSelected` is `ReadActive`, `ReadAwaiting`,
  `ConsumeForceNextAutoSubmit`, then `MarkAutoSubmitTickNow` or the three steps
  of `TryAcquireAutoSubmitWindow` (clock, comparison, store). A session that
  starts, awaits and ends on another thread writes between any two of them.
- `PipeRead`: byte `k` of message `m` is `<<m, k>>`. `Received` is the body of
  the read loop after a read has completed; `ReadFile` and `ReadCompletes` are
  its two callers. `CancelIoEx` may find the read completed, in which case the
  chunk it took is gone; the rest of that message is what the next read gets.
- `BrokerJson`: the opening of the object, one turn of the member loop and the
  end are steps; `ParseJsonQuotedToken`, `UnescapeJsonString`, `ParseHex4` and
  `AppendUtf8` are functions of the position and work on bytes.
- `PackageCache`: a call is `Probe`, `Connect`, `Lookup`, `Publish`, the last
  being the compare-exchange; the three ways out of `Lookup` each close the LSA
  connection themselves, as in the code; `slot` is the signed 32-bit cell and `ToLong`,
  `ToULong` are the casts. `given` and `answers` are history.
- `CredentialPacking`: `stage` is where a thread is inside `PackAutoEx`, and
  `out` its `Ser::Packed`. A string is its length; byte `i` of field `f` is
  `<<f, i>>`, so a descriptor can be asked what the LSA reads through it when it
  takes `Buffer` for an offset in the blob. `PackKerb` leaves addresses there
  (`HeapBase`), which the LSA cannot read; `LsaReadsTheFields` is therefore about
  local accounts, the only ones `HandleAuthSuccessMessage` sends. All threads pack the same credential, which makes them race for the same slot.
- `ComServer`: `ref` is an object's `_ref`, `held` what its clients own. A creating
  call is the constructor (`New`), `QueryInterface`, which grants or refuses, and
  the call's own `Release` (`CreatorReleases`); `call` says how far it is and
  `maker` on which factory it runs. `GetCredentialAt` asks for no interface and
  hands the constructor's reference over. A client keeps the factory it is
  calling.
- `InstallerPolicy`: one step per `BackupPolicyDword`, `RestorePolicyDword` or
  `[Registry]` line; `phase` and `at` are the place in the script. `user` (what
  the user last chose) and `torn` (setup stopped inside its own writes) are
  history.

In today's DLL every caller of `PackAutoEx` holds the session lock, so two
threads never race for the cache. `PackageCache` states what the code of the
cache promises by itself, which is why it has a compare-exchange.

### Abstractions

- In the composition, the tick of the last automatic submission is only
  remembered or not and whether the interval has elapsed is an input
  (`AutoSubmitWindow` has the tick). Delays of the refresh timer are left out
  everywhere: a set timer may fire at any time.
- Time inside a read is counted in slices. `CheckElapsed` may end the read
  before the last slice, as on a machine whose slices run late.
- In the composition one message is one read (`PipeRead` has the chunks). Wiping
  of buffers, pipe names, the security descriptor, environment block, texts and
  logs are left out.
- A JSON key is abstracted to its initial: the parser only compares keys as a
  whole.
- LogonUI's context value of an events object is written as the object itself.
- `CancelIoEx` is modelled by its effect on the message: the pending read may
  have completed, and what it read is dropped. That the call is not followed by
  a wait for the cancelled operation, whose `OVERLAPPED` is on the stack, is not
  represented.
- `SetBrokerSessionActive` is one step although it is four interlocked writes.
  The generation is its last write; a callback between them sees the old
  generation and behaves as one that ran just before.
- The failure of a Windows call is a member of `Faults`, taken or not at each
  call. `reap` is the failure of the wait or of `TerminateProcess`.

## 3. Runs

| run | instance | checks |
|---|---|---|
| `apartment` | one thread, `FairSpec`, all messages but `UNKNOWN`, all faults but `connect` and `reap`, all UI events, 2 launches, 2 slices | `TypeOK`, `FlagsMatchSession`, `ScenarioGate`, `AnswerDecidesSession`, `ImplementsLifecycle`, `MethodsReturn`, `MethodsShorten` |
| `threads` | two threads, faults before the session is connected, 2 launches, 1 slice, symmetry | `SessionCoherent`, `HandlesBalanced`, `NoOrphanBroker`, `GenerationNamesSession` |
| `refresh` | 2 requests, 2 events objects, 3 generations, `FairSpec` | `NoUseAfterRelease`, `ReferencesBalance`, `OneRefreshInFlight`, `ContextMatches`, `SlotIsGivenBack`, `ImplementsScheduler` |
| `auto_submit` | clock modulo 6, interval 3, time to 14 | `WindowThrottles`, `DenialIsRecent` |
| `pipe_read` | chunks of 2, limit 4, sizes 0 to 5 and 7, 3 messages, 2 slices | `OkIsOneMessage`, `NothingIsPassedOver`, `BufferIsBounded` |
| `json` | about six thousand lines and pieces of lines | `ReadsWhatWasSent`, `PiecesAreRefused`, `RefusedLeavesNothing`, `ParserStaysInLine`, `AcceptedIsMessage` |
| `packing` | 2 threads, 2 packages, 4 ids, counts modulo 16 | `AnswersAgree`, `AnswersComeFromLsa`, `LsaHandlesReturned`, `LsaReadsTheFields` |
| `com_server` | 3 objects, 2 references each, 2 server locks | `ObjectsLiveWhileHeld`, `LockCountIsExact`, `FactoriesKeepTheDll` |
| `installer` | 3 policies, 2 values and absent | `PoliciesComeBack`, `BackupIsTheUsers` |

### What they show, and why the bounds are enough

- `apartment` is the situation the DLL registers for (`ThreadingModel =
  Apartment`): the flags agree with the session whenever no call is in progress,
  no broker and no armed submission exists outside LOGON, and an answer of
  `GetSerialization` keeps the session (`poll`, `AUTH_PENDING`, `AUTH_IDLE`) or
  leaves none (every other, `AUTH_FAIL` included, against what the README of the
  repository says: `fail_keeps_session` below). `UNKNOWN` is left out because
  `CredentialProvider` treats it as `AUTH_FAIL` at every step. `FlagsMatchSession` and
  `ScenarioGate` are claims for one thread only: with two, a `SetUsageScenario`
  may pass a `GetSerialization` that is waiting for the lock and opens a session
  afterwards. `ImplementsLifecycle` is not: the theorem has it for any number of
  threads.
- `threads` shows that the session lock and the generation suffice for what must
  hold however many threads call: coherence, handles, brokers, timers.
- `apartment` also shows that no behaviour of the broker keeps LogonUI's thread
  inside the provider (`MethodsReturn`). `MethodsShorten` is the safe half of it:
  each step of a method leaves fewer to take, and no other thread, message or
  failure gives any back.
- In these two, two launches are enough for a session, its end and a successor,
  which is what a stale timer, a leaked handle or a wrong reset needs. A queue of
  one message per pipe lets a message arrive at every step, including one that
  arrives between timeout and cancellation. Two slices give a slice that is
  followed by another and a last one, and `CheckElapsed` may stop at either; the
  code has five (1200 ms in slices of 250 ms), and `TypeCorrect` and
  `MethodsAreBounded` hold for any number. `MaxGeneration` stops `SetUsageScenario` from
  being called for ever; sessions still end by every other path at the bound.
- `refresh` shows that the lock, the counts and the one slot protect the events
  object against `UnAdvise` on every path, and that the rest of the DLL may
  think of it as `RefreshScheduler`. Two requests give a winner and a loser of
  the compare-exchange, and a second request that follows on the first; two
  objects give an old and a new one; three generations a stale timer and one that
  is stale twice over.
- `auto_submit` lets the clock wrap more than twice. The window compares one
  stored tick with one read tick, so a turn with a stored tick before it, at 0
  and after it has all the cases. Both properties are about submissions
  the window itself grants or refuses: a forced one and one for a pending answer
  do not ask it. `WindowThrottles` names the two ways in which the window
  forgets: a session that clears the tick, and a submission taken at a tick of
  exactly 0.
- `pipe_read` has messages of no byte, less than a chunk, a full chunk, a chunk
  and a piece, exactly the limit, one more, and several chunks more. Three
  messages give one before and one after the one in question.
- `json` builds lines from strings of up to two units (bytes and escapes,
  including quotes, braces, surrogate pairs and malformed escapes) and knows what
  each means, so the expected value does not come from the parser's own
  functions. Every well-formed line of a smaller set is also cut at every place
  and doubled. A sample that is not whole carries the message it was made from
  (`of`); TLC evaluates the assumption `PiecesAreCut` that it is a piece of that
  message, or has it as a piece. `AcceptedIsMessage` says of any line what an
  accepted one looks like when read byte by byte (`IsMessage`): braces at both
  ends, outside all strings, only punctuation between the strings, and the type
  among them.
- `packing` has lengths just below, at and above the one at which `2 * (n + 1)`
  reaches the modulus of the counts. Ids include 0, one above the largest `LONG`
  and two different good ones.
- `com_server`: a factory, what it creates and a third object, which makes two
  creating calls overlap, also on one factory, and lets a deleted object's address
  be used again. Registration matters to it only through `LoadLibrary`.
- `installer`: one policy restored, one in progress and one untouched. The model
  takes registry calls to succeed, whereas the script ignores their results: what
  is shown is relative to cancellations, crashes and failing uninstallers. Among
  those the one way to lose a value is a setup stopped inside its own writes
  (`torn`).

Deadlock is checked except where the system stops. In `json` the parser returns;
in `pipe_read` nothing reads any more once a failure has made the caller give up
the session; the three runs at the end of this section have few user events or
none, and a provider nobody returns to is what one of them shows.

### Fairness

`CredentialProvider!FairSpec` assumes that a thread inside the provider runs on.
Every wait of the
code has a timeout, so a thread is never blocked except by the lock, whose holder
runs on. Nothing is assumed of the timer, the broker or LogonUI. `MethodsReturn` is
checked with one thread, where the lock is never contended: an SRW lock is not
fair, so with more threads a waiter may be passed over for ever.

`CredRefresh!FairSpec` assumes that a request runs on, that a timer that was set
fires and its callback runs on, and that whoever holds the events lock exclusively runs on. `Advise` and `UnAdvise` are
not obliged to come. Each object is advised once, so the writer comes a bounded
number of times and weak fairness of the reader is enough; a LogonUI that advised
without end could starve a reader of an unfair lock.

### Where the code and the repository's README disagree

Three runs are expected to fail; their findings quote the line of `README.md`.

| run | what happens |
|---|---|
| `pending_is_polled` | The callback calls `CredentialsChanged` before it clears `g_refreshPending`. LogonUI can re-enter, read `AUTH_PENDING` again and have its request dropped; nothing polls any more. |
| `no_submit_after_success` | A `CredentialsChanged` delivered while the success is being read makes the tile submit again; the README's known defect of the relaunched broker. |
| `fail_keeps_session` | `AUTH_FAIL` is terminal: the pipe is closed and the broker waited for and terminated. The README (137-140) has the broker's window stay and the session kept. |

These are visible in the model too, without a run of their own:

- a recovery requests a refresh while the timer of the ended session still holds
  the slot: the request is dropped, and the old timer is then ignored as stale
  (`README.md:60` says the next re-entry is brought about);
- a broker that exits before it connects is answered without arming or
  requesting a re-entry (`README.md:146-147`);
- a message that does not parse closes the session and nothing is scheduled
  (`README.md:82`: "immediately falls into the retry loop");
- a message that completes between the slice timeout and `CancelIoEx` is thrown
  away, even `AUTH_SUCCESS` (`README.md:135`);
- a process that has ended when a slice times out loses the message it left in
  the pipe: the exit check comes before the next read (`README.md:135`);
- `PackKerb` stores addresses, not offsets (`README.md:70-71`, `98-100`). The one
  caller passes the domain `"."`, for which `PackMsv` is chosen;
- `DllRegisterServer` ignores the results of its `RegSetValueExW`: it may return
  `S_OK` for a server without a path, which `LoadLibrary` then does not find.

## 4. Proofs

`CredentialProviderProofs` proves, for any set of threads, any bounds, any
messages and any faults (`SessionAssumption` and `ProviderAssumption` are the
only assumptions: the bounds are naturals, at least one slice, `Nobody` is not a
thread):

| theorem | states |
|---|---|
| `TypeCorrect` | `Spec => []TypeOK` |
| `SessionIsCoherent` | `Spec => []SessionCoherent` |
| `HandlesAreBalanced` | `Spec => []HandlesBalanced` |
| `BrokersAreOwned` | `Spec => []NoOrphanBroker` |
| `TimersNameTheirSession` | `Spec => []GenerationNamesSession` |
| `AnswersDecide` | `Spec => AnswerDecidesSession` |
| `SessionsFollowTheLifecycle` | `Spec => ImplementsLifecycle`, the refinement |
| `MethodsAreBounded` | `Spec => MethodsShorten` |
| `FlagsAreTruthful` | one thread: `Spec => []FlagsMatchSession` |
| `ScenarioIsGated` | one thread: `Spec => []ScenarioGate` |

The first five follow from one inductive invariant, `Inv == TypeOK /\ Control /\ Resources
/\ Refresh`:

- `Control`: exactly the lock's holder is at a locked step (`LockInv`); at each
  such step the session has the shape the code relies on there (`StepInv`:
  nothing, pipe only, pipe and process, connected); with the lock free it is
  whole or absent and the locals are empty (`FreeInv`);
- `Resources`: the handle and broker accounts, and that an active flag implies a
  connected session;
- `Refresh`: no timer carries a generation still to come, and one of the current
  generation names the open session.

None of the parts is inductive alone. Types need `Control`: `TakeMessage` yields
a message only because the pipe exists and the slices stay in range only because
of the step the reader is at. The handle account needs `StepInv`: creating a pipe
balances only over an empty session. `GenerationNamesSession` needs `TimerInv`:
a session that ends moves to a generation no timer has yet.

The proof has a lemma per action. Lemmas about the pieces (`ResetFacts`,
`DetachFacts`, `ReapFacts`, `RefreshOutdated`, `HolderMoves`, `HolderReturns`,
`OutsiderMoves`) carry what actions have in common: how the holder, a
returning holder and an outsider may move without disturbing `Control`, and that
a step which ends a session outdates its timer.

The others add one invariant each to `Inv`:

- `AnswersDecide` needs `ReasonInv`: the reason a call answers with is chosen
  several steps before it returns, and a call that is putting its broker away
  never carries a reason that promises the session is kept;
- `SessionsFollowTheLifecycle` needs `ReasonInv` too, to tell a connection that
  failed from a broker that said its last word. The mapping looks at the step of
  whoever holds the lock; `PhaseFacts` computes it from `Inv` for every such step
  and for a free lock, so each action is mapped by its first and its last step.
  Steps of threads without the lock, of the timer and of the broker are stutters,
  but for the generation `SetUsageScenario` ends after its close (`Outdate`);
- `MethodsAreBounded` needs `Inv` alone: whoever is about to read has a slice to
  spare, and only the lock's holder counts slices, so what any other thread has
  left (`LeftOutside`) stays as it is. With fairness this is why `MethodsReturn`
  holds: a thread that runs on takes at most `4 * MaxSlices + 8` steps between the
  call and the return, waits for the lock apart;
- `FlagsAreTruthful` needs that flags and session agree at every step, and that
  a session `SetUsageScenario` has closed is still closed when it ends the flags
  a second time (`ClosedInv`); here the hypothesis `Apartment`, at most one
  calling thread, is used;
- `ScenarioIsGated` needs that outside LOGON there is no tile, hence no selection
  and no submission, so the one thread is idle or closing (`GateInv`).

### The parts

| theorem | module | states |
|---|---|---|
| `EventsAreAliveWhenUsed` | `CredRefreshProofs` | `Spec => []NoUseAfterRelease` |
| `ReferencesAreBalanced` | | `Spec => []ReferencesBalance` |
| `OneRefreshAtATime` | | `Spec => []OneRefreshInFlight` |
| `ContextsMatch` | | `Spec => []ContextMatches` |
| `RefreshIsTheScheduler` | | `Spec => ImplementsScheduler`, the refinement |
| `OneMessagePerCall` | `PipeReadProofs` | `Spec => []OkIsOneMessage` |
| `NoMessageIsSkipped`, `ReaderIsBounded` | | `NothingIsPassedOver`, `BufferIsBounded` |
| `SubmissionsAreSpaced`, `RefusalsAreRecent` | `AutoSubmitProofs` | `WindowThrottles`, `DenialIsRecent` |
| `PositionsAreInLine`, `OnlyMessagesAreAccepted`, `RefusalsAreEmpty` | `BrokerJsonProofs` | `ParserStaysInLine`, `AcceptedIsMessage`, `RefusedLeavesNothing` |
| `PiecesNeverPass` | | `Spec => []PiecesAreRefused` |
| `PiecesAreNoMessages` | | no proper piece of a message is a message |
| `LoopEnds` | | every turn of the member loop ends it or moves on in the line |
| `CallersAgree`, `IdsAreGenuine`, `ConnectionsAreClosed` | `PackingProofs` | `AnswersAgree`, `AnswersComeFromLsa`, `LsaHandlesReturned` |
| `PackingUsesTheCache` | | `PackSpec => Spec`: packing is an instance of the cache's specification |
| `BlobsAreRead` | | `PackSpec => []LsaReadsTheFields` |
| `ObjectsAreHeld`, `LocksAreCounted`, `DllOutlivesFactories` | `ComServerProofs` | the three properties of `com_server` |
| `PoliciesAreRestored`, `BackupIsKept` | `InstallerProofs` | the two properties of `installer` |

Assumptions, each named in the module that declares the constant: `None` is not
an object and `MaxGen` is positive; ids fit a `ULONG`; header sizes are
naturals, the heap's base and the modulus of the counts are positive; the packages
are the two and the inputs are credentials; there is at least one policy, `Absent` is not a value and settings are values; the
set of COM objects is finite and its bounds are naturals. Nothing is assumed of how many requests, objects, threads,
ids, lengths or policies there are. The chunk, the slices and the modulus of
the clock are positive, the interval is shorter than a turn of the clock, and a
line is a sequence of bytes; one that is not whole is a proper piece of a message
or has one as a proper piece, which is what reading a pipe in the wrong places
can yield.

- `CredRefreshProofs`: the invariant is `RefreshTypes`, the properties' own
  `ReferencesBalance`, and four parts that make it inductive. `SlotOwner`: a
  request past the compare-exchange is the only one, and `g_refreshPending` says
  whether there is one. `EventsLock`: readers and the writer exclude each other,
  and the readers are the requests at the steps between lock and unlock.
  `SlotInv`: a slot that is not empty has its own context. `CopyInv`: so has a
  request's copy of it. `NoUseAfterRelease` then follows from the
  count: whoever uses an object is counted in it. That takes the lock: between
  `read` and `addref` a request is not yet counted, and only because no writer
  can come in between is the slot's own reference still there. The refinement
  adds `GenInv` (an outstanding request has a generation that has been) and
  `OneIsLive`, which makes the `CHOOSE` of the mapping unique.
- `PipeReadProofs`: the invariant `PipeInv` relates the reader's buffer to the
  message at the front of the pipe. `ReadInv`: at `read` the buffer is the part of
  the message from what was lost to what was taken, where `Lost` is one chunk if
  a cancelled read had completed and nothing otherwise. `TakenInv`: a message that
  has been read to its end is no longer in front, which is why a `read` that
  completes a message can tell. `CancelInv`: a cancelled chunk belongs to
  the front message or to an earlier one, never to one still to be written. The
  lemmas on `Part` (pieces of a message follow each other) are for any message.
- `AutoSubmitProofs`: `ClockInv` and `TickInv` say that the stored tick is the
  marked time modulo `Modulus`. What the code computes, a difference of two
  wrapped ticks, is then the real distance modulo `Modulus` (`Difference`), hence
  never more than the real distance (`WrappedIsShorter`): a submission granted by
  the window is late enough, and one refused is refused for a mark that is
  recent up to whole turns of the clock.
- `BrokerJsonProofs`: the scanners are `Min`, `Max` and a recursive function over
  positions. The library's induction theorems cannot be used, but its theorem that
  `<` is well founded on the naturals can: a set of naturals has a least element
  (`LeastNatural`), so the position nearest the end at which a scanner goes wrong
  is a contradiction. The same argument gives that the recursive scanner exists
  (`ScanExists`). `Lex` reads the line byte by byte as a reader without a parser
  would: outside a string, inside one, or behind a backslash in one. `ParseInv`
  says what the parser has behind it (`Parsed`): an opening brace, and since then
  strings and punctuation, with `Lex` outside a string at every position the parser
  stops at, because a token ends where the string does (`TokenLex`). What it
  accepts is therefore a message, whatever its scanners do on the way.
- `PiecesNeverPass` follows from that and from `PiecesAreNoMessages`, which is about
  lines alone. A piece that starts at the first byte and stops early has no
  closing brace outside a string, because a message has only its last
  (`BeginningIsNoMessage`). A piece that starts later and opens with a brace must
  have begun inside a string, since outside strings a message has only its first;
  there inside and outside are swapped from then on, so the piece's strings are the
  message's punctuation, and none of them says `type` (`InsideIsNoMessage`).
- `PackingProofs`, the cache: `CacheInv` says that a thread at `publish` holds an id the
  LSA gave for its package (`PublishInv`), that an empty slot has answered nobody
  and a usable one has answered everybody (`SlotInv`), and that all answers are
  given ids. An id too large for the signed slot makes it negative for good: then
  every call asks the LSA again, which is why `AnswersAgree` is about usable
  slots. The casts are dealt with once, in `CastFacts`.
- `PackingProofs`, the layout: a step of packing is a step of the cache or leaves it alone, so
  the cache's theorems carry over. `BlobsAreRead` is about the blobs of local
  accounts (and the package of any) and rests on lemmas about the
  layout: the offsets follow each other (`OffsetsFollow`), each field is
  whole behind the three copies (`FieldIsWhole`), and a cut count is never more
  than the length (`CastToUShort`); together they give `PackedReadsAs` for any
  length, header and modulus.
- `ComServerProofs`: `CountInv` says that an object's references are its clients'
  and, until it returns, the creating call's; neither `ObjectsLiveWhileHeld` nor
  the deletion in `Drop` can be followed without that one. `MakerInv` says that a
  creating call runs on a live factory, its own or one a client keeps, so
  `lockCount` is positive while it runs; this takes the client's promise in
  `MayRelease`. The lemmas say how the cardinality of the live factories moves
  when one is born or dies.
- `InstallerProofs`: `ValuesInv` says, for each phase and on either side of `at`,
  where the user's value is: still the policy, in the backup, or both. It holds as
  long as setup was not `torn`; both properties are its instances at rest.

Only model-checked:

- liveness (`MethodsReturn`, `SlotIsGivenBack`), which is out
  of this prover's reach; the bound behind `MethodsReturn` is `MethodsAreBounded`;
- `ReadsWhatWasSent`: it compares the parser with the meaning the sample lines
  were built from, so for other lines it says nothing. What the parser does for
  every line is in `AcceptedIsMessage`, `PiecesAreRefused`, `ParserStaysInLine` and
  `RefusedLeavesNothing`;
- the violations of section 3, which are counterexamples.

## 5. Not modelled

- Tile fields: constant answers without state.
- Utilities and logging: string copies, status texts, widening of UTF-8, a log
  file; nothing depends on their state.
- Of the transport, the choice of the pipe's name and its security descriptor:
  arguments of `CreateNamedPipe` without control of their own.
- Of the launch, the environment block and the second attempt without job
  breakaway: both end in "launched" or "not launched", which is modelled.
- Of the installer, prerequisites, branding pages, the rights of the local
  account and the removal of LAN profiles: calls of other programs.
- Wiping of buffers, and the memory of a cancelled `OVERLAPPED`: the models have
  values, not addresses that are written late.

## 6. Plan

What is left, in order of importance:

1. `LogonFlow`: what the provider promises LogonUI beyond the session (idle,
   running, pending, answered, asked to come back), on one thread.
2. The launch with its fall-backs, as far as a property depends on which attempt
   succeeded.
