# A TLA+ verification of aioabrp

`aioabrp` is an asyncio client library for the ABRP v2 telemetry API. Its core is
`TelemetryStream` (`src/src/aioabrp/stream.py`), a background task that keeps one
server-sent-events connection open, reconnects with backoff, filters the telemetry
through a monotonicity gate and reports to the consumer through two synchronous
callbacks. This directory holds TLA+ models of the library, the TLC configurations
that check them, and TLAPS proofs about them.

## 1. The system

| Component | State | Operations | Talks to |
|---|---|---|---|
| `TelemetryStream` (stream.py) | the task and its cancellation count, `_vehicle_ids`, `_ids_changed`, `_watch`, `_last_times`, `_stopped`, locals `delay_idx`, `saw_frame`, `disconnect_reason` | `start`, `stop`, `set_vehicle_ids`; internally `_run`, `_connect_once`, `_open_stream`, `_handle_frame`, `_gate_metrics`, `_dispatch`, `_on_task_done` | consumer callbacks, `AbstractAuth`, SSE parser, extraction, clock, asyncio |
| Gate and clamp (stream.py, _clock.py) | `_last_times` | `_gate_metrics`, `clamp_future_times`, the seed | extraction before, callbacks after |
| SSE parser (_sse.py) | text buffer, held CR, incremental decoder | `iter_sse_events`, `parse_sse_event` | HTTP body before, `_open_stream` after |
| Extraction (_extract.py) | caller-owned sets of unknown enum members already warned about | `extract_metrics` and one rule per metric kind | frame dict in, typed metrics out |
| REST client (client.py) | enum warning sets | `async_get_vehicles`, `async_get_catalog`, `async_get_current_telemetry`, `async_get_vehicle_model_display`, `_get_v2_json` | `AbstractAuth`, aiohttp, extraction |
| Typed model (models.py) | immutable values | `Telemetry.items`, `Telemetry.merge`, display names | consumer |
| Auth (auth.py) | none | `async_get_access_token` (the consumer's), `parse_unverified_identity` | stream, client |
| Declarations (_wire_types.py, const.py, exceptions.py, `__init__`.py) | none | none | |

What is hard here is the stream: one task with seven kinds of `await`, a consumer that
may start, stop and resubscribe at any of them and from inside callbacks, cancellation
requests from three sources (`stop()`, cancelled callers of `stop()`, the watchdog),
iterators that may mask them, an event that is cleared in three places, and a gate whose
mistakes show only frames later. `PROJECT.json` lists the hazards line by line.


What makes each part correct:

- **stream, lifecycle** – whoever has left `stop()` finds no task running; no callback begins
  after the first statement of `stop()`; a stream that ends by itself says so.
- **stream, subscription** – a connection is never silently out of step with
  `set_vehicle_ids`, and a parked reader or an idle task notices a change without help from
  the server.
- **stream, reconnects** – at most one frame is read from a stale connection; every attempt
  is paid for by a backoff sleep or a change; the delays follow the ladder.
- **gate** – no metric goes back in time, nothing else is withheld, no mark lies in the future.
- **consumer's contract** – callbacks come in the order CONNECTED, updates, DISCONNECTED.
- **SSE parser** – the frames do not depend on how the network cuts the bytes, and none lags.
- **extraction** – an unusable block costs its own metric only; enum drift is warned of once.
- **stream, gate, seed and merge together** – the copy a consumer accumulates is, or is about
  to be, what the server has, whatever connections, callbacks and processes were lost on the
  way; and within a process it does not go back in time, the frames that come before the first
  full state of a restarted one included.
- **REST client** – the getter's errors and cancellations pass unchanged; an auth error is
  reported exactly when credentials were refused; a bad record costs the garage the call and
  the catalog itself only.

## 2. Modules and how they correspond to the code

| Module | Models | Built on |
|---|---|---|
| `MonotonicityGate` | pure: the clamp of `_clock.py`, the gate of `_gate_metrics`, the seed | – |
| `TelemetryStream` | the background task, its consumer and the event loop | `MonotonicityGate` |
| `StreamHistory` | the same with history variables for properties about the past | `TelemetryStream` |
| `StreamContract` | abstract specification: what a consumer may rely on | `MonotonicityGate` |
| `StreamRefinement` | the mapping by which the stream implements its contract | `StreamHistory`, instance of `StreamContract` |
| `ServerSync` | the stream between the server and the consumer's accumulated, persisted copy, with restarts of the process | `TelemetryStream` |
| `PrefixFold` | a loop over a sequence, its body a parameter; with the proofs of what holds of any loop | – |
| `SseEvents` | `iter_sse_events` and `parse_sse_event` | instances of `PrefixFold` |
| `MetricExtraction` | `extract_metrics` and the dedup sets | – |
| `RestClient` | the calls of `AbrpClient` and what their bodies are read to; `parse_unverified_identity` | an instance of `PrefixFold` |
| `MCTelemetryStream`, `MCStreamHistory` | instances for TLC | |
| `TelemetryStreamProofs`, `StopProofs`, `HistoryProofs` | theorems about the stream and its gate (section 5), each module built on the one before; the first begins with the lemmas about the clamp and the gate | `TelemetryStream`; `HistoryProofs` also on `StreamRefinement` |
| `SyncProofs` | theorems about the composition | `ServerSync`, `StopProofs` |
| `SseProofs` | theorems about the SSE reader | `SseEvents` |
| `ExtractionProofs`, `RestClientProofs` | theorems about the extraction and the calls | `MetricExtraction`; `RestClient` |

`PROJECT.json` maps every definition to its lines. Definitions commented "slip" are not part
of the model: each is a plausible wrong version of the definition after it, kept to show that
a property notices it.

**`TelemetryStream`.** `pc` is the point the task has reached. The task is at an `await` for
`created` (not yet started), `idle` (`_ids_changed.wait()`), `token`, `read` (`anext` under
`asyncio.timeout`), `close` (`aclose()`), `sleep` (the backoff) and not alive for `none` and
`done`; at the other values it runs, and a consumer callback may be in progress. Nothing but
the task, or the callback it is in, acts while it runs: that is asyncio's guarantee, and the
guard `LoopFree` of everything else. One `await` to the next is one or several actions, split
only where a callback is dispatched, because a callback may call `set_vehicle_ids`.

| Code | Actions |
|---|---|
| `start` | `Start`, `StartIgnored` |
| `stop` | `Stop`, `CallerCancelled`, `StopReturns` |
| `set_vehicle_ids` | `SetVehicleIds` |
| `_run` | `TaskStarts`, `LoopTop`, `IdleWakes`, `TokenWithoutVehicles`, `TokenRejected` and `TokenFails` (both `GetterRaises`), `TokenCancelled`, `Disconnected`, `Pause`, `SleepElapses`, `TaskReturns` |
| `_connect_once`, `_open_stream` | `ConnectOnce`, `FrameArrives`, `NextAnext`, `StreamEnds`, `StreamRejected`, `StreamBug`, `ReadTimesOut`, `ReadMasked`, `CloseReturns` |
| `_handle_frame`, `_gate_metrics` | `HandleFrame`, `FrameRaises` |
| `_on_task_done` | `Tripwire` |
| asyncio | `TaskCancelled`, `WatchdogExpires`, `CallbackReturns`, `Finish`, `PreviousSettled`, `CancelTask`, `LeaveTimeout` |

asyncio is modelled from how the code uses it: `cancels` is `Task.cancelling()`,
`cancelPending` the `CancelledError` about to be thrown, `watch` the live `Timeout`, and the
end of a task schedules the tripwire before the wakeups of the callers of `stop()`, all of them
before the first step of a task created afterwards.

**`ServerSync`.** Every step of the stream is taken together with `Alongside`, what it does to
its surroundings: a frame read is the oldest one in flight (`wire`), a connection that ends
takes its frames with it, a new one owes the full state of every vehicle requested, and an
update is merged into the consumer's copy (`view`, by `Merge`) or lost in a callback that raises
(`gap` remembers on which connection). The copy of a vehicle is given up with its subscription.
The server is external and modelled from what README.md and `_gate_metrics` say of it: full
state after each connect with unchanged times (`ServerSendsState`), changes stamped by its own
clock, which may be ahead (`Skew`), or not at all (`ServerChanges`), backdated rollups, also
ahead of the full state (`ServerRollsUp`), in order within a connection. `Persists` and
`ProcessRestarts` are the consumer's storage and a killed process: the next one reads the disk,
may add one-shot snapshots (`Snapshot`: clamped, not gated), and constructs a stream seeded with
the times of what it then has. A block's content is named by its stamp, so two contents with the
same stamp are not told apart.

**`PrefixFold`.** A Python loop that carries a state over a sequence is an instance of this
module, with the body of the loop as its `Step`: decoding bytes (`Decoder`), normalising line ends
(`Normalizer`), splitting lines (`Splitter`), collecting the data lines (`Collector`), building the
catalog (`Catalog` of `RestClient`).

**`SseEvents`.** A response is a sequence of byte classes, and a chunk may be any part of it.
The reference (`Reader`, with `LineEnded`, `LineGrows`, `Yield`, and `Finished` at the end) does not
follow the code: it is the line grammar of the SSE standard, applied to the whole text character by
character, with no buffer, no normalising and no search for blank lines.

**`MetricExtraction`.** A leaf is represented by what the code tests about it (missing, null,
text, bool, NaN or infinite, a number, an integer beyond the float range). One metric stands
for each rule; WIRE_KEYS order matters only because an exception abandons the frame.

**`RestClient`.** One record says which await the call is at, what it met there, how it ended
and with what value. The client is stateless (its dedup sets are in `MetricExtraction`), so one
call at a time is enough. Bodies are sequences of records whose columns are classes of JSON
values, read by operators that follow the code: the first bad garage record ends the call, the
catalog is a fold in which a later record of a typecode replaces an earlier one.

## 3. What the runs check

| Run | Instance | Shows |
|---|---|---|
| `lifecycle` | 2 vehicles, no metrics, 2 callers of `stop()` (fresh, or in the cleanup of a cancelled task), every masking, ladder of 2 | types, the subscription invariants, `stop()`, silence, no silent death |
| `stop_callers` | 2 callers, nothing masks a cancellation | who leaves `stop()` with a `CancelledError` |
| `history` | 2 vehicles, 2 metrics, times 0..1, 1 caller, every masking, ladder of 3 | gate, pacing, ladder, and the refinement `ImplementsContract` |
| `liveness` | 1 caller, every masking, a getter that may be cancelled | the four liveness properties |
| `sse` | every response of up to 6 symbols over 8 byte classes, every cut | chunking is invisible, nothing lags |
| `extraction` | 2 sources, 1 member unknown to both enums, frames of 1 or 2 blocks | tolerance matrix, drift warnings |
| `sync` | 1 vehicle, 1 metric, times 0..2, a server clock 1 ahead, 3 frames in flight, no caller of `stop()` | nothing current is lost (`Synchronised`), nothing goes back (`CopyNeverOlder`), the copy becomes current again (`Converges`) |
| `rest_client` | calls of any of 4 endpoints, bodies of up to 3 records, login tokens | the error taxonomy, the reading of the bodies |

Why the bounds are enough. Two vehicles distinguish one that stays from one that changes;
vehicles, metrics and callers are treated alike, so the safety runs use symmetry. Two callers
are needed for one that is cancelled while the other waits. A caller is cancelled at most once
per call of `stop()`: `stop()` looks only at whether the count is zero. Two times and "no time"
give every comparison of a block with a stored mark and with the clock (older, equal, newer,
future). A ladder of three has a first, a middle and a last delay. Six symbols hold a complete
CR LF terminated event, or an LF terminated one and the beginning of the next, with a cut at every
place; two complete events in one response are covered by the theorem `CutsDoNotMatter`, which
has no bound. A frame of two blocks has every order of a raising and a drifting block.
In `sync` a vehicle that leaves and comes back needs no second one: the empty set is a vehicle
set, and vehicles share nothing but the connection. Three times and a clock that is one ahead
have a rollup that is older by more than the clocks differ, and a stamp that is clamped. With one
metric `Merge` never has to keep what a delta lacks; only the theorem `CopySynchronised` covers
copies and deltas of several metrics. Three
frames in flight hold a rollup, the full state and a change. Nobody calls `stop()` there; a task
that dies or gives up is started again all the same. Three records of a body have an unusable
one between two with the same typecode.
Every property that a theorem states is also established without these bounds, and every safety
property of the runs above is stated by one.

`CHECK_DEADLOCK FALSE` appears in `sse` only: a response ends.

### Fairness

`LoopFairness` is what asyncio's loop guarantees and what the callback contract demands: a
task that can run does, scheduled calls are made, a sleep elapses, callbacks return.
`CloseFairness` says that closing a response ends; the code does not bound it, so the
properties that go through `close` depend on aiohttp here. Nothing is assumed of the server,
the token getter, or the consumer's calls. The watchdog's own timer is not part of the fairness
either; it is the premise of the one property about it, `EveryReadEnds`, so that the others
cannot hold by waiting for a stall.

`Converges` is about a world that need not cooperate, so its premises are in the property:
`Cooperation` (tokens come, the server sends what it owes, frames arrive, an idle connection is
closed at some time, the "natural ~200 s idle close" of stream.py) and that from some moment on
every step is `Calm` (no change, failure, rollup, raising callback or restart). The specification
of the run assumes `LoopFairness` and `CloseFairness` only.

## 4. Where code and documentation differ

Each of these is a run that TLC ends with a counterexample.

- `stop_in_cleanup` – a caller that had been cancelled earlier, and calls `stop()` in its
  cleanup, gets the *task's* `CancelledError` re-raised, although it was not interrupted in
  `stop()`. The comment in `stop()` reserves that for a caller cancelled while parked there.
- `late_tripwire` – `start()` between the failure of the task and its done-callback: the new
  stream is then reported dead ("internal error").
- `getter_cancels` – a `CancelledError` raised by the token getter itself is outside both
  exception bands, and the stream ends without an event. `auth.py` promises that anything
  but `AbrpAuthError` is transient.
- `extraction_total` – an integer too large for a float makes `math.isfinite` raise;
  "Extraction never raises on frame content".

Three more, without a run of their own:

- README.md (Lifecycle) says of a `wait_for(stop())` that times out: "the resulting `TimeoutError`
  means the stream **may still be running** — the stop was interrupted, not completed", and the
  comment in `stop()` (stream.py, at `await task`) says the same. The code does not behave so.
  asyncio forwards the cancellation of a caller parked on `await task` to the task, and wakes the
  caller only when that task is done: the `TimeoutError` comes late rather than early, and the
  stream has stopped by then. `StopLeavesNothingRunning` states this, and so contradicts the
  documents: no caller, interrupted or not, leaves `stop()` before the task is done. `lifecycle`
  checks it with callers cancelled while parked and with every masking, and the theorem `StopStops`
  proves it for all constants. The other side of it is that a `wait_for` cannot cut a
  `stop()` short: it returns no sooner than the task ends.
- An infinite `vehicle_id` makes `int()` raise `OverflowError`, which `async_get_vehicles` does not
  translate into `AbrpApiError` (`OutcomeTellsCause` names this exception), and neither does a
  snapshot with a number that has no float.
- The docstring of the constructor says that the seed makes a reconnect "not re-deliver values
  already seen"; values of equal time are delivered again, which README.md calls by design and
  `Synchronised` needs.

`OwnCancelPropagates` is checked with nothing masking the cancellation. When the iterator masks
it the task ends normally, and a caller that was cancelled while parked returns normally too.

## 5. What is proved

All theorems hold for arbitrary finite or infinite sets of vehicles, metrics, callers and sources,
any ladder, `MaxTime`, clock skew, number of frames in flight and length of a body, and for event
streams of any length over any alphabet, cut in any way. They rest on
the assumptions named in the modules (`MaxTimeAssumption`, `NoTimeAssumption`,
`BackoffAssumption`, `ModesAssumption`, `LeavesAssumption`, `EndpointsAssumption`, ...), which TLC
evaluates in the runs, and four of them on a hypothesis of their own, discussed below.

| Theorem | States | Argument |
|---|---|---|
| *TelemetryStreamProofs* | | |
| `TypeCorrect` | `TypeOK` | `TypeInv` adds `ExpiryCounted` (an expiring timeout has its own cancellation counted, so taking it back stays in `Nat`) and `EndExplained` (an ended attempt has a reportable reason) |
| `SubscriptionCorrect`, `ParkedReaderWoken`, `IdleTaskWoken`, `ForcedTimeoutExplained` | `SubscriptionFresh`, `ChangeWakesReader`, `IdleNotStranded`, `ForcedTimeoutIsChange` | the four are inductive only together (`SubscriptionInv`), given `TypeInv`: the flag is cleared only where the ids are read again, and a read begins with the flag clear |
| *StopProofs* | | |
| `StopStops` | `StopLeavesNothingRunning` | `StopInv`: a live task of a stopped stream has a caller parked on it, and a parked caller has a live task |
| `StopSilences` | `SilentOnceStopping` | from `StopHeld`: `_stopped` stays set until `start()`, and `_dispatch` tests it |
| `DeathIsReported` | `NoSilentDeath`, if `GetterCancels = FALSE` | `CancelInv`: a live task of a stopped stream has a cancellation pending or counted, any other has none but its own timeout's; `DeathInv`: a task that returns unstopped has reported AUTH_FAILED |
| `StopRaisesRightly` | `StopRaisesOnlyWhenInterrupted`, if no caller was cancelled before its call | `CallerInv`: a caller that was fresh when it called `stop()` has a count of 0 until it is cancelled inside |
| `OwnCancelRaises` | `OwnCancelPropagates`, if `Masking = {}` | `CallerInv`: a task that masks nothing stays at its await until the cancellation is thrown and then ends cancelled, so `stop()` takes the branch that looks at the caller's own count |
| `HighWater` | `HighWaterReachable` | every stored time has been clamped and the clock does not step back |
| `OnlySubscribed` | `UpdatesOnlySubscribed` | only `HandleFrame` delivers |
| *HistoryProofs* | | |
| `GateIsWhatWasShown` | `GateMatchesShown` | `HandleFrame` never runs on a stopped stream (`CancelInv`), so what it stores is never suppressed |
| `NeverRegresses`, `NeverWithholds` | `NoRegression`, `NothingWithheld` | from the previous one and the gate's rule for one block |
| `HistoryTypeCorrect`, `OneStaleFrame`, `RetriesAreEarned`, `LadderIsFollowed` | `HTypeOK`, `OneFrameAfterChange`, `NoFreeRetries`, `LadderFollows` | `HistoryInv`: a stale frame was read under a flag that ends the attempt before the next read (`StaleOnce`), a set flag is an unspent change (`FetchEarned`), and the ladder index is the capped number of failures unless a frame is about to reset it (`LadderKept`) |
| `ContractImplemented` | `ImplementsContract`, if `GetterCancels = FALSE` | the refinement, see below |
| *SyncProofs* | | |
| `SyncTypeCorrect`, `CopySynchronised`, `CopyAdvances` | `SyncTypeOK`, `Synchronised`, `CopyNeverOlder` | `SyncInv`, see below |
| *ExtractionProofs* | | |
| `EachDriftWarnedOnce` | `WarnedOnce` | per source, enum and member: a warning and the entry in the set happen in the same step |
| `DriftLeavesTrace` | `DriftReported` | a frame that did not raise was read to its end, so a dropped member is in the set of its enum by then, and `WarnedOnce` says what that means |
| `ToleranceMatrix`, `ExtractionTyped` | `TolerantExtraction`, `TypeOK` | `ValueSound`: rule by rule, a block that does not raise has a value exactly if it has usable data; `FrameTolerated` carries that to a frame of any number of blocks |
| *RestClientProofs* | | |
| `CallTyped`, `AuthFailureIsRejection`, `CauseIsTold` | `TypeOK`, `AuthExactlyWhenRejected`, `OutcomeTellsCause` | `CallInv`: what a call has met follows from the await it is at (`Progress`), so the step that ends it decides its outcome; the first bad record of a garage of any length exists because the naturals are well-founded |
| `RecordsAreKept` | `RecordsKept` | `CatalogFinds`: after any number of records the catalog has, of each typecode seen, the last record; by induction over the records |
| *SseProofs* | | |
| `SseTyped`, `CutsDoNotMatter`, `YieldedInTime` | `TypeOK`, `ChunkingInvisible`, `NothingLags` | `SseInv`, see below |

**Induction over sequences.** The induction theorems of the library take an operator as parameter,
which the provers cannot instantiate. Two things make induction possible all the same. The least
element of a nonempty set of naturals (`LeastNat`, from `WFMin`) gives induction over *sets* of
naturals, and from it over sets of sequences (`SeqSets`): a set that holds the empty sequence, and
with a sequence each one that is longer by an element, holds them all. And the body of a loop is a
*constant* of `PrefixFold`, so the lemmas proved there of any `Step` (`FoldEmpty`, `FoldAppend`,
`FoldConcat`: the loop over nothing, over one more element, over two sequences in turn) hold of
every instance.

**The two readers.** The SSE reader interleaves four things, decoding, normalising, splitting and
parsing, on a buffer of the text not yet yielded. `SseInv` compares two runs of the reference
reader: one over all the text that the bytes so far decode to, and one that starts afresh, after the
frames already yielded, and reads the buffer. Without the CR that may stand at the very end, they are
`Abreast`: they have yielded the same, gathered the same data and the same part of a line; and the
text ends in CR exactly if the buffer does. A chunk moves both by the same characters (`ChunkAbreast`:
the normalised text reads like the text, `NormalizedReads`; the decoder may pause between any two
bytes, `DecodedConcat`). A yielded event moves neither, only the place where the second one starts
(`EventAbreast`: what is split off by the first blank line holds just the lines the reader has
gathered when it gets there, `EventGathered`). At the end of the response both read what the flush
adds (`EndAbreast`), and a malformed event fails both for good (`FailedForGood`). The invariant
needs the detour over `Settled` because normalising forgets which line ends were a CR. That matters
for the last character only, where an LF may follow, and there the buffer keeps the CR.

**The refinement.** `StreamRefinement` maps the task to the phase its consumer knows it in. A step
of the stream either leaves the contract's variables alone or is the contract's action of the
callback it dispatches. What the contract forbids is excluded by `RefinementInv`, the conjunction
of the invariants of the other modules and of `HeardInv`: what the consumer heard last determines
at which points the task can be (CONNECTED only while an attempt that has seen a frame lasts, and so
on). Initial states map to initial states (`RefinementInit`), and `RefinementStep` has a case for
each group of actions.

**The copy and the server.** `Synchronised` is not inductive: it says nothing of the order of the
frames in flight. `SyncInv` adds (1) `NothingAhead`: no time anywhere, in flight, stored, seeded or
persisted, is beyond the server's clock or beyond its newest block; (2) `GateMirrorsCopy`: the gate
stores the times of the copy, but for what a callback lost; (3) `ConnectionCurrent`: of a vehicle
whose full state has been sent, every metric's newest block has been taken or is in flight, and an
older block in flight is either followed by the newest or is a rollup; where the newest has been
taken, the gate is high enough to bar every rollup. (1) is what lets the gate pass the newest block
when it comes, (3) what keeps an older one from undoing it.

**The hypotheses.** `GetterCancels = FALSE` says that the token getter raises no `CancelledError`
of its own. Without it both statements are false, as the run `getter_cancels` shows: it is an
obligation of the consumer which `auth.py` does not name. `"cleanup" \notin CallerModes` says
that no task calls `stop()` after it has itself been cancelled: the run `stop_in_cleanup` shows
what happens otherwise. `Masking = {}` says that neither the iterator, the teardown of the response
nor the getter turns a `CancelledError` into something else; section 4 says what happens otherwise.

### Only model-checked

The liveness properties (`StopCompletes`, `ChangedReadEnds`, `AlwaysRetries`, `EveryReadEnds`,
`Converges`): fairness is out of the prover's reach. And the counterexamples of section 4, which
are about instances.

## 6. What is not modelled

- The values of metrics: no control decision looks at them. Wire times are small integers.
- A wall clock that steps back: marks then lie in the future until it has caught up.
- A token getter that swallows a cancellation and returns a token all the same; one that turns
  it into an error is modelled.
- The time that passes while a restarted process takes a snapshot, clamps it and seeds the new
  stream: `ProcessRestarts` does the three at one reading of the clock.
- Other errors of `json.loads` than `JSONDecodeError` (a recursion too deep, an integer with too
  many digits): `_sse.py` does not turn them into `AbrpApiError`, so they are not the malformed
  frames of `SseEvents`; in the stream they are among the errors of `StreamBug`.
- `start()` and `stop()` from inside a callback: both are coroutines, and a callback can only
  schedule them, so they run when the loop is free.
- `model_name` and `display_name` of `models.py`: composition of text.
- The wire types, the constants, the test CLI: declarations, or pure I/O.
- Backdated corrections that are newer truths: README.md names them a known limitation of the
  gate, so the server of `ServerSync` sends none; nor does its clock jump back, and its rollups
  are older than the current block by more than the clocks differ.
- A consumer that merges a one-shot snapshot while the stream is running: the library leaves that
  policy to it.

## 7. Plan

Done, in this order: gate; stream (lifecycle, loop, attempt); history and contract; proofs of
types, subscription, `stop()`, silence, death, gate; SSE; extraction; REST client with its bodies;
composition with the server, the accumulated copy and restarts; proofs of the pacing, the ladder,
the callers of `stop()`, the refinement of the contract, the composition with the server, the
extraction and the calls of the REST client; induction over sequences, and with it the catalog and
the SSE reader.

Not planned: a composition of `SseEvents` with the stream. What crosses that boundary, the frames
before a malformed event and its error, is in `SseEvents` already (`Deliver`, `BrokenOff`), and the
stream accepts any sequence of frames and either end.
