# TLA+ models of tradebot

This directory holds TLA+ models of the trading jobs in `src/`. It has TLC configurations that model-check them on small instances. It also has TLAPS proofs of their main safety properties for every value of the constants.

## The system

- **Limiter** (`src/limiter/limiter.go`) keeps one limit order on the exchange at a price point.
  - `Run` reconciles the orderMap with the exchange (`fetchOrderMap`). It returns at once when nothing is pending, and fails when more than one order is live. Otherwise it reuses the live order as the active order.
  - `Run` then subscribes to tickers and order updates and loops over a `select` with four cases:
    - context canceled: cancel the active order, save and return;
    - flush timer: save if dirty;
    - order update: `updateOrderMap`, and clear the active order when it is done;
    - ticker: hold, size-limit and side policy, which lead to `cancel` and `create`.
  - `create` takes a client id from the idgen and reverts it on failure. It sizes the order from the pending size, the size limit and the product minimum.
  - `Save` compacts the orderMap in memory, then writes the orderMap and the idgen offset in one transaction. `Load` rebuilds the job from the store.
- **Looper** (`src/looper/looper.go`) alternates buy and sell limiters of one product.
  - `Run` loops while the context lives. In order: with no buys, add one; run the last buy while it is pending; add the cycle's sell when it is missing; run the last sell while it is pending; otherwise add the next buy. A failed step is logged and retried after a sleep.
  - `addNewBuy` first waits for a ticker above the buy price. `addNewSell` does not wait.
  - Both create the limiter, append it and call `Looper.Save` in one transaction, which saves every limiter and then the uid list. They remove the limiter again when the save fails.
  - `Load` rebuilds the lists from the stored uid list and each limiter's stored state.
- **Control plane and reports** (`src/subcmds/...`, `src/server/exchange.go`, `src/unnamed/part_000`): the pause command, the waller summary, the waller query and the exchange RPC forwarding. They are requests and printed reports, with no state machine of their own.

The exchange, seen through the `exchange.Product` interface, and the key-value store are the environment of the Limiter.

## Modules

| Module | What it is |
|---|---|
| `Limiter.tla` | The Limiter job with the exchange and the store as environment |
| `MCLimiter.tla` | TLC instance: the ticker prices |
| `LimiterProofs.tla` | Type correctness (`TypeCorrect`) |
| `LimiterSafety.tla` | The inductive invariant and the safety theorems |
| `LimiterFills.tla` | The fill-order invariant `FillsOrdered` and the theorem that a recorded fill never drops |
| `LimiterAbstract.tla` | What a limiter promises its caller: its pending size only goes down, a save records it, a restart resumes from the last save |
| `Looper.tla` | The Looper, with each limiter seen through `LimiterAbstract` |
| `LooperProofs.tla` | The Looper's inductive invariant and its safety theorems |
| `LooperSlots.tla` | The proof that every limiter slot of the Looper refines `LimiterAbstract` |

### How `Limiter.tla` corresponds to the code

**State.**

| Variables | Code |
|---|---|
| `known`, `lord` | the orderMap: its ids and, per order, filled size and done |
| `offset` | the idgen offset |
| `dbKnown`, `dbOrd`, `dbOffset` | what `Save` last wrote under `/limiters/<uid>` |
| `pc`, `active`, `dirty`, `lastSizeLimit` | where `Run` is and its locals |
| `tk`, `why`, `newLimit` | values carried from a ticker case to the cancel or create it issues |
| `xn`, `xord` | the exchange's orders |
| `updates` | the order-update channel of the current subscription |
| `hold`, `sizeLimitOpt`, `ctxDone` | the options and the job's context |

- Sizes are integers in units of the size quantum.
- The orders of the job are the exchange indices `1..xn`. Order `i` carries client id `i-1`.

**Actions.** `Run` is split at each RPC, because other steps interleave there.

| Action | Code |
|---|---|
| `RunFetchFails`, `RunComplete`, `RunStart` | lines 260-303 |
| `Subscribe` | lines 305-316 |
| `CtxDone`, `Flush`, `OrderUpdate`, `Ticker(t)` | the four select cases, lines 318-430 |
| `CancelOk`, `CancelFails` | `cancel`, and the code after each call of it |
| `CreateOk`, `CreateFails` | `create` |
| `Finish` | the code after the loop, lines 433-441 |

- Every Save is the whole of `Save`: compaction of memory, then the write, or a failed transaction that may or may not have compacted memory first.
- `fetchOrderMap` is a single step. When a `Get` fails, any subset of the orders fetched before it keeps the new value.
- `CreateFails` covers two cases: the request was rejected, or the exchange placed the order and the reply was lost. Both count against the error budget. The request runs under `localCtx` (line 308), so a pause does not make it fail.

**Environment.**

- `Crash` restarts the process from the store, as `Load` does.
- `Fill` fills a live order and pushes the update to a subscribed `Run`.
- `Pause`, `Resume`, `SetHold` and `SetSizeLimit` are the job control.
- The exchange is idempotent on client-order-id (`ExchangePlace`): a request that reuses a client id gets the existing order.

**Fairness** (`FairSpec`):
- *Weak fairness of `Limiter`*: the goroutine of `Run` takes a step whenever it has one.
- *Strong fairness of `CtxDone`*: Go's `select` picks at random among the ready cases. The ctx case, ready again each time the loop comes back to the select, is therefore taken eventually.
- The exchange, the store and the control plane get no fairness.

**The refinement.** `Limiter.tla` ends with `ALim == INSTANCE LimiterAbstract WITH pending <- Pending, savedPending <- PendingOf(dbKnown, dbOrd)`. The `Refines` property states that the limiter's behaviour is a behaviour of `ALim!ASpec`.

### How `Looper.tla` corresponds to the code

| Variables | Code |
|---|---|
| `nb`, `ns` | `len(v.buys)`, `len(v.sells)` |
| `bp[i]`, `sp[i]` | `Pending()` of the limiters `buy-i` and `sell-i` in memory |
| `dbNb`, `dbNs` | the buys and sells in the uid list stored under the looper's key |
| `dbBp[i]`, `dbSp[i]` | the pending size stored under `/limiters/buy-i` and `/limiters/sell-i` |
| `pc` | where `Run` is: the top of its loop, `addNewBuy`'s ticker wait, a limiter's `Run`, or returned |
| `ctxDone` | `ctx.Err() != nil` |

| Action | Code |
|---|---|
| `WaitForBuy`, `RunLastBuy`, `AddNewSell`, `RunLastSell` | the branches of `Run`'s loop, lines 96-145, with guards in the code's order |
| `AddNewBuy` | `addNewBuy` after the ticker wait |
| `Append` | `limiter.New`, the append, `Looper.Save`, and the rollback when the save fails |
| `SaveLooper` | `Looper.Save`: every limiter's pending size and the uid list, in one write |
| `LimiterProgress`, `LimiterCompletes`, `LimiterReturns` | the limiter's `Run`: recorded fills and saves, completion, and return (nil, an error, or the cancellation) |
| `Crash` | `Load` after a restart |
| `Stop`, `Pause`, `Resume` | `Run` returning `context.Cause(ctx)`, and the job control |

- The model does not run a full Limiter inside the Looper. It uses the interface the refinement run checks: pending goes down, saves record it, a restart goes back to the last save.
- `LimiterProgress` is exactly `LimiterAbstract`'s `Progress`, and `Crash` resets the pending sizes as `Restart` does.
- `Pending()` has no floor. An overfill (the `limiter_overfill` finding, or a create raised to `BaseMinSize`) takes it below zero, so a pending size ranges over `-Overfill..Size`. `LimiterCompletes` is enabled only at a pending size of zero or more: the limiter's loop (`limiter.go:318`) runs while Pending is not zero, so an overfilled limiter never completes.

**Fairness of the Looper** (`FairSpec`):
- *Weak fairness of the Looper goroutine's steps*: the dispatch, `Stop`, `AddNewSell` and `LimiterReturns`.
- *Market assumptions*: weak fairness of `AddNewBuy` (the ticker eventually rises above the buy price) and of `LimiterCompletes` (a resting order eventually fills the rest). This says nothing about an overfilled limiter, for which `LimiterCompletes` is not enabled.
- No fairness for `Pause`, `Resume`, crashes, failed saves or failed runs. They are bounded by `MaxCrashes` and `MaxErrors`.

PROJECT.json's `map` gives the source lines behind every definition.

## Runs

| Run | Config | Properties | Result |
|---|---|---|---|
| `limiter_sell` | `MCLimiter.cfg` | TypeOK, ExchangeAtMostOneLive, NoOrderForgotten, LocalFillMonotone | pass |
| `limiter_inductive` | `MCLimiterInductive.cfg` | IInv, FillsOrdered | pass |
| `limiter_overfill` | `MCLimiterOverfill.cfg` | NoOverfill | violation |
| `limiter_local_live` | `MCLimiterLocalLive.cfg` | AtMostOneLiveLocal | violation |
| `limiter_min_size` | `MCLimiterMinSize.cfg` | CreateWithinPending | violation |
| `limiter_refines` | `MCLimiterRefines.cfg` | Refines | pass |
| `limiter_cancel_live` | `MCLimiterLive.cfg` | CanceledRunReturns | pass |
| `looper_slots` | `MCLooperSlots.cfg` (module `Looper`) | SlotsFresh, SlotsRefine | pass |
| `looper` | `MCLooper.cfg` (module `Looper`) | LTypeOK, CyclesBalanced, DoneBeforeNext, ListsSaved, LInv, CyclesCompleteUnlessOverfilled | pass |
| `looper_stall` | `MCLooperStall.cfg` (module `Looper`) | AllCyclesComplete | violation |

**The properties of the passing runs:**
- `ExchangeAtMostOneLive`: at most one order is live on the exchange.
- `NoOrderForgotten`: every order whose client id lies below the memory or stored offset, and which is live or has filled, is in the matching orderMap.
- `LocalFillMonotone`: outside a restart, a recorded fill never decreases.

These hold across lost create replies, failed cancels, fetches and saves, a crash that rolls the offset back to the last save, and reuse of a live order.

- `Refines`: the limiter implements `LimiterAbstract`. Neither an order update, a fetch nor compaction raises the pending size. A save writes the pending size in memory, and a crash resumes from it. A compaction that drops a filled done order breaks this, because it would raise Pending.
- `CanceledRunReturns`: once the job's context is canceled, `Run` returns, from wherever it is. This includes a cancel that fails, a cancel that finds the order done, and a `create` in flight.
  - `Run` calls `create` and `cancel` with `localCtx = context.Background()` (line 308), so a pause does not cut them short. The create finishes, or fails within the error budget, and the ctx case of the next select returns.
  - One state is excused (`CreateBoundReached`): a create with every order id and every failure of the instance used up. It has no step left in the model, while the code's request always returns.
- **Looper** (`looper`, three cycles):
  - `CyclesBalanced`: `|buys| - |sells|` is 0 or 1, in memory and in the store.
  - `DoneBeforeNext`: every limiter the Looper has moved past is complete, in memory and in the store.
  - `ListsSaved`: the Looper runs only limiters the store lists.
  - `LInv`: the inductive invariant proved in `LooperProofs`.
  - `CyclesCompleteUnlessOverfilled`: unless the job stays paused or a limiter is overfilled, every cycle completes. This holds across failed saves, failed limiter runs and restarts. The unconditional form, `AllCyclesComplete`, is the `looper_stall` violation.
- **Looper's limiters** (`looper_slots`, same bounds, `LSpec` without fairness):
  - `SlotsRefine`: each limiter slot `buy-i` and `sell-i` behaves as `LimiterAbstract` says, under the mapping `pending <- bp[i]`, `savedPending <- dbBp[i]` (and the same for sells). It is written as one instance per slot, `BuyLim(i) == INSTANCE LimiterAbstract WITH ...`, with the quantifier over the slots inside the box, so that TLC can check it. It fails if `addNewBuy` could recreate, from nothing, a limiter whose uid had already traded. That happens when a failed save is not rolled back and a restart then reloads the older list: the fresh limiter's pending size goes up without a restart.
  - `SlotsFresh`: the slots beyond the lists hold a fresh limiter, in memory and in the store. This is the invariant that `SlotsRefine`'s proof rests on.
- `FillsOrdered` (in `limiter_inductive`): the strengthening behind `LocalFillMonotone`; see Proofs.

**The violation runs** record disagreements with spec.md (see "findings" in PROJECT.json):
1. The exchange can fill more than `point.Size` (`NoOverfill`). `create` sizes the order from a Pending that misses fills of a just-canceled order still queued on the update channel.
2. The orderMap can hold two orders that are not done (`AtMostOneLiveLocal`). A cancel does not mark its order done, and a create can come before the done update.
3. `create` can order more than is pending (`CreateWithinPending`). The size is raised to `BaseMinSize` after it is clamped to pending.
4. The Looper can stop making progress for good (`AllCyclesComplete`, run `looper_stall`). An overfilled limiter has a negative Pending, so its `Run` loop (`limiter.go:318`) never ends and never returns nil. `Looper.Run` (`looper.go:109`) then reruns that limiter forever, while spec.md says the Looper waits for each limiter to complete and moves on.

Finding 2 concerns the orderMap only. The next `Run` still reconciles, because `fetchOrderMap` (line 269) refreshes both orders before the count at lines 286-297.

The `BUY` side has no run of its own. It differs from `SELL` only in `IsTickerSideReady`, which says which ticker prices are ready and which cancel. With tickers {1, 3} on either side of `Cancel = 2`, its state graph is the `SELL` one with the two tickers swapped.

**Bounds.**

| Constant | Value | Why it is enough |
|---|---|---|
| `Size` | 2 | a partial fill exists |
| `SizeLimits` | {1, 2} | the size-limit cancel happens |
| `MaxOrders` | 2 | a second order can be placed while the first is live or filled |
| `MaxCrashes`, `MaxErrors` | 1 each | every failure path is reached |
| `TickerPrices` | {1, 3} | one price on each side of `Cancel = 2` |

- The min-size run uses `BaseMinSize = 2` with `Size = 3` so that the pending size can fall below the minimum.
- `MCLimiterInductive.cfg` has also been run at `MaxOrders = 3`, with 6.1 million states.

- The Looper runs (`looper` and `looper_slots`) use `BuySize = 2`, `SellSize = 1`, `MaxCycles = 3`, `MaxCrashes = 2`, `MaxErrors = 2` and `Overfill = 1`. With these, a crash can fall between a limiter's progress and its save, and a failed save can hit an append of either side. The third cycle starts only after two complete ones, a limiter of either side can overfill, and 2,313 states are reached.
- The liveness run uses the safety bounds.

Each property of the passing runs has a mutant in PROJECT.json that TLC finds violating it:
- dropping `RevertID`;
- reverting twice;
- not advancing the idgen;
- not reusing the live order at start;
- compacting away filled done orders;
- going back to the loop after the ctx case's cancel;
- starting a buy without checking the last sell;
- saving only the uid list;
- not rolling back a failed append;
- creating the sell at the buy point;
- running the last buy without checking that it is pending;
- ending `Run` on a failed limiter run instead of retrying;
- keeping the order-update stream of a `Run` after it returns (`stopUpdates` not deferred), so that the next `Run` reads stale updates.

## Proofs

`LimiterProofs.TypeCorrect` proves `Spec => []TypeOK`. It is proved through `TypeInv`, which is TypeOK plus "in the cancel state the active order is an order id".

`LimiterSafety.InductiveInvariant` proves `Spec => []IInv`. `AtMostOneLive` and `OrdersNeverForgotten` follow from it. `IInv` is the conjunction of:
- **TypeOK**.
- **CidIsIndex**: the exchange orders carry client ids `0, 1, ...` in order. This holds because the idgen hands ids out in sequence and the exchange only adds an order for an unused id. It turns "client id below the offset" into "index at most offset".
- **OffsetOrder**: `dbOffset <= offset <= xn`.
- **KnownSound** for memory and for the store: every entry is below its offset, and an entry marked done has the exchange's final state.
- **LiveTracked** for both: every order below the offset that is live, or has filled, is in the map, and a live one is not done there.
- **UpdatesSound**: a queued done update carries the final state.
- **ActiveSound** and **ActiveTracksLive**: while `Run` is subscribed, the only live order below the offset is the active one, and there is none before a create.
- **ExchangeAtMostOneLive**.

The invariant has to be this strong for three reasons:
- A crash reloads the stored map. That map must already track every live order below the stored offset, so that a rerun create either reuses a client id or finds no live order.
- `create` must find no live order below the offset.
- Compaction must drop only orders the exchange also has done and unfilled.

The proof has one lemma per action and one step per conjunct the action can disturb. `TLC` checks `IInv` as an invariant in `limiter_inductive`.

`LooperProofs.LooperInductive` proves `LSpec => []LInv`. `BalancedCycles`, `PassedLimitersComplete`, `ListsAlwaysSaved` and `LooperTypeCorrect` follow from it. `LInv` is the conjunction of:
- `LTypeOK`, `CyclesBalanced`, `DoneBeforeNext` and `ListsSaved`;
- **RunningLast**: while the last buy runs, its sell does not exist (`ns = nb - 1`), and while the last sell runs, the cycle has both (`ns = nb`). The running limiter is therefore never one the Looper has moved past, in memory or, through `ListsSaved`, in the store.
- **WaitingAfterCycle**: during `addNewBuy`'s ticker wait, the condition `Run` checked before it still holds. Nothing else of the Looper moves meanwhile.

The invariant has to be this strong for three reasons:
- `AddNewBuy` needs the cycle it follows to be complete.
- `LimiterProgress` must only touch a limiter beyond the passed ones.
- A crash loads the stored half, so the stored half must satisfy the same invariant as memory.

The proof has one lemma per action. Each lemma proves `LInvCore`, the invariant without the Boolean `ctxDone`, with the SMT solver. The Boolean part is proved once, with Zenon.

The assumptions are named in `Limiter.tla`: positive `Size` and `BaseMinSize`, `Price # Cancel`, size-limit values in `1..Size` with `Size` among them, and natural bounds.

`LimiterFills.FillsInvariant` proves `Spec => [](IInv /\ FillsOrdered)`. `LocalFillsNeverDrop` derives from it the action property `LocalFillMonotone`: outside a restart, no step lowers a fill recorded in the in-memory orderMap. `LocalFillMonotone` alone is not inductive, because a step applies a queued update or a fetched state that the property says nothing about. `FillsOrdered` is the conjunction of:
- the update stream is empty unless `Run` is subscribed. A new `Run` therefore never applies an update of the one before it, which could be older than what the new `Run` fetched;
- both orderMaps record at most the exchange's fill. A fetch or a reload therefore never lowers a fill, because the exchange's fill only grows;
- every queued update records at most the exchange's fill, and at least what the in-memory map records for its order;
- the queued updates of one order are in increasing fill, so applying the head keeps the rest at least the map's fill.

The proof has one lemma per action, and `TLC` checks `FillsOrdered` in `limiter_inductive` first. Dropping the deferred `stopUpdates` breaks the first conjunct.

`LooperSlots.LooperRefinesLimiters` proves `LSpec => SlotsRefine` for every size and bound. `SlotsAlwaysFresh` proves `LSpec => [](LInv /\ SlotsFresh)`. The refinement step needs two facts:
- `SlotsFresh`, at `AddNewBuy`/`AddNewSell`: the new limiter takes a slot whose pending size is the full size already, so the append is a `Progress` step that changes nothing;
- `ListsSaved` from `LInv`, at `Crash`: it keeps `SlotsFresh` true after a restart reloads the stored lists.

Each action then moves each slot as `Progress` (append, save, limiter progress and completion, and the steps that touch no slot) or as `Restart` (a crash).

**Only model-checked:**
- the three violations;
- sums over orders (`MapThenSumSet`), which the provers cannot unfold;
- liveness and ENABLED, which are beyond TLAPS: `CanceledRunReturns` and `CyclesCompleteUnlessOverfilled`;
- the refinement `Refines`. Its step is the fact that no limiter action raises `Pending`, and that needs sums over orders;
- properties of recursive definitions, for which TLAPS has no usable induction.

## Not modelled

- **Waller summary** (`src/subcmds/waller/get.go`): it reads limiter statuses and prints decimal sums, rates and durations. Nothing in it changes state, and it has no concurrency.
- **Waller query** (`src/unnamed/part_000`): a command-line query that formats figures of a waller spec. It is pure I/O and arithmetic formatting.
- **Exchange RPC server** (`src/server/exchange.go`): it forwards requests to the exchange client and has no state of its own.
- **The Looper's `check()` and `Status`**: validation of the points and a report.
- **The pause command**: it is modelled only through its effect, `Pause`.
- **`Refresh`**: it is `fetchOrderMap` under the same lock as `Run`, so it interleaves with nothing new.
- **`Fix`**: it does nothing.
- **`clientServerMap`**: it is never written by `create`.
- **The V1-to-V2 state upgrade and the legacy key rewrite in `Load`**: the model keeps the single key layout.

## Plan

Done:
- the Limiter;
- the Looper, with its proofs;
- the refinement of `LimiterAbstract` by `Limiter`;
- liveness of cancellation and of the Looper's cycles;
- proofs of `LocalFillMonotone` and of the Looper's refinement of `LimiterAbstract` per slot.

Next:
1. A composition that runs a full `Limiter` instance for the Looper's last limiter, checked against `Looper` by refinement.
2. Liveness of a single Limiter: a job whose orders fill completes. This needs strong fairness of a successful exchange reply.
