# TLA+ models of the aiOps bundler

These modules model the aiOp lifecycle of the bundler in `src/`. The lifecycle has four stages:

1. Ingress validation.
2. The persistent mempool.
3. The reputation engine.
4. The batch pipeline that ends in a searcher-mode (block-builder) submission.

The TLC configurations check the lifecycle's safety and liveness properties. `PROJECT.json` lists the components, runs, mutants, the source map, the findings and the hazards.

## The system

`SearcherMode` (`src/unnamed/part_004`) wires two pipelines that share one KV store (badger).

* **Ingress** runs on one goroutine per `eth_sendAiOperation` request. The request context reads the op's pending sender, factory and paymaster ops from the mempool when it is built. The client modules then run in order:
  1. `CheckStatus` and `ValidateOpLimit` (`part_002`).
  2. `ValidateOpValues` and `SimulateOp`.
  3. `IncOpsSeen`.

  Finally `mempool.AddOp` inserts the op, or replaces the op with the same (sender, nonce). Each module that writes uses its own store transaction, so the pending-op snapshot can be stale by the time the op is added.
* **The bundler** ticks every second. `Process` dumps the mempool in FIFO order and truncates it (`adjustBatchSize`). It then runs, in order:
  1. `DropExpired`, `SortByGasPrice`, `FilterUnderpriced`, `SortByNonce`.
  2. `MaintainGasLimit` (`batch/gaslimit.go`).
  3. `CodeHashes`, `PaymasterDeposit`, `SimulateBatch`.
  4. `BuilderClient.SendAiOperation` (`part_000`).
  5. `IncOpsIncluded`.
  6. `Clean`.

  Any module error ends the tick. The later modules, including `IncOpsIncluded` and `Clean`, then do not run.
* **`SendAiOperation`** works in stages:
  1. It copies `ctx.Batch` into `opts.Batch`.
  2. It loops on `estimateGas(handleOps(opts.Batch))`, removing the op named by each `FailedOp` from `ctx.Batch`.
  3. It returns nil on an empty batch.
  4. It builds the no-send transaction and broadcasts it to every builder for each of `blocksInTheFuture` blocks. It fails only if every call failed.
  5. It waits for inclusion, 72 s by default.
* **Ingress validation by simulation** (spec 4.4 steps 3-5). `ValidatePaymasterAndData` (`checks/paymaster.go`) checks the paymaster's length, code and deposit. `SimulateValidation` (`simulation/simulatevalidation.go`) decodes the revert of `simulateValidation`. `TraceSimulateValidation` (`simulation/tracevalidation.go`) runs `debug_traceCall`, assigns the frames to the account, factory and paymaster (`newKnownEntity`, `part_001`), and checks each entity's opcodes in a loop over a Go map. It then checks CREATE2 use, runs `storageSlotsValidator.Process` (`storageslots.go`) per entity in a second map loop, and checks the call stack.
* **Gas.** `MaintainGasLimit` counts each op's gas with a static PVG computed by `gas.Overhead` (`overhead.go`). Ingress and `eth_estimateAiOperationGas` use the same `CalcPreVerificationGas`, optionally with an L1 plug-in (`pvg.go`) and a buffer.
* **The chain** is the environment. Ops are included, chain state changes make pending ops fail validation, ops age past `MaxOpTTL`, and a bundle whose wait timed out can still land in one of its target blocks.

## Modules

| Module | Models | State | Actions / operators |
|---|---|---|---|
| `AiOp` | the op record as the pipeline sees it | – | `Key`, `GetFactory`, `GetPaymaster`, `RoleCount`, `OutbidsFees` |
| `Mempool` | the keyed FIFO store (spec 4.2; `pkg/mempool` is not in `src/`) | `mempool` | `Dump`, `GetOpsBy*`, `AddAllowed`, `AddOp`, `RemoveOps` |
| `Reputation` | `entities.Reputation` handlers (`part_002`) | `opsSeen`, `opsIncluded` | `Status`, `CheckStatus`, `ValidateOpLimit`, `IncOpsSeen`, `IncOpsIncluded` |
| `Bundler` | the composed lifecycle (`part_004`, `part_000`, `gaslimit.go`, `utils.go`) | all of the above, plus client `pc`/`req`, `tick`, `batch` (ctx.Batch), `optsBatch` (opts.Batch), `pendingRemoval`, `sent`, `stale`, `onChain`, `invalid`, `expired` | `IngressAccept`, `IngressReject`, `IngressAdd`, `BuildBatch`, `EstimateRevert`, `EstimateOk`, `EstimateEmpty`, `TickError`, `Broadcast`, `WaitIncluded`, `WaitTimeout`, `CountIncluded`, `Clean`; environment actions `LandSent`, `LandStale`, `DropStale`, `Invalidate`, `Expire`; the host's `Crash` |
| `MCBundler` | model values for TLC | – | op records `a1`, `a2` (a replacement of `a1`), `b1` and `a3`, and the sets the runs use |
| `StorageRules` | the inputs of one `Process` call and the code's classification of an access, free of iteration order (`storageslots.go`, `part_001`) | the inputs: `access`, `codeless`, `keccak`, stakes, initCode, entity name | `StorageSlotsOf`, `IsAssociatedWith`, `Addr2KnownEntity`, `SenderSlotNeedsStake`, `Class`, `CodeAccepts`, `ExpectedAltIds` |
| `StorageCheck` | what `Process` promises, as one atomic step (the abstract spec) | `verdict`, `ids` | `Decide` |
| `StorageSlots` | `storageSlotsValidator.Process` step by step | the loop state: `pc`, `addrsLeft`, `cur`, `modesLeft`, `mode`, `slotsLeft`, `mustStakeSlot`, `altIds`, `result` | `CheckContractSizes`, `NextContract`, `NextMode`, `NextSlot` (`SenderAssociated`, `OtherSlot`), `SlotsDone`, `CheckStake` |
| `MCStorageSlots` | model values for TLC | – | sender, factory, paymaster and one other contract; two slots; one alt-mempool exception |
| `TraceRules` | the inputs of one validation by simulation, and the code's rule for each part of the trace | `hasInitCode`, `pmLen`, `stakedIn`, `pmCode`, `deposit`, `sim`, `traceOk`, `infoIn`, `storage`, `calls` | `frames`, `NewKnownEntity`, `PaymasterAndDataError`, `SimulateError`, `EntityError`, `Create2Error`, `CallError`, `Touched` |
| `TraceCheck` | what validation promises, as one atomic step (the abstract spec) | `verdict`, `touched`, `ids` | `Decide` |
| `TraceValidation` | `ValidatePaymasterAndData`, `SimulateValidation`, `TraceSimulateValidation` step by step | `pc`, `known` (knownEntity), `left`, `ic`, `altIds`, `ci`, `result` | `ValidatePaymasterAndData`, `SimulateValidation`, `TraceCall`, `EntityStep`, `CheckCreate2`, `StorageStep`, `StorageDone`, `CallStep`, `CallsDone` |
| `MCTraceValidation` | model values for TLC | – | per-entity infos, `Process` outcomes, call frames |
| `Overhead` | `gas.Overhead` (`overhead.go`) and the PVG plug-ins (`pvg.go`) | – | `DefaultOverhead`, `SetCalcPreVerificationGasFunc`, `SetPreVerificationGasBufferFactor`, `Pack`, `CalcCallDataCost`, `CalcPerAiOpCost`, `Sanitize`, `StaticPVG`, `CalcPVGFuncNoop`, `CalcArbitrumPVG`, `CalcOptimismPVG`, `CalcPVGFunc`, `CalcPreVerificationGas`, `CalcPreVerificationGasWithBuffer` |
| `BundleGas` | the `MaintainGasLimit` loop (`batch/gaslimit.go`), the basefee projection of `BuilderClient.SendAiOperation` (`part_000:103-109`), and estimate-then-send | `call`; `batch`, `i`, `sum`, `bat`, `gasDone`; `baseFee`, `k`, `mbf`; `est`, `sentOp` | `GasStep`, `FeeStep`, `Project`, `Estimate`, `Send`, `Mga` |
| `BundlingMode` | `Bundler.Run`, `Bundler.Stop` and the goroutine Run starts (`src/.gitlab-ci.yml:245-282`), and the debug handlers `SetBundlingMode` and `SendBundleNow` (`debug.go:76-108`) | `isRunning`, `n` (goroutines started), `stopFn` (the ticker `stop` names), `gpc` (each goroutine's place), `stopped`, `buf` (each ticker's one-slot channel), `pc` (each request), `calls` | `SetManual`, `StopSet`, `SetAuto`, `RunStart`, `SetOther`, `SendBundleNow`, `BundleNowDone`, `Tick`, `ReceiveTick`, `ProcessDone`, `ReceiveDone` |
| `MCBundleGas` | input sets for TLC | – | three ops `opA`, `opB`, `opC`, basefees 1..24, ops to estimate (with `opD`), the three plug-ins, gas fills and signatures |

How the state and actions correspond to the code:

* **Ingress.** One ingress request is two steps. `IngressAccept`/`IngressReject` is the module stack run against the current mempool snapshot, including `IncOpsSeen`. `IngressAdd` is the later `AddOp` transaction.
* **Validation in `Bundler`.** `ValidateOpValues`, `SimulateOp`, `CodeHashes`, `PaymasterDeposit`, `SimulateBatch` and `FilterUnderpriced` are abstracted to one verdict, `Valid(op)`: the op's key is not spent on chain, and the environment has not invalidated it. `TraceValidation` models what lies behind that verdict at ingress.
* **The tick.** `BuildBatch` is one tick up to `SendAiOperation`. The estimation loop is one step per loop iteration. `MarkOpIndexForRemoval(i)` removes nothing when `i` is beyond `ctx.Batch`. `CountIncluded` (`IncOpsIncluded`) and `Clean` (the `Clean` module and `Process`'s `RemoveOps`, `.gitlab-ci.yml:213-225`) are separate steps, because each is its own store transaction.
* **Crashes.** `Crash` is the process dying at any point and restarting. The badger store it reopens (`part_004:50`) keeps the mempool and the counters. The tick's context and the requests in flight are lost. A bundle the wait was watching goes to `stale`, because the builders still hold it. Crashes are unbounded, since a crash leads only to states of the same kind. `HostMayCrash` turns them on in `core` and off in the violation runs, whose counterexamples need no crash.
* **Storage slots.** Each iteration of the three Go `range` loops of `Process` (contracts, then read/write modes, then slots) is one step. The next element is chosen with `\E` from what is left, because Go map iteration order is unspecified. The branches of the slot loop are `SenderAssociated` (lines 135-141) and `OtherSlot` (lines 142-158: must stake, alt-mempool exception, or forbidden). Keccak preimages are pairs (address, hash). A slot is associated with an address when it lies in `[s, s + offset]` for an `s` whose preimage begins with that address. The offset is scaled down from 128 to 1, with slots on both sides of a window edge.
* **Trace validation.** Each stage is one step, and each iteration of the two `for title, entity := range knownEntity` loops and of the call-stack loop is one step. The map loops pick any entity not yet visited. `knownEntity` is computed once, when the trace arrives (line 78). The trace is abstracted to what the rules read: per entity an info record (OOG, EXTCODE* access to the middleware, banned and unstaked-banned opcodes, CREATE2 count, sized contracts), per entity the outcome of `Process`, and the call stack as records (method, target, value, whether the return decodes, whether the context is non-empty). The chain's answers are chosen in `Init`.
* **Bundling mode.** `src/.gitlab-ci.yml` holds the bundler package. `Run` and `Stop` read and write `isRunning` without a lock, so the check (`SetManual`, `SetAuto`) and the update (`StopSet`, `RunStart`) are separate steps. `Stop` then blocks on the unbuffered `done` channel until a goroutine in its `select` takes the value (`ReceiveDone`). A ticker's channel holds one tick, and a tick is dropped when it is full. `Process` is abstracted to a start and an end, because `Bundler` models what it does. The bundler starts in auto mode, because `SearcherMode` calls `Run` at startup (`part_004:173`).
* **Gas.** A byte string is abstracted to its length and its number of zero bytes, which is all `CalcCallDataCost` and `CalcPerAiOpCost` read. `Pack` lays the op out as spec 4.1 describes: 11 head words, and a length word plus padded data per byte field. `Mga(op)` is the gas `MaintainGasLimit` counts: `GetMaxGasAvailable` with the declared PVG replaced by the static PVG. An `Overhead` is a record. Its plug-in (`calcPVGFunc`) and `pvgBufferFactor` are the two fields its setters change. `BundleGas` runs one computation per behaviour (`call`): the gas loop, the projection, or a client's estimate followed by its send. `big.Int` arithmetic has no width, so none is imposed.

## Runs

| Run | Expect | Question |
|---|---|---|
| `core` | pass | `TypeOK`, `ReputationNeverOvercounts` (opsIncluded ≤ the chain's count), `IncludedWereSeen` (the chain's count ≤ opsSeen), with the host crashing at any step |
| `throttle_bypass` | violation | `ThrottleHonoured`: a throttled sender with ≥ ThrottledEntityMempoolCount pending ops is rejected (spec 4.3) |
| `limit_race` | violation | `UnstakedLimitsHeld`: no unstaked sender, factory or paymaster exceeds its pending-op limit |
| `estimate_drop` | violation | `RemovalOnlyOfFailing`: the estimation loop only marks failing ops |
| `estimate_hang` | violation | `TickReturns`: every tick returns |
| `late_inclusion` | violation | `IncludedMatchesChain`: when no bundle can still land, opsIncluded equals the chain's count |
| `replacement_lost` | violation | `NoLiveOpLost`: an op leaves the mempool only if replaced, spent, failing or expired |
| `slots_order` | pass | `TypeOK`, `ProcessImplementsCheck`: under every map iteration order `Process` returns, with the verdict and alt-mempool ids of `StorageCheck` (a refinement, checked with its liveness) |
| `gas_loops` | pass | `TypeOK`, `KeepsLongestPrefixUnderLimit`, `ProjectionCoversTargets` (the projected fee cap is at least the highest basefee EIP-1559 allows at every target block), `EstimateThenSendAccepted` (under every plug-in and buffer factor, an op sent with its estimated PVG passes the ingress PVG check however the client fills in gas limits and signs) |
| `trace_order` | pass | `TypeOK`, `ValidationImplementsCheck`: under every order of the two map loops, validation returns with the verdict, touched contracts and alt-mempool ids of `TraceCheck` (a refinement, checked with its liveness) |
| `trace_value_spec` | violation | `NoValueTransferAccepted`: an accepted op's trace has no value transfer except to the middleware (spec 4.4) |
| `mode_race` | violation | `ModeHonoured`: once `SetBundlingMode` has returned, auto mode has exactly one goroutine bundling on the ticker and manual mode has none |

### What the violations show

* **`throttle_bypass`.** `CheckStatus` compares the pending count with `==` (`part_002:46`, `:64`, `:83`). Consider a sender that holds 2 pending ops while its status is ok, and then becomes throttled. With a threshold of 1, the sender is admitted again.
* **`limit_race`.** Two clients both read an empty pending set, and both add an op. The unstaked sender then holds 2 ops against a limit of 1. Because of `==`, no later request is rejected either. The factory and paymaster limits (`part_002:120`, `:137`) use the same read-then-add pattern, and the property covers them too.
* **`estimate_drop`.** `opts.Batch` is stale. After the first revert removes `a1` from `ctx.Batch`, the next estimate of `opts.Batch` = `<<a1, b1>>` names index 1 again, which removes the valid `b1`. `Clean` then deletes it.
* **`estimate_hang`.** `b1` is added first and `a1` second, so the batch is `<<b1, a1>>`. The failing op is `a1` at index 2. After it is removed, `ctx.Batch` has length 1, and every further revert names index 2. Nothing is removed and the loop never ends.
* **`late_inclusion`.** The wait times out and the bundle lands afterwards. `opsIncluded` never counts it.
* **`replacement_lost`.** `a1` fails and is marked for removal. The client sends `a2` (same key, higher fee) during the tick, and `Clean` deletes `a2` by key.
* **`trace_value_spec`.** The call-stack loop is an if/else-if chain whose first branch matches the `validatePaymasterAiOp` selector (`tracevalidation.go:146`). In that branch only the decoded context is checked. A frame with that selector that carries value to another contract is never tested against the value rule (line 164), so the op is accepted.

* **`mode_race`.** Two concurrent `SetBundlingMode` calls, first "manual" and then "auto". The manual call's `Stop` clears `isRunning`, stops the ticker and blocks sending on `done`. The auto call then sees `isRunning` false and `Run` starts a second ticker and goroutine. The new goroutine is the first to reach `select`, so it takes the `done` value (`.gitlab-ci.yml:281`) and returns. Both requests return "ok", the bundler reports running, and no goroutine bundles on a ticker. A later `Stop` would block forever on `done`, because the old goroutine waits on its stopped ticker and on `done` with no sender. Two concurrent "auto" calls race the same way on the unlocked check at line 246.

The storage-slot rules of the code are stricter than the wording of spec 4.4, and agree with ERC-7562. A staked entity may not write a slot of an unrelated contract (line 151), an unstaked entity needs stake to read its own associated slot, and sender-associated slots need stake when there is initCode (lines 136-137). `slots_order` checks the code's rules (`CodeAccepts`), not the spec's wording.

Two worked examples of spec 8 disagree with the code and with the spec's own formulas. Neither is a code bug, so no run checks them:

* Scenario 4 (ten 2M ops under 18M leave nine). The ninth op brings the sum to exactly 18M, and `sum >= max` (`gaslimit.go:29`) drops it, so eight remain. The spec's 5 × 5M example (three kept) agrees with the code.
* The basefee projection example. Six iterations of `mbf*1125/1000+1` from 1000 give 1126, 1267, 1426, 1605, 1806 and 2032, not the 2028 the spec states.

## Bounds

* **Entities.** Two senders, one factory and one paymaster, all unstaked. These are enough for every role combination that `RoleCount` distinguishes.
* **Ops.** 2 to 3 ops per run. The op `a2` replaces `a1`. The gas values (2 and 3 against a limit of 5) make `MaintainGasLimit` cut exactly at the `>=` boundary.
* **Requests.** `MaxRequests` (3 or 4) bounds the requests in a behaviour. Every path of interest (a replacement, a duplicate, two batches) needs at most 4.
* **Targets.** Two (builder, block) targets, so that partial broadcast failure occurs.
* **Reputation constants.** `MinInclusionRateDenominator = 1` and slacks of 1 to 5 make throttling reachable within those few requests.
* **Storage slots.** At most two accesses (contract, mode, slot) per trace, over the sender, the paymaster and one other contract and two slots. Slot 11 is sender-associated through preimage hash 10, slot 30 factory-associated through 29, each only when the trace holds that preimage. Two accesses are the fewest for which iteration order can matter, such as a forbidden access and a must-stake access. Every stake flag, entity and initCode choice is enumerated.
* **Trace validation.** Every answer of the chain that makes a check fail is in the input sets: each trace rule has an entity info that breaks it, and every branch of the call-stack loop has a frame. `MaxFaults = 2` lets at most two answers deviate from a clean validation, so two failures of different entities meet in both orders of the map loops, and a failure meets an alt-mempool id collected before it. Call stacks have up to `MaxCalls = 2` frames. Deposits 0 and 1 against a prefund of 1 hit the `<` boundary.
* **Bundling mode.** Two clients, both allowed to switch the mode, and `MaxCalls = 3` debug calls per behaviour. A manual call followed by an auto call is the shortest race. The third call lets a goroutine that is left over run or be stopped again.
* **Gas loops.** Batches of up to 4 ops drawn from `opA`, `opB` (with a paymaster, so verification gas counts three times) and `opC`. `MCLimit` is the gas of `opA` and `opB` together, so a batch reaches it exactly. Basefees 1..24 over 6 blocks cover the range below 8, where `p/8` is 0 and EIP-1559's minimum step of 1 is what the `+ 1` must cover.
* **Estimation.** A client estimates with zero gas fields and a signature holding zero bytes, then fills in gas values whose words hold 0 to 3 zero bytes and signs with a signature of the same length but different bytes. These are the fields whose bytes change between estimate and send. The node's `Overhead` has any of the three plug-ins and a buffer factor of 0 or 10. `opB` and `opD` take the two branches of the Optimism L2 price: the tip plus the head basefee, or the fee cap when that is lower.

## Fairness

`StorageSlots` and `TraceValidation` model plain function calls. Once called they run to the end, so their `Spec` has weak fairness on `Next`. Their refinement properties include the abstract spec's weak fairness on `Decide`, so the runs also check that the call returns. `BundleGas` is a set of terminating loops with no liveness checked. These runs set `CHECK_DEADLOCK FALSE`, because a returned call has no successor.

`BundlingMode` has no fairness. Its one run checks a safety property.

`Bundler`'s `Spec` assumes weak fairness on `BundlerStep`, the bundler's own steps:

* The ticker keeps firing `Process`, and each RPC eventually answers.
* `TickError` is not fair: the code never guarantees that an RPC succeeds, so an error outcome is never forced.
* The environment (the chain, the clock and host crashes) is not fair.
* Ingress clients are not fair: nobody has to send requests.

## Not modelled

* **Relayer (direct mode).** No wiring under `src/` constructs it. Its estimation loop (`part_010:79-91`) is the same text as the builder's, so the `estimate_drop` and `estimate_hang` findings carry over.
* **The rest of the debug RPC.** `debug.go` says its methods are for testing and must not be available in production. `SetBundlingMode` and `SendBundleNow` are modelled in `BundlingMode`. `ClearState` and `SetReputation` are single store transactions, and the `Dump*` methods only read. A `ClearState` that leaves reputation in place though its comment says it clears it, and an `Override` (`part_002:216`) that discards the error it joins, are listed in `PROJECT.json` as hazards without runs. `SendBundleNow` runs `Process` concurrently with the ticker's `Process`. That race is listed as a hazard, since `Bundler` has one tick at a time.
* **`SetMaxBatch` after `Run`.** In debug mode `SetMaxBatch(1)` is called after `Run` has started the goroutine (`part_004:181`). The first tick can see the old value. This is listed as a hazard without a run.
* **The tracer and the RPC errors of the PVG plug-ins.** The tracer's output is the input of `TraceValidation`. A plug-in's RPC error makes `CalcPreVerificationGas` return an error and is not modelled. No wiring under `src/` installs either plug-in: `SearcherMode` keeps the default overhead (`part_004:95`). The Optimism plug-in is modelled, but its division by a zero L2 price (`pvg.go:168`) is a panic and not a property. Its head basefee and L1 fee are read at each call, and they can move between estimate and send. The model keeps them fixed (`HeadBaseFee`, `L1Fee`), so `EstimateThenSendAccepted` says nothing about that drift (`pvg.go:111`).
* **A client that changes `paymasterAndData` after estimating.** The Arbitrum plug-in sanitizes `paymasterAndData` before it calls the precompile, and its comment says that variation in that field changes the precompile's answer (`pvg.go:43-45`). The model's client changes gas limits and the signature between estimate and send (`GasFills`, `Signatures`) but keeps `paymasterAndData`, so `EstimateThenSendAccepted` does not cover that variation.
* **An off-by-one in the association window.** `StorageCheck` and `StorageRules` share `IsAssociatedWith` (`storageslots.go`), so `ProcessImplementsCheck` checks that `Process` is free of map iteration order, not that the `slot` window is right. `Class` and `CodeAccepts` state the rules independently of the iteration, but the window itself is translated only once. The `TraceCheck` and `StorageCheck` refinements are close to the structure of the code they check: they show order independence and the shape of each stage, not a second statement of the rules.
* **Multiple frames per entity.** `newKnownEntity` keeps the last frame of each entity. The model produces the one frame per entity that `simulateValidation` makes.
* **Reputation decay.**
* **Configuration and declarations.** Configuration parsing, the ABI declarations (`methods/handleops.go`) and the RPC value types (`utils/values.go`) have no state changes.
