------------------------------ MODULE Bundler ------------------------------
(***************************************************************************)
(* The aiOp lifecycle of a searcher-mode bundler (src/unnamed/part_004):   *)
(* concurrent ingress requests run the client module stack                 *)
(*   CheckStatus, ValidateOpLimit, ValidateOpValues, SimulateOp, IncOpsSeen *)
(* and write the op to the mempool, while the bundler loop runs, one tick  *)
(* at a time, the batch module stack                                       *)
(*   DropExpired .. SimulateBatch, SendAiOperation, IncOpsIncluded, Clean  *)
(* against a chain that changes under it.                                  *)
(*                                                                         *)
(* The chain is the environment: a set of included ops (their keys are     *)
(* spent), ops that chain changes have made invalid, ops past their TTL,   *)
(* and sent bundles that may still land in a target block.  The host may  *)
(* crash: the store (mempool and reputation) survives on disk, the tick    *)
(* and the requests in flight do not.                                      *)
(***************************************************************************)
EXTENDS Mempool, Reputation

CONSTANTS
    Clients,            \* concurrent ingress requests (HTTP handlers)
    MaxRequests,        \* bound: eth_sendAiOperation calls in a behaviour
    MaxBatch,           \* Bundler.maxBatch, 0 for no truncation
    MaxBatchGasLimit,
    Targets,            \* (builder, target block) pairs a bundle is sent to
    NoOp,               \* no request in hand
    HostMayCrash        \* whether the host may crash and restart

ASSUME
    /\ MaxRequests \in Nat /\ HostMayCrash \in BOOLEAN /\ MaxBatch \in Nat /\ MaxBatchGasLimit \in Nat
    /\ Targets # {} /\ NoOp \notin Ops

VARIABLES
    pc,             \* pc[c]: "idle" or "add" (modules passed, AddOp next)
    req,            \* req[c]: the op request c carries
    requests,       \* requests received so far
    tick,           \* the bundler loop's position in Process
    batch,          \* ctx.Batch
    optsBatch,      \* opts.Batch, captured when SendAiOperation begins
    pendingRemoval, \* ctx.PendingRemoval
    sent,           \* ops of the bundle this tick broadcast
    sentLanded,     \* that bundle is on chain
    stale,          \* bundles of timed-out ticks that may still land
    onChain,        \* ops included on chain
    invalid,        \* ops that chain changes have made fail validation
    expired         \* ops older than MaxOpTTL

ingressVars == <<pc, req, requests>>
tickVars == <<tick, batch, optsBatch, pendingRemoval, sent, sentLanded>>
chainVars == <<stale, onChain, invalid, expired>>
vars == <<mempool, opsSeen, opsIncluded, ingressVars, tickVars, chainVars>>

TickStates == {"idle", "estimate", "broadcast", "wait", "finish", "clean"}

\* What simulation against the current chain says of op: its key is not
\* spent and nothing on chain has invalidated it.
Valid(op) == Key(op) \notin KeysOf(onChain) /\ op \notin invalid

-----------------------------------------------------------------------------
(***************************************************************************)
(* Batch helpers.                                                          *)
(***************************************************************************)

\* adjustBatchSize (part_009).
AdjustBatchSize(max, b) == IF Len(b) > max /\ max > 0 THEN SubSeq(b, 1, max) ELSE b

\* MaintainGasLimit (batch/gaslimit.go): walk the batch accumulating each
\* op's gas, stop before the op whose sum reaches the limit.
RECURSIVE GasCut(_, _)
GasCut(b, sum) ==
    IF b = <<>> THEN <<>>
    ELSE IF sum + Head(b).gas >= MaxBatchGasLimit THEN <<>>
    ELSE <<Head(b)>> \o GasCut(Tail(b), sum + Head(b).gas)

MaintainGasLimit(b) == GasCut(b, 0)


\* MarkOpIndexForRemoval(i): move ctx.Batch[i] to PendingRemoval; an index
\* past the end of ctx.Batch marks nothing.
MarkOpIndexForRemoval(i) ==
    IF i <= Len(batch)
    THEN /\ batch' = RemoveAt(batch, i)
         /\ pendingRemoval' = pendingRemoval \cup {batch[i]}
    ELSE UNCHANGED <<batch, pendingRemoval>>

\* The FailedOp of handleOps names the first op of the batch that fails.
FirstFailing(b) == CHOOSE i \in DOMAIN b : ~Valid(b[i]) /\ \A j \in 1..(i - 1) : Valid(b[j])

-----------------------------------------------------------------------------
(***************************************************************************)
(* Ingress: eth_sendAiOperation.  The context reads the pending ops of the *)
(* op's entities from the mempool, the modules run and IncOpsSeen counts   *)
(* the op; AddOp is a later, separate store transaction.                   *)
(***************************************************************************)
RunModules(op) ==
    LET pso == GetOpsBySender(op.sender)
        pfo == GetOpsByFactory(GetFactory(op))
        ppo == GetOpsByPaymaster(GetPaymaster(op))
    IN  /\ CheckStatus(op, pso, pfo, ppo)
        /\ ValidateOpLimit(op, pso, pfo, ppo)
        /\ Valid(op)

IngressAccept(c) ==
    /\ pc[c] = "idle"
    /\ requests < MaxRequests
    /\ \E op \in Ops :
          /\ RunModules(op)
          /\ IncOpsSeen(op)
          /\ pc' = [pc EXCEPT ![c] = "add"]
          /\ req' = [req EXCEPT ![c] = op]
    /\ requests' = requests + 1
    /\ UNCHANGED <<mempool, opsIncluded, tickVars, chainVars>>

IngressReject(c) ==
    /\ pc[c] = "idle"
    /\ requests < MaxRequests
    /\ \E op \in Ops : ~RunModules(op)
    /\ requests' = requests + 1
    /\ UNCHANGED <<mempool, opsSeen, opsIncluded, pc, req, tickVars, chainVars>>

\* mempool.AddOp: insert or replace; an underpriced duplicate is refused.
\* A fresh entry has a fresh first-seen time.
IngressAdd(c) ==
    /\ pc[c] = "add"
    /\ IF AddAllowed(req[c])
       THEN /\ AddOp(req[c])
            /\ expired' = expired \ {req[c]}
       ELSE UNCHANGED <<mempool, expired>>
    /\ pc' = [pc EXCEPT ![c] = "idle"]
    /\ req' = [req EXCEPT ![c] = NoOp]
    /\ UNCHANGED <<requests, opsSeen, opsIncluded, tickVars, stale, onChain, invalid>>

-----------------------------------------------------------------------------
(***************************************************************************)
(* The bundler loop: Bundler.Process(middleware) and its modules.          *)
(***************************************************************************)

\* Dump, adjustBatchSize, then DropExpired, the sorts, FilterUnderpriced,
\* MaintainGasLimit, CodeHashes, PaymasterDeposit and SimulateBatch: ops
\* past TTL and ops that fail against the chain go to PendingRemoval; ops
\* past the gas limit stay in the mempool for a later tick.  Opts captures
\* ctx.Batch as SendAiOperation begins.
BuildBatch ==
    /\ tick = "idle"
    /\ LET dumped == AdjustBatchSize(MaxBatch, Dump)
           live   == SelectSeq(dumped, LAMBDA op : op \notin expired)
           cut    == MaintainGasLimit(live)
           kept   == SelectSeq(cut, Valid)
       IN  /\ batch' = kept
           /\ optsBatch' = kept
           /\ pendingRemoval' = (ToSet(dumped) \cap expired) \cup (ToSet(cut) \ ToSet(kept))
    /\ tick' = "estimate"
    /\ UNCHANGED <<mempool, opsSeen, opsIncluded, ingressVars, sent, sentLanded, chainVars>>

\* SendAiOperation, the estimation loop: estimateGas(handleOps(opts.Batch)).
\* A FailedOp drops the op at its index from ctx.Batch and loops; success
\* sets the gas limit and leaves the loop; an empty ctx.Batch returns nil.
EstimateRevert ==
    /\ tick = "estimate"
    /\ Len(batch) > 0
    /\ \E i \in DOMAIN optsBatch : ~Valid(optsBatch[i])
    /\ MarkOpIndexForRemoval(FirstFailing(optsBatch))
    /\ UNCHANGED <<mempool, opsSeen, opsIncluded, ingressVars, tick, optsBatch,
                   sent, sentLanded, chainVars>>

EstimateOk ==
    /\ tick = "estimate"
    /\ Len(batch) > 0
    /\ \A i \in DOMAIN optsBatch : Valid(optsBatch[i])
    /\ tick' = "broadcast"
    /\ UNCHANGED <<mempool, opsSeen, opsIncluded, ingressVars, batch, optsBatch,
                   pendingRemoval, sent, sentLanded, chainVars>>

EstimateEmpty ==
    /\ tick = "estimate"
    /\ Len(batch) = 0
    /\ tick' = "finish"
    /\ UNCHANGED <<mempool, opsSeen, opsIncluded, ingressVars, batch, optsBatch,
                   pendingRemoval, sent, sentLanded, chainVars>>

\* Any module error ends the tick: nothing is cleaned, nothing counted.
TickError ==
    /\ tick \in {"estimate", "broadcast"}
    /\ tick' = "idle"
    /\ batch' = <<>> /\ optsBatch' = <<>> /\ pendingRemoval' = {}
    /\ UNCHANGED <<mempool, opsSeen, opsIncluded, ingressVars, sent, sentLanded, chainVars>>

\* Broadcast the no-send handleOps(opts.Batch) transaction to every
\* (builder, block) target; fail with ErrFlashbotsBroadcastBundle when every
\* call failed, otherwise wait for inclusion.
\* The same handler with a zero WaitTimeout: no wait for inclusion.
BroadcastNoWait ==
    /\ tick = "broadcast"
    /\ \E results \in [Targets -> BOOLEAN] :
          IF \A t \in Targets : ~results[t]
          THEN /\ tick' = "idle"
               /\ batch' = <<>> /\ optsBatch' = <<>> /\ pendingRemoval' = {}
               /\ UNCHANGED sent
          ELSE /\ tick' = "finish"
               /\ sent' = ToSet(optsBatch)
               /\ UNCHANGED <<batch, optsBatch, pendingRemoval>>
    /\ UNCHANGED <<mempool, opsSeen, opsIncluded, ingressVars, sentLanded, chainVars>>

Broadcast ==
    /\ tick = "broadcast"
    /\ \E results \in [Targets -> BOOLEAN] :
          LET shouldFail == \A t \in Targets : ~results[t]
          IN  IF shouldFail
              THEN /\ tick' = "idle"
                   /\ batch' = <<>> /\ optsBatch' = <<>> /\ pendingRemoval' = {}
                   /\ UNCHANGED sent
              ELSE /\ tick' = "wait"
                   /\ sent' = ToSet(optsBatch)
                   /\ UNCHANGED <<batch, optsBatch, pendingRemoval>>
    /\ UNCHANGED <<mempool, opsSeen, opsIncluded, ingressVars, sentLanded, chainVars>>

\* transaction.Wait with the default 72 s timeout: a receipt ends the
\* handler with txn_hash set; the timeout is an error, yet the bundle stays
\* with the builders and may still land.
WaitIncluded ==
    /\ tick = "wait"
    /\ sentLanded
    /\ tick' = "finish"
    /\ UNCHANGED <<mempool, opsSeen, opsIncluded, ingressVars, batch, optsBatch,
                   pendingRemoval, sent, sentLanded, chainVars>>

WaitTimeout ==
    /\ tick = "wait"
    /\ tick' = "idle"
    /\ stale' = IF sentLanded THEN stale ELSE stale \cup {sent}
    /\ batch' = <<>> /\ optsBatch' = <<>> /\ pendingRemoval' = {}
    /\ sent' = {} /\ sentLanded' = FALSE
    /\ UNCHANGED <<mempool, opsSeen, opsIncluded, ingressVars, onChain, invalid, expired>>

\* IncOpsIncluded over ctx.Batch, its own store transaction.
CountIncluded ==
    /\ tick = "finish"
    /\ IncOpsIncluded(batch)
    /\ tick' = "clean"
    /\ UNCHANGED <<mempool, opsSeen, ingressVars, batch, optsBatch, pendingRemoval,
                   sent, sentLanded, chainVars>>

\* The Clean module, then Process's own RemoveOps: remove the batch and
\* every pending removal from the mempool.
Clean ==
    /\ tick = "clean"
    /\ RemoveOps(ToSet(batch) \cup pendingRemoval)
    /\ tick' = "idle"
    /\ batch' = <<>> /\ optsBatch' = <<>> /\ pendingRemoval' = {}
    /\ sent' = {} /\ sentLanded' = FALSE
    /\ UNCHANGED <<opsSeen, opsIncluded, ingressVars, chainVars>>

-----------------------------------------------------------------------------
(***************************************************************************)
(* The chain and the clock.                                                *)
(***************************************************************************)

\* A builder includes the bundle: handleOps only lands when every op in it
\* still validates.
LandSent ==
    /\ tick = "wait" /\ ~sentLanded
    /\ \A op \in sent : Valid(op)
    /\ onChain' = onChain \cup sent
    /\ sentLanded' = TRUE
    /\ UNCHANGED <<mempool, opsSeen, opsIncluded, ingressVars, tick, batch, optsBatch,
                   pendingRemoval, sent, stale, invalid, expired>>

LandStale(b) ==
    /\ \A op \in b : Valid(op)
    /\ onChain' = onChain \cup b
    /\ stale' = stale \ {b}
    /\ UNCHANGED <<mempool, opsSeen, opsIncluded, ingressVars, tickVars, invalid, expired>>

\* The last target block passes without the bundle.
DropStale(b) ==
    /\ stale' = stale \ {b}
    /\ UNCHANGED <<mempool, opsSeen, opsIncluded, ingressVars, tickVars, onChain,
                   invalid, expired>>

\* Chain state changes so that a pending op no longer validates (deposit
\* withdrawn, account code or storage changed).
Invalidate(op) ==
    /\ op \notin invalid
    /\ invalid' = invalid \cup {op}
    /\ UNCHANGED <<mempool, opsSeen, opsIncluded, ingressVars, tickVars, stale,
                   onChain, expired>>

\* The op's first-seen time falls more than MaxOpTTL behind.
Expire(op) ==
    /\ op \notin expired
    /\ expired' = expired \cup {op}
    /\ UNCHANGED <<mempool, opsSeen, opsIncluded, ingressVars, tickVars, stale,
                   onChain, invalid>>

\* The process dies and restarts (log.Fatal, a kill, a reboot).  The
\* badger store it reopens (part_004:50) keeps the mempool and the
\* reputation counters; the tick's context and the requests in flight are
\* gone, and SearcherMode runs the loop again.  A bundle the builders hold
\* may still land.
Crash ==
    /\ HostMayCrash
    /\ tick' = "idle"
    /\ batch' = <<>> /\ optsBatch' = <<>> /\ pendingRemoval' = {}
    /\ sent' = {} /\ sentLanded' = FALSE
    /\ stale' = IF tick = "wait" /\ ~sentLanded THEN stale \cup {sent} ELSE stale
    /\ pc' = [c \in Clients |-> "idle"] /\ req' = [c \in Clients |-> NoOp]
    /\ UNCHANGED <<mempool, opsSeen, opsIncluded, requests, onChain, invalid, expired>>

-----------------------------------------------------------------------------
Init ==
    /\ mempool = <<>>
    /\ opsSeen = [e \in Entities |-> 0]
    /\ opsIncluded = [e \in Entities |-> 0]
    /\ pc = [c \in Clients |-> "idle"]
    /\ req = [c \in Clients |-> NoOp]
    /\ requests = 0
    /\ tick = "idle"
    /\ batch = <<>> /\ optsBatch = <<>> /\ pendingRemoval = {}
    /\ sent = {} /\ sentLanded = FALSE
    /\ stale = {} /\ onChain = {} /\ invalid = {} /\ expired = {}

\* The bundler's own progress: every step but an error outcome.
BundlerStep ==
    \/ BuildBatch \/ EstimateRevert \/ EstimateOk \/ EstimateEmpty
    \/ Broadcast \/ WaitIncluded \/ WaitTimeout \/ CountIncluded \/ Clean

Environment ==
    \/ LandSent
    \/ \E b \in stale : LandStale(b) \/ DropStale(b)
    \/ \E op \in InPool : Invalidate(op) \/ Expire(op)

Next ==
    \/ \E c \in Clients : IngressAccept(c) \/ IngressReject(c) \/ IngressAdd(c)
    \/ BundlerStep
    \/ TickError
    \/ Environment
    \/ Crash

\* The loop goroutine keeps running and every RPC eventually answers, though
\* no answer is owed to be a success: weak fairness on the bundler's steps.
Spec == Init /\ [][Next]_vars /\ WF_vars(BundlerStep)

-----------------------------------------------------------------------------
(***************************************************************************)
(* Properties.                                                             *)
(***************************************************************************)

\* How often e fills a role in the ops included on chain.
OnChainCount(e) == MapThenSumSet(LAMBDA op : RoleCount(e, op), onChain)

TypeOK ==
    /\ KeyedStore
    /\ opsSeen \in [Entities -> Nat] /\ opsIncluded \in [Entities -> Nat]
    /\ pc \in [Clients -> {"idle", "add"}]
    /\ req \in [Clients -> Ops \cup {NoOp}]
    /\ \A c \in Clients : pc[c] = "add" <=> req[c] # NoOp
    /\ requests \in 0..MaxRequests
    /\ tick \in TickStates
    /\ batch \in Seq(Ops) /\ optsBatch \in Seq(Ops)
    /\ pendingRemoval \subseteq Ops /\ sent \subseteq Ops /\ sentLanded \in BOOLEAN
    /\ stale \subseteq SUBSET Ops
    /\ onChain \subseteq Ops /\ invalid \subseteq Ops /\ expired \subseteq Ops

\* IncOpsIncluded runs after SendAiOperation returns nil, over ctx.Batch:
\* the reputation store never credits an entity with more inclusions than
\* the chain holds, whatever the estimation loop dropped and whichever
\* bundles timed out.
ReputationNeverOvercounts == \A e \in Entities : opsIncluded[e] <= OnChainCount(e)

\* Every op that reaches the chain went through ingress and was counted by
\* IncOpsSeen for each role it names: the seen counter bounds the chain.
IncludedWereSeen == \A e \in Entities : OnChainCount(e) <= opsSeen[e]

\* CheckStatus (spec 4.3): an op is admitted for a throttled sender only
\* while the sender has fewer than ThrottledEntityMempoolCount pending ops.
ThrottleHonoured ==
    [][\A c \in Clients :
          pc[c] = "idle" /\ pc'[c] = "add" /\ Status(req'[c].sender) = "throttled"
            => Cardinality(GetOpsBySender(req'[c].sender)) < ThrottledEntityMempoolCount
      ]_vars

\* ValidateOpLimit: an unstaked sender never holds more pending ops than
\* SameSenderMempoolCount, nor an unstaked factory or paymaster more than
\* SameUnstakedEntityMempoolCount, however ingress requests interleave.
UnstakedLimitsHeld ==
    \A e \in Entities \ Staked :
        /\ Cardinality(GetOpsBySender(e)) <= SameSenderMempoolCount
        /\ Cardinality(GetOpsByFactory(e)) <= SameUnstakedEntityMempoolCount
        /\ Cardinality(GetOpsByPaymaster(e)) <= SameUnstakedEntityMempoolCount

\* The estimation loop marks for removal only ops that fail: every op a step
\* moves into PendingRemoval fails validation or is past its TTL.
RemovalOnlyOfFailing ==
    [][\A op \in pendingRemoval' \ pendingRemoval : ~Valid(op) \/ op \in expired]_vars

\* The batch handler eventually returns, so the next tick can run.
TickReturns == tick # "idle" ~> tick = "idle"

\* Once the bundler is idle and no sent bundle can still land, the included
\* counters agree with the chain: every bundle that landed was counted.
IncludedMatchesChain ==
    tick = "idle" /\ stale = {} => \A e \in Entities : opsIncluded[e] = OnChainCount(e)

\* An op leaves the mempool only when replaced by a newer op with its key,
\* or when it can no longer be included (spent, failing, expired).
NoLiveOpLost ==
    [][\A op \in InPool \ InPool' :
          \/ Key(op) \in KeysOf(InPool')
          \/ ~Valid(op) \/ op \in expired
      ]_vars

=============================================================================
