----------------------------- MODULE TraceRules -----------------------------
(***************************************************************************)
(* What the validation of one op by simulation works on: the op's shape,   *)
(* the answers of the chain (paymaster code and deposit, the revert of     *)
(* simulateValidation, the debug_traceCall result), and the code's rules   *)
(* for each piece of the trace, stated free of iteration order.            *)
(*                                                                         *)
(* The trace is abstracted to what the rules read: per entity frame an     *)
(* info record (OOG flag, EXTCODE* access to the middleware, banned and    *)
(* unstaked-banned opcodes, CREATE2 count, contracts whose size was read), *)
(* per entity the verdict of storageSlotsValidator.Process (modelled by    *)
(* StorageSlots and StorageCheck), and the call stack as call records.     *)
(***************************************************************************)
EXTENDS Naturals, FiniteSets, Sequences, SequencesExt

CONSTANTS
    Sender, Factory, Paymaster, Zero,  \* the op's addresses; Zero is 0x
    SenderCreator,                     \* the target of the createSender frame
    Contracts,                         \* other contracts the trace may size
    Infos,                             \* per-entity trace infos
    StorageOutcomes,                   \* [ok, ids] answers of Process
    CallKinds,                         \* call frames of the call stack
    PmLens,                            \* lengths of paymasterAndData
    Deposits, MaxPrefund,              \* paymaster deposits, GetMaxPrefund
    MaxCalls,                          \* bound: frames in the call stack
    MaxFaults                          \* bound: abnormal answers per run

Names == {"account", "factory", "paymaster"}

\* tracer.CallFromAiMiddlewareInfo{}: the info of an entity with no frame.
Clean == [oog |-> FALSE, ext |-> FALSE, ops |-> {}, create2 |-> 0, sized |-> {}]

SimOutcomes == {"noRevert", "validationResult", "failedOp", "undecodable"}

VARIABLES
    hasInitCode, pmLen, stakedIn,     \* the op and the stakes of its entities
    pmCode, deposit,                  \* GetCode of the paymaster, its deposit
    sim,                              \* how simulateValidation reverts
    traceOk,                          \* debug_traceCall returns without error
    infoIn,                           \* the info of each entity's frame
    storage,                          \* Process per entity
    calls                             \* newCallStack(res.Calls)

inputs == <<hasInitCode, pmLen, stakedIn, pmCode, deposit, sim, traceOk, infoIn, storage, calls>>

\* op.GetFactory, op.GetPaymaster: the zero address when absent.
FactoryAddr == IF hasInitCode THEN Factory ELSE Zero
PaymasterAddr == IF pmLen >= 20 THEN Paymaster ELSE Zero
EntityAddr == [n \in Names |-> CASE n = "account" -> Sender
                                 [] n = "factory" -> FactoryAddr
                                 [] n = "paymaster" -> PaymasterAddr]

\* The frames simulateValidation produces: createSender through the sender
\* creator when there is initCode, then the account, then the paymaster:
\* res.CallsFromAiMiddleware.
frames ==
    (IF hasInitCode THEN <<[target |-> SenderCreator, sel |-> "createSender", info |-> infoIn.factory]>> ELSE <<>>)
      \o <<[target |-> Sender, sel |-> "validateAiOp", info |-> infoIn.account]>>
      \o (IF pmLen >= 20 THEN <<[target |-> Paymaster, sel |-> "validatePaymasterAiOp", info |-> infoIn.paymaster]>> ELSE <<>>)

\* newKnownEntity: a frame is the account's if its top-level target is the
\* sender, the paymaster's if it is the paymaster, the factory's if it calls
\* createSender; a later frame of an entity replaces an earlier one.
NewKnownEntity(fs) ==
    LET info == FoldLeft(LAMBDA acc, f :
                   CASE f.target = Sender        -> [acc EXCEPT !.account = f.info]
                     [] f.target = PaymasterAddr -> [acc EXCEPT !.paymaster = f.info]
                     [] f.sel = "createSender"   -> [acc EXCEPT !.factory = f.info]
                     [] OTHER                    -> acc,
                   [n \in Names |-> Clean], fs)
    IN [n \in Names |-> [addr |-> EntityAddr[n], info |-> info[n], staked |-> stakedIn[n]]]

\* Spec 4.4: each known entity with the info of its own frame.
Classified == [n \in Names |-> [addr |-> EntityAddr[n], info |-> infoIn[n], staked |-> stakedIn[n]]]

\* ValidatePaymasterAndData: the error it returns, or "none".
PaymasterAndDataError ==
    CASE pmLen = 0              -> "none"
      [] pmLen < 20             -> "pmInvalidLength"
      [] pmCode = "error"       -> "pmGetCode"
      [] pmCode = "empty"       -> "pmNoCode"
      [] deposit < MaxPrefund   -> "pmDeposit"
      [] OTHER                  -> "none"

\* SimulateValidation: a revert carrying ValidationResult is success; a
\* FailedOp is a rejection; anything else is an error.
SimulateError ==
    CASE sim = "validationResult" -> "none"
      [] sim = "noRevert"         -> "simUnexpected"
      [] sim = "failedOp"         -> "simFailedOp"
      [] sim = "undecodable"      -> "simDecode"

\* The per-entity opcode and access rules of the entity loop.
EntityError(e) ==
    CASE e.info.oog                                      -> "oog"
      [] e.info.ext                                      -> "extcode"
      [] "banned" \in e.info.ops                         -> "bannedOpcode"
      [] ~e.staked /\ "unstakedBanned" \in e.info.ops    -> "unstakedOpcode"
      [] OTHER                                           -> "none"

\* The CREATE2 rules: the factory at most once and only with initCode,
\* the account and the paymaster never.
Create2Error(k) ==
    CASE k.factory.info.create2 > 0 /\ (k.factory.info.create2 > 1 \/ ~hasInitCode) -> "factoryCreate2"
      [] k.account.info.create2 > 0   -> "accountCreate2"
      [] k.paymaster.info.create2 > 0 -> "paymasterCreate2"
      [] OTHER                         -> "none"

\* The checks of one frame of the call stack.
CallError(k, c) ==
    IF c.method = "validatePaymasterAiOp"
    THEN CASE ~c.decodes                        -> "unexpectedTrace"
           [] c.ctx /\ ~k.paymaster.staked      -> "unstakedContext"
           [] OTHER                             -> "none"
    ELSE CASE c.to = "middleware" /\ c.method = "balanceOf" -> "balanceOf"
           [] c.to # "middleware" /\ c.value > 0            -> "valueTransfer"
           [] OTHER                                         -> "none"

\* The contracts the trace touched: every entity address, every sized one.
Touched(k) == {k[n].addr : n \in Names} \cup UNION {k[n].info.sized : n \in Names}

AltIdsOf(names) == UNION {storage[n].ids : n \in names}

-----------------------------------------------------------------------------
(***************************************************************************)
(* The inputs of one validation.                                           *)
(***************************************************************************)
OkStorage == [ok |-> TRUE, ids |-> {}]
PlainCall == [method |-> "other", to |-> "other", value |-> 0, decodes |-> TRUE, ctx |-> FALSE]

\* The answers that deviate from a clean, accepted validation.
AnswerFaults ==
    Cardinality({x \in {"code", "deposit", "sim", "trace"} :
                   \/ x = "code" /\ pmCode # "code"
                   \/ x = "deposit" /\ deposit < MaxPrefund
                   \/ x = "sim" /\ sim # "validationResult"
                   \/ x = "trace" /\ ~traceOk})
FrameFaults == Cardinality({j \in DOMAIN frames : frames[j].info # Clean})
StorageFaults == Cardinality({n \in Names : storage[n] # OkStorage})
CallFaults == Cardinality({j \in DOMAIN calls : calls[j] # PlainCall})

\* The inputs are chosen stage by stage, each within the fault bound.
InitInputs ==
    /\ hasInitCode \in BOOLEAN
    /\ pmLen \in PmLens
    \* stakes[addr] != nil && Staked: absent entities have no stake entry
    /\ stakedIn \in {s \in [Names -> BOOLEAN] :
                       (~hasInitCode => ~s.factory) /\ (pmLen < 20 => ~s.paymaster)}
    \* GetCode and the deposit are read only for a paymaster address
    /\ pmCode \in IF pmLen >= 20 THEN {"code", "empty", "error"} ELSE {"code"}
    /\ deposit \in IF pmLen >= 20 THEN Deposits ELSE {MaxPrefund}
    /\ sim \in SimOutcomes
    /\ traceOk \in BOOLEAN
    /\ AnswerFaults <= MaxFaults
    \* an entity without a frame keeps the empty info
    /\ infoIn \in {f \in [Names -> Infos] :
                     (~hasInitCode => f.factory = Clean) /\ (pmLen < 20 => f.paymaster = Clean)}
    /\ AnswerFaults + FrameFaults <= MaxFaults
    /\ storage \in [Names -> StorageOutcomes]
    /\ AnswerFaults + FrameFaults + StorageFaults <= MaxFaults
    /\ calls \in UNION {[1..m -> CallKinds] : m \in 0..MaxCalls}
    /\ AnswerFaults + FrameFaults + StorageFaults + CallFaults <= MaxFaults

=============================================================================
