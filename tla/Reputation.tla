----------------------------- MODULE Reputation -----------------------------
(***************************************************************************)
(* Reputation of entities (src/unnamed/part_002, package entities): per    *)
(* address counters opsSeen and opsIncluded, the status they derive, the   *)
(* two ingress handlers that consult it (CheckStatus, ValidateOpLimit) and *)
(* the two handlers that move it (IncOpsSeen on ingress, IncOpsIncluded    *)
(* after a batch is sent).  Each handler runs in its own store             *)
(* transaction.                                                            *)
(***************************************************************************)
EXTENDS AiOp, SequencesExt

CONSTANTS
    Entities,                       \* every address that may fill a role
    Staked,                         \* the entities whose stake is sufficient
    SameSenderMempoolCount,
    SameUnstakedEntityMempoolCount,
    ThrottledEntityMempoolCount,
    MinInclusionRateDenominator,
    ThrottlingSlack,
    BanSlack

ASSUME
    /\ Staked \subseteq Entities
    /\ Zero \notin Entities
    /\ MinInclusionRateDenominator \in Nat \ {0}
    /\ {SameSenderMempoolCount, SameUnstakedEntityMempoolCount,
        ThrottledEntityMempoolCount, ThrottlingSlack, BanSlack} \subseteq Nat

VARIABLES
    opsSeen,        \* opsSeen[e]: ops naming e that passed ingress
    opsIncluded     \* opsIncluded[e]: ops naming e in batches sent

(***************************************************************************)
(* getStatus: the status derived from the counters (the decay on read is   *)
(* not modelled: no block numbers).                                        *)
(***************************************************************************)
MinExpectedIncluded(e) == opsSeen[e] \div MinInclusionRateDenominator

Status(e) ==
    CASE MinExpectedIncluded(e) > opsIncluded[e] + BanSlack        -> "banned"
      [] MinExpectedIncluded(e) > opsIncluded[e] + ThrottlingSlack -> "throttled"
      [] OTHER                                                     -> "ok"

(***************************************************************************)
(* CheckStatus: sender, then factory and paymaster when present, is        *)
(* rejected when banned, or when throttled and its pending ops number      *)
(* exactly ThrottledEntityMempoolCount.                                    *)
(***************************************************************************)
StatusRejects(e, pending) ==
    \/ Status(e) = "banned"
    \/ Status(e) = "throttled" /\ Cardinality(pending) = ThrottledEntityMempoolCount

CheckStatus(op, pso, pfo, ppo) ==
    /\ ~StatusRejects(op.sender, pso)
    /\ GetFactory(op) # Zero => ~StatusRejects(GetFactory(op), pfo)
    /\ GetPaymaster(op) # Zero => ~StatusRejects(GetPaymaster(op), ppo)

(***************************************************************************)
(* ValidateOpLimit: an unstaked entity is rejected when its pending ops    *)
(* number exactly the limit of its role.                                   *)
(***************************************************************************)
AtLimit(e, pending, limit) == e \notin Staked /\ Cardinality(pending) = limit

ValidateOpLimit(op, pso, pfo, ppo) ==
    /\ ~AtLimit(op.sender, pso, SameSenderMempoolCount)
    /\ GetFactory(op) # Zero =>
          ~AtLimit(GetFactory(op), pfo, SameUnstakedEntityMempoolCount)
    /\ GetPaymaster(op) # Zero =>
          ~AtLimit(GetPaymaster(op), ppo, SameUnstakedEntityMempoolCount)

(***************************************************************************)
(* IncOpsSeen: one increment per role the address fills in the op.         *)
(***************************************************************************)
IncOpsSeenNoPaymaster(op) ==
    opsSeen' = [e \in Entities |->
                  opsSeen[e] + RoleCount(e, op)
                             - (IF GetPaymaster(op) = e THEN 1 ELSE 0)]

IncOpsSeen(op) ==
    opsSeen' = [e \in Entities |-> opsSeen[e] + RoleCount(e, op)]

(***************************************************************************)
(* IncOpsIncluded: an addressCounter built over the batch, then added to   *)
(* the stored counters in one transaction.                                 *)
(***************************************************************************)
BatchRoleCount(e, batch) == FoldLeft(LAMBDA acc, op : acc + RoleCount(e, op), 0, batch)

IncOpsIncluded(batch) ==
    opsIncluded' = [e \in Entities |-> opsIncluded[e] + BatchRoleCount(e, batch)]

=============================================================================
