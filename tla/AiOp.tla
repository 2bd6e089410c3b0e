-------------------------------- MODULE AiOp --------------------------------
(***************************************************************************)
(* The aiOp record as far as the lifecycle pipeline tells ops apart: the   *)
(* mempool key (sender, nonce), a version standing for the fee level of a  *)
(* replacement, the factory and paymaster entities derived from initCode   *)
(* and paymasterAndData, and the gas one op adds to a batch                *)
(* (maxGasAvailable - preVerificationGas + static PVG, the sum that        *)
(* MaintainGasLimit accumulates).  Signatures, calldata and hashing are    *)
(* data the properties never look at.                                      *)
(***************************************************************************)
EXTENDS Naturals, FiniteSets, Sequences

CONSTANTS
    Ops,    \* the aiOps clients may send; each one a record as below
    Zero    \* the zero address: no factory / no paymaster

OpFields == {"sender", "nonce", "ver", "factory", "paymaster", "gas"}

ASSUME \A op \in Ops : DOMAIN op = OpFields /\ op.gas \in Nat \ {0}

\* The mempool key (middleware, sender, nonce); one middleware is modelled.
Key(op) == <<op.sender, op.nonce>>

\* initCode[0:20], or the zero address when there is no initCode.
GetFactory(op) == op.factory

\* paymasterAndData[0:20], or the zero address when there is none.
GetPaymaster(op) == op.paymaster

\* How many of the roles sender, factory, paymaster the address e fills in
\* op: the amount by which the reputation counters of e move for this op.
RoleCount(e, op) ==
    (IF op.sender = e THEN 1 ELSE 0)
  + (IF GetFactory(op) = e /\ e # Zero THEN 1 ELSE 0)
  + (IF GetPaymaster(op) = e /\ e # Zero THEN 1 ELSE 0)

\* A replacement for old is priced at least 110% of it in both fee fields:
\* the versions of one key are ordered by fee level.
OutbidsFees(new, old) == new.ver > old.ver

KeysOf(S) == {Key(op) : op \in S}

=============================================================================
