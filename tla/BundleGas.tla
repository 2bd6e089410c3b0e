----------------------------- MODULE BundleGas -----------------------------
(***************************************************************************)
(* The gas computations of the op path, step by step:                     *)
(*  - MaintainGasLimit (src/pkg/modules/batch/gaslimit.go): walk ctx.Batch *)
(*    adding each op's maxGasAvailable - preVerificationGas + static PVG   *)
(*    (Overhead), keep the ops before the running sum reaches the limit;   *)
(*  - the basefee projection of BuilderClient.SendAiOperation              *)
(*    (src/unnamed/part_000): mbf = mbf * 1125 / 1000 + 1, applied         *)
(*    blocksInTheFuture times to ctx.BaseFee;                              *)
(*  - PVG estimation and submission: a client asks for the PVG of an op    *)
(*    (CalcPreVerificationGasWithBuffer), fills in its gas limits and      *)
(*    signature, and sends it to ingress, which checks the PVG again.      *)
(*    Both use the Overhead the node was wired with: any plug-in and       *)
(*    buffer factor, set once by the two setters of overhead.go.           *)
(* A behaviour is one call of one of them, on inputs chosen in Init from   *)
(* bounded sets; big.Int arithmetic is unbounded, so no width is imposed.  *)
(***************************************************************************)
EXTENDS Overhead

CONSTANTS
    GasOps,             \* the ops a batch may hold
    MaxOps,             \* bound: ops in the batch
    MaxBatchGasLimit,
    BaseFees,           \* the ctx.BaseFee values the projection starts from
    BlocksInTheFuture,
    Plugins,            \* the plug-ins an Overhead may be given
    BufferFactors       \* the buffer factors it may be given

ASSUME BlocksInTheFuture \in Nat

Calls == {"MaintainGasLimit", "project", "estimate"}
NoOp == [none |-> TRUE]   \* no op yet

VARIABLES
    call,                           \* the computation this behaviour runs
    overhead,                       \* the Overhead the node was wired with
    batch, i, sum, bat, gasDone,    \* MaintainGasLimit
    baseFee, k, mbf,                \* the projection
    est, sentOp                     \* the estimated op, the op sent

gasVars == <<batch, i, sum, bat, gasDone>>
feeVars == <<baseFee, k, mbf>>
estVars == <<est, sentOp>>
vars == <<call, overhead, gasVars, feeVars, estVars>>

\* The gas MaintainGasLimit counts for an op: its static PVG, from a
\* default Overhead whatever plug-in ingress uses, in place of the
\* preVerificationGas it declares.
Mga(op) == GetMaxGasAvailable(op) - op.preVerificationGas + StaticPVG(op)

\* Mga of every op a batch may hold, computed once.
MgaOf == [op \in GasOps |-> Mga(op)]

Init ==
    /\ call \in Calls
    /\ overhead \in IF call = "estimate"
                    THEN {SetPreVerificationGasBufferFactor(SetCalcPreVerificationGasFunc(DefaultOverhead, fn), f) :
                            fn \in Plugins, f \in BufferFactors}
                    ELSE {DefaultOverhead}
    /\ batch \in IF call = "MaintainGasLimit" THEN UNION {[1..n -> GasOps] : n \in 0..MaxOps}
                                            ELSE {<<>>}
    /\ i = 1 /\ sum = 0 /\ bat = <<>> /\ gasDone = FALSE
    /\ baseFee \in IF call = "project" THEN BaseFees ELSE {CHOOSE b \in BaseFees : TRUE}
    /\ k = 0 /\ mbf = baseFee
    /\ est = NoOp /\ sentOp = NoOp

\* The loop with the comparison sum > limit.
GasStepGt ==
    /\ call = "MaintainGasLimit" /\ ~gasDone
    /\ IF i > Len(batch)
       THEN gasDone' = TRUE /\ UNCHANGED <<i, sum, bat>>
       ELSE LET s == sum + MgaOf[batch[i]] IN
            /\ sum' = s
            /\ IF s > MaxBatchGasLimit
               THEN gasDone' = TRUE /\ UNCHANGED <<i, bat>>
               ELSE bat' = Append(bat, batch[i]) /\ i' = i + 1 /\ UNCHANGED gasDone
    /\ UNCHANGED <<call, overhead, batch, feeVars, estVars>>

\* One iteration of the range loop: add the op's gas; stop at the first op
\* whose running sum reaches the limit, otherwise keep the op.
GasStep ==
    /\ call = "MaintainGasLimit" /\ ~gasDone
    /\ IF i > Len(batch)
       THEN gasDone' = TRUE /\ UNCHANGED <<i, sum, bat>>
       ELSE LET s == sum + MgaOf[batch[i]] IN
            /\ sum' = s
            /\ IF s >= MaxBatchGasLimit
               THEN gasDone' = TRUE /\ UNCHANGED <<i, bat>>
               ELSE bat' = Append(bat, batch[i]) /\ i' = i + 1 /\ UNCHANGED gasDone
    /\ UNCHANGED <<call, overhead, batch, feeVars, estVars>>

\* The projection step without the + 1.
ProjectNoPlusOne(b) == (b * 1125) \div 1000

\* One projected block: big.Int Mul, Div (floor) and Add.
Project(b) == (b * 1125) \div 1000 + 1

\* The projection loop with i <= blocksInTheFuture.
FeeStepUnbounded ==
    /\ call = "project" /\ k <= BlocksInTheFuture
    /\ mbf' = Project(mbf)
    /\ k' = k + 1
    /\ UNCHANGED <<call, overhead, baseFee, gasVars, estVars>>

\* for i := 0; i < b.blocksInTheFuture; i++ { mbf = mbf*1125/1000 + 1 }
FeeStep ==
    /\ call = "project" /\ k < BlocksInTheFuture
    /\ mbf' = Project(mbf)
    /\ k' = k + 1
    /\ UNCHANGED <<call, overhead, baseFee, gasVars, estVars>>

\* eth_estimateAiOperationGas: the client receives the op's PVG with the
\* buffer and copies it into the op.
Estimate ==
    /\ call = "estimate" /\ est = NoOp
    /\ \E o \in EstimateOps :
          est' = [o EXCEPT !.preVerificationGas = CalcPreVerificationGasWithBuffer(overhead, o)]
    /\ UNCHANGED <<call, overhead, gasVars, feeVars, sentOp>>

\* The client fills in its gas limits, signs with a signature of the length
\* it estimated with, and sends the op to eth_sendAiOperation.
Send ==
    /\ est # NoOp /\ sentOp = NoOp
    /\ \E cgl, vgl \in GasFills, sig \in Signatures :
          /\ sig.len = est.signature.len
          /\ sentOp' = [est EXCEPT !.callGasLimit = cgl, !.verificationGasLimit = vgl,
                                   !.signature = sig]
    /\ UNCHANGED <<call, overhead, gasVars, feeVars, est>>

Next == GasStep \/ FeeStep \/ Estimate \/ Send

Spec == Init /\ [][Next]_vars

-----------------------------------------------------------------------------
GasSum(s) == FoldLeft(LAMBDA acc, op : acc + MgaOf[op], 0, s)

\* The largest basefee EIP-1559 allows j blocks after b: a full parent block
\* raises it by max(b / 8, 1).
RECURSIVE MaxBaseFeeAfter(_, _)
MaxBaseFeeAfter(b, j) ==
    IF j = 0 THEN b
    ELSE LET p == MaxBaseFeeAfter(b, j - 1)
         IN  p + (IF p \div 8 > 1 THEN p \div 8 ELSE 1)

TypeOK ==
    /\ batch \in Seq(GasOps) /\ bat \in Seq(GasOps)
    /\ i \in 1..(Len(batch) + 1) /\ sum \in Nat /\ gasDone \in BOOLEAN
    /\ baseFee \in BaseFees /\ k \in 0..BlocksInTheFuture /\ mbf \in Nat
    /\ call \in Calls
    /\ overhead.calcPVGFunc \in Plugins
    /\ est = NoOp => sentOp = NoOp

\* MaintainGasLimit keeps the longest prefix of the batch whose gas stays
\* below MaxBatchGasLimit: nothing that fits is left out, nothing over it
\* is kept.
KeepsLongestPrefixUnderLimit ==
    gasDone =>
        /\ bat = SubSeq(batch, 1, Len(bat))
        /\ GasSum(bat) < MaxBatchGasLimit
        /\ Len(bat) < Len(batch) => GasSum(SubSeq(batch, 1, Len(bat) + 1)) >= MaxBatchGasLimit

\* The fee cap the bundle carries is at least the basefee any of its target
\* blocks can reach, however full the blocks before it are.
ProjectionCoversTargets ==
    k = BlocksInTheFuture => \A j \in 1..BlocksInTheFuture : MaxBaseFeeAfter(baseFee, j) <= mbf

\* Estimate, then send: an op that carries the PVG estimated for it passes
\* the ingress PVG check however the client then fills in its gas limits
\* and signs it; the sanitizing in CalcPreVerificationGas is what makes
\* the estimate and the check agree.
EstimateThenSendAccepted == sentOp # NoOp => PvgSufficient(overhead, sentOp)

=============================================================================
