------------------------------ MODULE Overhead ------------------------------
(***************************************************************************)
(* The preVerificationGas model of src/pkg/gas (overhead.go, pvg.go).      *)
(* The cost of an op depends on the bytes of its packed form, and only on  *)
(* how many of them there are and how many are zero, so a byte string is   *)
(* abstracted to the record [len, zeros].  The packing itself (aiop.Pack,  *)
(* not under src/) follows the layout of spec 4.1: the fields in order,    *)
(* each static field one 32-byte word, each byte field an offset word in   *)
(* the head and a length word plus its data padded to 32 bytes in the tail.*)
(*                                                                         *)
(* The chain-specific plug-ins read an L1 fee over RPC: L1Component and    *)
(* L1Fee are those answers, as operators of the op they are asked about.   *)
(***************************************************************************)
EXTENDS Naturals, Sequences, SequencesExt

CONSTANTS
    L1Component(_),     \* NodeInterface.gasEstimateL1Component for an op
    L1Fee(_),           \* GasPriceOracle.getL1Fee for the handleOps of an op
    HeadBaseFee,        \* the basefee of the head block the Optimism plug-in reads
    EstimateOps,        \* ops as clients send them to eth_estimateAiOperationGas
    GasFills,           \* gas limits a client may fill in afterwards
    Signatures          \* signatures a client may sign with

\* NewDefaultOverhead.  calcPVGFunc names the plug-in: "noop" (the
\* default), "arbitrum" or "optimism".
DefaultOverhead ==
    [intrinsicFixed |-> 21000, perAiOpFixed |-> 22874, perAiOpMultiplier |-> 25,
     zeroByte |-> 4, nonZeroByte |-> 16, minBundleSize |-> 1,
     sanitizedPVG |-> 100000, sanitizedVGL |-> 1000000, sanitizedCGL |-> 1000000,
     calcPVGFunc |-> "noop", pvgBufferFactor |-> 0]

\* The fixed parameters; only the two setters below change an Overhead.
ov == DefaultOverhead

SetCalcPreVerificationGasFunc(o, fn) == [o EXCEPT !.calcPVGFunc = fn]

\* A percentage by which estimates are raised.
SetPreVerificationGasBufferFactor(o, factor) == [o EXCEPT !.pvgBufferFactor = factor]

-----------------------------------------------------------------------------
(***************************************************************************)
(* Byte strings and the packed op.                                         *)
(***************************************************************************)
Bytes(n, z) == [len |-> n, zeros |-> z]

\* The bytes of a big-endian uint256 that are not zero.
RECURSIVE NonZeroBytes(_)
NonZeroBytes(v) ==
    IF v = 0 THEN 0 ELSE (IF v % 256 = 0 THEN 0 ELSE 1) + NonZeroBytes(v \div 256)

Word(v) == Bytes(32, 32 - NonZeroBytes(v))

\* An address left-padded to a word.
AddrWord(a) == Bytes(32, 12 + a.zeros)

Padded(b) == LET n == 32 * ((b.len + 31) \div 32) IN Bytes(n, b.zeros + n - b.len)

Join(s) == FoldLeft(LAMBDA acc, b : Bytes(acc.len + b.len, acc.zeros + b.zeros), Bytes(0, 0), s)

\* The tail of one byte field: its length word and its padded data.
FieldTail(b) == Join(<<Word(b.len), Padded(b)>>)

Pack(op) ==
    LET dyn == <<op.initCode, op.callData, op.paymasterAndData, op.signature>>
        off(j) == 11 * 32 + FoldLeft(LAMBDA acc, b : acc + FieldTail(b).len, 0, SubSeq(dyn, 1, j - 1))
    IN  Join(<<AddrWord(op.sender), Word(op.nonce), Word(off(1)), Word(off(2)),
               Word(op.callGasLimit), Word(op.verificationGasLimit),
               Word(op.preVerificationGas), Word(op.maxFeePerGas),
               Word(op.maxPriorityFeePerGas), Word(off(3)), Word(off(4))>>
             \o [j \in 1..4 |-> FieldTail(dyn[j])])

\* GetMaxGasAvailable (spec 3): verification gas counts three times with a
\* paymaster.
GetMaxGasAvailable(op) ==
    op.callGasLimit + op.preVerificationGas
      + op.verificationGasLimit * (IF op.paymasterAndData.len >= 20 THEN 3 ELSE 1)

-----------------------------------------------------------------------------
(***************************************************************************)
(* overhead.go                                                             *)
(***************************************************************************)
CalcCallDataCost(p) == p.zeros * ov.zeroByte + (p.len - p.zeros) * ov.nonZeroByte

CalcPerAiOpCost(p) == ov.perAiOpMultiplier * ((p.len + 31) \div 32) + ov.perAiOpFixed

\* The sanitizing of the three gas fields, without the signature.
SanitizeGasOnly(op) ==
    [op EXCEPT !.preVerificationGas = ov.sanitizedPVG,
               !.verificationGasLimit = ov.sanitizedVGL,
               !.callGasLimit = ov.sanitizedCGL]

\* The fields whose values vary between estimation and submission are
\* replaced by fixed ones: the gas fields, and the signature by as many
\* 0x01 bytes.
Sanitize(op) ==
    [op EXCEPT !.preVerificationGas = ov.sanitizedPVG,
               !.verificationGasLimit = ov.sanitizedVGL,
               !.callGasLimit = ov.sanitizedCGL,
               !.signature = Bytes(op.signature.len, 0)]

\* intrinsicFixed / minBundleSize + call data + per-op cost, rounded; every
\* term is a whole number, so the float arithmetic is exact.
StaticPVG(op) ==
    LET p == Pack(Sanitize(op)) IN
    ov.intrinsicFixed \div ov.minBundleSize + CalcCallDataCost(p) + CalcPerAiOpCost(p)

\* calcPVGFuncNoop: answers nil, and CalcPreVerificationGas keeps static.
CalcPVGFuncNoop(tmp, static) == static

\* CalcArbitrumPVGWithEthClient: static plus the L1 component the
\* NodeInterface precompile estimates for handleOps of tmp, with
\* paymasterAndData replaced by as many 0x01 bytes.
CalcArbitrumPVG(tmp, static) ==
    static + L1Component([tmp EXCEPT !.paymasterAndData = Bytes(tmp.paymasterAndData.len, 0)])

\* The L2 price: the smaller of maxFeePerGas and maxPriorityFeePerGas plus
\* the head basefee.
L2Price(op) ==
    LET l2priority == op.maxPriorityFeePerGas + HeadBaseFee IN
    IF l2priority < op.maxFeePerGas THEN l2priority ELSE op.maxFeePerGas

\* CalcOptimismPVGWithEthClient: static plus the L1 fee of a handleOps
\* transaction of tmp, divided by the L2 price.
CalcOptimismPVG(tmp, static) == static + L1Fee(tmp) \div L2Price(tmp)

\* The plug-in o.calcPVGFunc names.
CalcPVGFunc(o, tmp, static) ==
    CASE o.calcPVGFunc = "noop"     -> CalcPVGFuncNoop(tmp, static)
      [] o.calcPVGFunc = "arbitrum" -> CalcArbitrumPVG(tmp, static)
      [] o.calcPVGFunc = "optimism" -> CalcOptimismPVG(tmp, static)

\* The plug-in is asked about the sanitized op, never the op as sent.
CalcPreVerificationGas(o, op) == CalcPVGFunc(o, Sanitize(op), StaticPVG(op))

\* utils.AddBuffer (internal/, not under src/): increase by a percentage.
AddBuffer(v, factor) == v + (v * factor) \div 100

CalcPreVerificationGasWithBuffer(o, op) ==
    AddBuffer(CalcPreVerificationGas(o, op), o.pvgBufferFactor)

\* The ingress check of spec 4.4: preVerificationGas covers the computed PVG.
PvgSufficient(o, op) == op.preVerificationGas >= CalcPreVerificationGas(o, op)

=============================================================================
