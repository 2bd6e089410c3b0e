---------------------------- MODULE MCBundleGas ----------------------------
(***************************************************************************)
(* Inputs for BundleGas.  Three ops, with and without paymaster and        *)
(* initCode, whose counted gas Mga the limit is set against: MCLimit is    *)
(* the gas of opA and opB together, so a batch can reach it exactly.       *)
(* Basefees from 1 to 24 include those below 8, where EIP-1559's minimum   *)
(* increase of 1 exceeds basefee / 8.                                      *)
(*                                                                         *)
(* For estimation: an op signed with a dummy signature holding zero bytes, *)
(* re-signed with signatures of other byte content, and gas limits whose   *)
(* words hold different numbers of zero bytes, priced by every plug-in     *)
(* with and without a buffer.  opD's fee cap is below its tip plus the     *)
(* head basefee, so the Optimism L2 price is its maxFeePerGas; opB's is    *)
(* the tip plus the basefee.                                               *)
(***************************************************************************)
EXTENDS BundleGas

Addr == Bytes(20, 0)
NoBytes == Bytes(0, 0)

opA == [sender |-> Addr, nonce |-> 0, initCode |-> Bytes(24, 4), callData |-> Bytes(68, 40),
        callGasLimit |-> 35000, verificationGasLimit |-> 150000, preVerificationGas |-> 48000,
        maxFeePerGas |-> 30, maxPriorityFeePerGas |-> 2, paymasterAndData |-> NoBytes,
        signature |-> Bytes(65, 1)]
opB == [opA EXCEPT !.nonce = 1, !.initCode = NoBytes, !.callGasLimit = 60000,
                   !.paymasterAndData = Bytes(20, 0)]
opC == [opA EXCEPT !.nonce = 2, !.initCode = NoBytes, !.callData = Bytes(4, 0),
                   !.callGasLimit = 21000, !.verificationGasLimit = 70000]

opD == [opC EXCEPT !.maxFeePerGas = 2, !.signature = Bytes(65, 30)]

MCGasOps == {opA, opB, opC}
MCLimit == Mga(opA) + Mga(opB)
SmallBaseFees == 1..24

MCEstimateOps == {[opA EXCEPT !.preVerificationGas = 0, !.callGasLimit = 0,
                              !.verificationGasLimit = 0, !.signature = Bytes(65, 30)],
                  opB,
                  opD}
MCGasFills == {0, 65536, 1000000, 16777215}
MCSignatures == {Bytes(65, 0), Bytes(65, 30)}

MCPlugins == {"noop", "arbitrum", "optimism"}

\* An L1 component (Arbitrum) or L1 fee (Optimism) that grows with the op's non-zero bytes.
MCL1(op) == 16 * (op.callData.len + op.paymasterAndData.len - op.paymasterAndData.zeros)

=============================================================================
