--------------------------- MODULE TraceValidation ---------------------------
(***************************************************************************)
(* The validation of one op by simulation, step by step:                   *)
(*  - ValidatePaymasterAndData (src/pkg/modules/checks/paymaster.go);      *)
(*  - SimulateValidation (simulation/simulatevalidation.go);               *)
(*  - TraceSimulateValidation (simulation/tracevalidation.go): the         *)
(*    debug_traceCall, newKnownEntity, the loop over the known entities,   *)
(*    the CREATE2 checks, the loop running storageSlotsValidator.Process   *)
(*    per entity, and the loop over the call stack.                        *)
(* The two loops over knownEntity follow Go's map order, which is random:  *)
(* each step takes any entity not yet visited.  The order of the three     *)
(* stages is the ingress order of spec 4.4 (its caller is not under src/). *)
(***************************************************************************)
EXTENDS TraceRules

Errors == {"pmInvalidLength", "pmGetCode", "pmNoCode", "pmDeposit",
           "simUnexpected", "simFailedOp", "simDecode", "traceCall",
           "oog", "extcode", "bannedOpcode", "unstakedOpcode",
           "factoryCreate2", "accountCreate2", "paymasterCreate2",
           "storage", "unexpectedTrace", "unstakedContext", "balanceOf", "valueTransfer"}

VARIABLES
    pc,         \* the stage of validation
    left,       \* the entities the current map loop has not visited
    ic,         \* the touched-contracts set
    altIds,     \* the alt-mempool ids collected from Process
    known,      \* knownEntity, built by newKnownEntity from the trace
    ci,         \* the index of the call-stack loop
    result      \* "none", "ok" or the error returned

vars == <<inputs, pc, known, left, ic, altIds, ci, result>>

Init ==
    /\ InitInputs
    /\ pc = "paymaster" /\ known = [n \in Names |-> [addr |-> Zero, info |-> Clean, staked |-> FALSE]]
    /\ left = {} /\ ic = {} /\ altIds = {} /\ ci = 1 /\ result = "none"

Fail(err) == pc' = "done" /\ result' = err

ValidatePaymasterAndData ==
    /\ pc = "paymaster"
    /\ IF PaymasterAndDataError = "none" THEN pc' = "simulate" /\ UNCHANGED result
                                         ELSE Fail(PaymasterAndDataError)
    /\ UNCHANGED <<inputs, known, left, ic, altIds, ci>>

SimulateValidation ==
    /\ pc = "simulate"
    /\ IF SimulateError = "none" THEN pc' = "trace" /\ UNCHANGED result
                                 ELSE Fail(SimulateError)
    /\ UNCHANGED <<inputs, known, left, ic, altIds, ci>>

\* debug_traceCall, then newKnownEntity; the entity loop starts.
TraceCall ==
    /\ pc = "trace"
    /\ IF traceOk THEN pc' = "entities" /\ known' = NewKnownEntity(frames) /\ left' = Names
                       /\ UNCHANGED result
                  ELSE Fail("traceCall") /\ UNCHANGED <<known, left>>
    /\ UNCHANGED <<inputs, ic, altIds, ci>>

\* The entity loop without the stake condition on the unstaked opcodes.
EntityStepStakeIgnored ==
    /\ pc = "entities"
    /\ \E n \in left :
          LET e == known[n]
              err == IF "unstakedBanned" \in e.info.ops THEN "unstakedOpcode" ELSE EntityError(e)
          IN IF err # "none" THEN Fail(err) /\ UNCHANGED <<left, ic>>
             ELSE /\ ic' = ic \cup {e.addr} \cup e.info.sized
                  /\ left' = left \ {n}
                  /\ UNCHANGED <<pc, result>>
    /\ UNCHANGED <<inputs, known, altIds, ci>>

\* One entity of the first loop: its opcode and access rules, then the
\* entity and the contracts it sized are added to the touched set.
EntityStep ==
    /\ pc = "entities"
    /\ \E n \in left :
          LET e == known[n] IN
          IF EntityError(e) # "none" THEN Fail(EntityError(e)) /\ UNCHANGED <<left, ic>>
          ELSE /\ ic' = ic \cup {e.addr} \cup e.info.sized
               /\ left' = left \ {n}
               /\ UNCHANGED <<pc, result>>
    /\ UNCHANGED <<inputs, known, altIds, ci>>

\* After the loop, the CREATE2 checks; the storage loop starts.
CheckCreate2 ==
    /\ pc = "entities" /\ left = {}
    /\ IF Create2Error(known) # "none" THEN Fail(Create2Error(known)) /\ UNCHANGED left
       ELSE pc' = "storage" /\ left' = Names /\ UNCHANGED result
    /\ UNCHANGED <<inputs, known, ic, altIds, ci>>

\* One entity of the storage loop: Process, and its ids appended.
StorageStep ==
    /\ pc = "storage"
    /\ \E n \in left :
          IF ~storage[n].ok THEN Fail("storage") /\ UNCHANGED <<left, altIds>>
          ELSE /\ altIds' = altIds \cup storage[n].ids
               /\ left' = left \ {n}
               /\ UNCHANGED <<pc, result>>
    /\ UNCHANGED <<inputs, known, ic, ci>>

StorageDone ==
    /\ pc = "storage" /\ left = {}
    /\ pc' = "calls" /\ ci' = 1
    /\ UNCHANGED <<inputs, known, left, ic, altIds, result>>

\* The call-stack loop stepping over two frames at a time.
CallStepSkip ==
    /\ pc = "calls" /\ ci <= Len(calls)
    /\ IF CallError(known, calls[ci]) # "none" THEN Fail(CallError(known, calls[ci])) /\ UNCHANGED ci
       ELSE ci' = ci + 2 /\ UNCHANGED <<pc, result>>
    /\ UNCHANGED <<inputs, known, left, ic, altIds>>

\* One frame of the call stack.
CallStep ==
    /\ pc = "calls" /\ ci <= Len(calls)
    /\ IF CallError(known, calls[ci]) # "none" THEN Fail(CallError(known, calls[ci])) /\ UNCHANGED ci
       ELSE ci' = ci + 1 /\ UNCHANGED <<pc, result>>
    /\ UNCHANGED <<inputs, known, left, ic, altIds>>

\* The TraceOutput is returned.
CallsDone ==
    /\ pc = "calls" /\ ci > Len(calls)
    /\ pc' = "done" /\ result' = "ok"
    /\ UNCHANGED <<inputs, known, left, ic, altIds, ci>>

Next ==
    \/ ValidatePaymasterAndData \/ SimulateValidation \/ TraceCall
    \/ EntityStep \/ CheckCreate2 \/ StorageStep \/ StorageDone
    \/ CallStep \/ CallsDone

\* Validation is a plain call on the ingress path: once called it runs on.
Spec == Init /\ [][Next]_vars /\ WF_vars(Next)

-----------------------------------------------------------------------------
TypeOK ==
    /\ pc \in {"paymaster", "simulate", "trace", "entities", "storage", "calls", "done"}
    /\ left \subseteq Names
    /\ ci \in 1..(Len(calls) + 1)
    /\ result \in {"none", "ok"} \cup Errors
    /\ (result = "none") <=> (pc # "done")

Abs == INSTANCE TraceCheck
         WITH verdict <- IF pc # "done" THEN "none" ELSE IF result = "ok" THEN "ok" ELSE "rejected",
              touched <- IF pc = "done" /\ result = "ok" THEN ic ELSE {},
              ids <- IF pc = "done" /\ result = "ok" THEN altIds ELSE {}

\* Whatever order the two map loops visit the entities in, validation
\* returns, and returns the same verdict, touched contracts and alt-mempool
\* ids as the order-free rules of TraceCheck: no early return is missed,
\* no entity is skipped or checked twice, and no call frame is left out.
ValidationImplementsCheck == Abs!Spec

\* Spec 4.4, trace-based simulation: no value transfer between internal
\* calls except calls targeting the middleware itself.  The call-stack loop
\* of TraceSimulateValidation is about it.
NoValueTransferAccepted ==
    result = "ok" => \A j \in DOMAIN calls : calls[j].to = "middleware" \/ calls[j].value = 0

=============================================================================
