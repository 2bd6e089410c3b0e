----------------------------- MODULE TraceCheck -----------------------------
(***************************************************************************)
(* What validating one op by simulation promises, as one atomic step: for  *)
(* the chain's answers it eventually returns, accepting exactly when the   *)
(* paymaster check, simulateValidation and every rule of the trace pass,   *)
(* and returning on success the contracts the trace touched and the        *)
(* alt-mempool ids the storage checks returned.                            *)
(***************************************************************************)
EXTENDS TraceRules

VARIABLES
    verdict,    \* "none" until validation returns, then "ok" or "rejected"
    touched,    \* TraceOutput.TouchedContracts
    ids         \* TraceOutput.AltMempoolIds

Accepts ==
    /\ PaymasterAndDataError = "none"
    /\ SimulateError = "none"
    /\ traceOk
    /\ \A n \in Names : EntityError(Classified[n]) = "none"
    /\ Create2Error(Classified) = "none"
    /\ \A n \in Names : storage[n].ok
    /\ \A j \in DOMAIN calls : CallError(Classified, calls[j]) = "none"

Init == InitInputs /\ verdict = "none" /\ touched = {} /\ ids = {}

Decide ==
    /\ verdict = "none"
    /\ verdict' = IF Accepts THEN "ok" ELSE "rejected"
    /\ touched' = IF Accepts THEN Touched(Classified) ELSE {}
    /\ ids' = IF Accepts THEN AltIdsOf(Names) ELSE {}
    /\ UNCHANGED inputs

Spec == Init /\ [][Decide]_<<inputs, verdict, touched, ids>> /\ WF_<<inputs, verdict, touched, ids>>(Decide)

=============================================================================
