------------------------- MODULE MCTraceValidation -------------------------
(***************************************************************************)
(* TraceValidation for TLC.  The infos give each trace rule one entity     *)
(* info that breaks it, plus a factory CREATE2 used once (allowed) and a   *)
(* contract sized by an entity; the calls give every branch of the         *)
(* call-stack loop, including a validatePaymasterAiOp frame that carries   *)
(* value.  At most MaxFaults answers deviate from a clean validation, so   *)
(* two failures meet in either order of the map loops.                     *)
(***************************************************************************)
EXTENDS TraceValidation

CONSTANTS c1

MCInfos ==
    {Clean, [Clean EXCEPT !.oog = TRUE], [Clean EXCEPT !.ext = TRUE],
     [Clean EXCEPT !.ops = {"banned"}], [Clean EXCEPT !.ops = {"unstakedBanned"}],
     [Clean EXCEPT !.create2 = 1], [Clean EXCEPT !.create2 = 2], [Clean EXCEPT !.sized = {c1}]}

MCStorageOutcomes == {OkStorage, [ok |-> TRUE, ids |-> {"alt1"}], [ok |-> FALSE, ids |-> {}]}

Vpm == [PlainCall EXCEPT !.method = "validatePaymasterAiOp", !.to = "paymaster"]

MCCallKinds ==
    {PlainCall, Vpm, [Vpm EXCEPT !.ctx = TRUE], [Vpm EXCEPT !.decodes = FALSE],
     [Vpm EXCEPT !.to = "other", !.value = 1],
     [PlainCall EXCEPT !.method = "balanceOf", !.to = "middleware"],
     [PlainCall EXCEPT !.method = "balanceOf"],
     [PlainCall EXCEPT !.value = 1],
     [PlainCall EXCEPT !.to = "middleware", !.value = 1]}

=============================================================================
