---------------------------- MODULE StorageCheck ----------------------------
(***************************************************************************)
(* What storageSlotsValidator.Process promises, as one atomic step: for    *)
(* the given trace it eventually returns, accepting exactly when every     *)
(* access the code's rules classify is free, whitelisted, or needs a stake *)
(* the entity has, and returning on success the ids of every alt mempool   *)
(* that whitelisted an access.                                             *)
(***************************************************************************)
EXTENDS StorageRules

VARIABLES
    verdict,    \* "none" until Process returns, then "ok" or "rejected"
    ids         \* the alt-mempool ids returned with "ok"

Init == InitInputs /\ verdict = "none" /\ ids = {}

Decide ==
    /\ verdict = "none"
    /\ verdict' = IF CodeAccepts THEN "ok" ELSE "rejected"
    /\ ids' = IF CodeAccepts THEN ExpectedAltIds ELSE {}
    /\ UNCHANGED inputs

Spec == Init /\ [][Decide]_<<inputs, verdict, ids>> /\ WF_<<inputs, verdict, ids>>(Decide)

=============================================================================
