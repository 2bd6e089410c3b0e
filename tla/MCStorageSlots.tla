--------------------------- MODULE MCStorageSlots ---------------------------
(***************************************************************************)
(* Model values for StorageSlots.  With AssociatedSlotOffset 1, the        *)
(* preimage hashes 10 and 29 of sender and factory make slot 11            *)
(* sender-associated and slot 30 factory-associated, when the trace holds  *)
(* those preimages; either slot is unassociated for the paymaster.  One    *)
(* alt mempool whitelists the paymaster's access to slot 30 of the         *)
(* unrelated contract o1.                                                  *)
(***************************************************************************)
EXTENDS StorageSlots

CONSTANTS sA, fA, pA, o1

MCOthers == {o1}
MCSlots == {11, 30}
MCPreimages == {<<sA, 10>>, <<fA, 29>>}
MCAltExceptions == {<<"paymaster", o1, 30>>}

=============================================================================
