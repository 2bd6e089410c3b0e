---------------------------- MODULE StorageSlots ----------------------------
(***************************************************************************)
(* storageSlotsValidator.Process for one entity                            *)
(* (src/pkg/aimiddleware/simulation/storageslots.go), step by step.        *)
(* Process walks Go maps (contracts, then access modes, then slots) whose  *)
(* iteration order is random, so each pick is a nondeterministic choice.   *)
(* It is shown to implement StorageCheck, the atomic check it promises.    *)
(***************************************************************************)
EXTENDS StorageRules

None == -1

VARIABLES pc, addrsLeft, cur, modesLeft, mode, slotsLeft, mustStakeSlot, altIds, result

vars == <<inputs, pc, addrsLeft, cur, modesLeft, mode, slotsLeft, mustStakeSlot, altIds, result>>

Init ==
    /\ InitInputs
    /\ pc = "sizes"
    /\ addrsLeft = {} /\ cur = Zero /\ modesLeft = {} /\ mode = "read"
    /\ slotsLeft = {} /\ mustStakeSlot = None /\ altIds = {} /\ result = "none"

\* The EntityContractSizeMap loop: a target without code, other than the
\* sender, is forbidden (the RIP-7212 precompile is not among the targets).
CheckContractSizes ==
    /\ pc = "sizes"
    /\ IF \E ca \in codeless : ca # Sender
       THEN /\ pc' = "done" /\ result' = "no-code"
            /\ UNCHANGED addrsLeft
       ELSE /\ pc' = "addrs" /\ addrsLeft' = Targets
            /\ UNCHANGED result
    /\ UNCHANGED <<inputs, cur, modesLeft, mode, slotsLeft, mustStakeSlot, altIds>>

\* for addr, access := range EntityAccessMap: the sender and the middleware
\* are skipped; an exhausted map ends Process without error.
NextContract ==
    /\ pc = "addrs"
    /\ IF addrsLeft = {}
       THEN /\ pc' = "done" /\ result' = "ok"
            /\ UNCHANGED <<addrsLeft, cur, modesLeft, mustStakeSlot>>
       ELSE \E a \in addrsLeft :
              /\ addrsLeft' = addrsLeft \ {a}
              /\ IF a \in {Sender, AiMiddleware}
                 THEN UNCHANGED <<pc, cur, modesLeft, mustStakeSlot>>
                 ELSE /\ pc' = "modes" /\ cur' = a /\ modesLeft' = Modes
                      /\ mustStakeSlot' = None
              /\ UNCHANGED result
    /\ UNCHANGED <<inputs, mode, slotsLeft, altIds>>

\* for mode, val := range accessTypes.
NextMode ==
    /\ pc = "modes"
    /\ IF modesLeft = {}
       THEN pc' = "stake" /\ UNCHANGED <<modesLeft, mode, slotsLeft>>
       ELSE \E m \in modesLeft :
              /\ modesLeft' = modesLeft \ {m}
              /\ mode' = m
              /\ slotsLeft' = IF m = "read" THEN access[cur].reads ELSE access[cur].writes
              /\ pc' = "slots"
    /\ UNCHANGED <<inputs, addrsLeft, cur, mustStakeSlot, altIds, result>>

SlotsDone ==
    /\ pc = "slots" /\ slotsLeft = {}
    /\ pc' = "modes"
    /\ UNCHANGED <<inputs, addrsLeft, cur, modesLeft, mode, slotsLeft, mustStakeSlot, altIds, result>>

\* The same branch leaving the slot loop (break) where the code skips the slot.
SenderAssociatedBreak(sl) ==
    /\ IsAssociatedWith(SenderSlots, sl)
    /\ IF SenderSlotNeedsStake
       THEN mustStakeSlot' = sl /\ slotsLeft' = slotsLeft \ {sl}
       ELSE slotsLeft' = {} /\ UNCHANGED mustStakeSlot
    /\ UNCHANGED <<pc, altIds, result>>

\* A slot associated with the sender: recorded as needing stake, or skipped.
SenderAssociated(sl) ==
    /\ IsAssociatedWith(SenderSlots, sl)
    /\ IF SenderSlotNeedsStake THEN mustStakeSlot' = sl ELSE UNCHANGED mustStakeSlot
    /\ slotsLeft' = slotsLeft \ {sl}
    /\ UNCHANGED <<pc, altIds, result>>

\* The same branch with the forbidden error recorded but not returned.
OtherSlotNoReturn(sl) ==
    LET ids == AltIds(entityName, Addr2KnownEntity(cur), sl) IN
    /\ ~IsAssociatedWith(SenderSlots, sl)
    /\ slotsLeft' = slotsLeft \ {sl}
    /\ CASE (IsAssociatedWith(EntitySlots, sl) \/ mode = "read") /\ ids = {} ->
              mustStakeSlot' = sl /\ UNCHANGED <<pc, altIds, result>>
         [] ids # {} ->
              altIds' = altIds \cup ids /\ UNCHANGED <<pc, mustStakeSlot, result>>
         [] OTHER ->
              result' = "forbidden" /\ UNCHANGED <<pc, mustStakeSlot, altIds>>

\* Any other slot: an associated slot of the entity, or any read, needs
\* stake unless whitelisted; a whitelisted access adds its alt-mempool ids;
\* anything else is forbidden at once.
OtherSlot(sl) ==
    LET ids == AltIds(entityName, Addr2KnownEntity(cur), sl) IN
    /\ ~IsAssociatedWith(SenderSlots, sl)
    /\ slotsLeft' = slotsLeft \ {sl}
    /\ CASE (IsAssociatedWith(EntitySlots, sl) \/ mode = "read") /\ ids = {} ->
              mustStakeSlot' = sl /\ UNCHANGED <<pc, altIds, result>>
         [] ids # {} ->
              altIds' = altIds \cup ids /\ UNCHANGED <<pc, mustStakeSlot, result>>
         [] OTHER ->
              pc' = "done" /\ result' = "forbidden" /\ UNCHANGED <<mustStakeSlot, altIds>>

NextSlot ==
    /\ pc = "slots"
    /\ \E sl \in slotsLeft : SenderAssociated(sl) \/ OtherSlot(sl)
    /\ UNCHANGED <<inputs, addrsLeft, cur, modesLeft, mode>>

\* After all modes of one contract: an unstaked entity that touched a slot
\* needing stake is rejected.
CheckStake ==
    /\ pc = "stake"
    /\ IF mustStakeSlot # None /\ ~entityStaked
       THEN pc' = "done" /\ result' = "unstaked"
       ELSE pc' = "addrs" /\ UNCHANGED result
    /\ UNCHANGED <<inputs, addrsLeft, cur, modesLeft, mode, slotsLeft, mustStakeSlot, altIds>>

Next == CheckContractSizes \/ NextContract \/ NextMode \/ SlotsDone \/ NextSlot \/ CheckStake
\* Process is a plain function call: once called it keeps running.
Spec == Init /\ [][Next]_vars /\ WF_vars(Next)

-----------------------------------------------------------------------------
\* The refinement mapping: the abstract verdict appears when Process returns.
Abs == INSTANCE StorageCheck WITH
         verdict <- IF pc # "done" THEN "none"
                    ELSE IF result = "ok" THEN "ok" ELSE "rejected",
         ids     <- IF pc = "done" /\ result = "ok" THEN altIds ELSE {}

TypeOK ==
    /\ entityName \in Names /\ keccak \subseteq Preimages
    /\ pc \in {"sizes", "addrs", "modes", "slots", "stake", "done"}
    /\ addrsLeft \subseteq Targets /\ modesLeft \subseteq Modes /\ mode \in Modes
    /\ slotsLeft \subseteq Slots /\ mustStakeSlot \in Slots \cup {None}
    /\ altIds \subseteq AltExceptions
    /\ result \in {"none", "ok", "no-code", "forbidden", "unstaked"}
    /\ (pc = "done") <=> (result # "none")

\* Process walks three Go maps in random order; under every order it
\* returns, and it implements the atomic check StorageCheck: the same
\* verdict, and on success the same alt-mempool ids.
ProcessImplementsCheck == Abs!Spec

=============================================================================
