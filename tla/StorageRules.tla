---------------------------- MODULE StorageRules ----------------------------
(***************************************************************************)
(* What the storage-access check of trace validation works on              *)
(* (src/pkg/aimiddleware/simulation/storageslots.go): the inputs of        *)
(* storageSlotsValidator.Process for one entity, the slots associated with *)
(* each entity (derived from the keccak preimages of the trace), and the   *)
(* code's classification of one access, stated free of iteration order.   *)
(*                                                                         *)
(* Slot values and keccak outputs are small integers; a keccak preimage is *)
(* the pair (padded address prefix, hash of the preimage).                 *)
(***************************************************************************)
EXTENDS Integers, FiniteSets

CONSTANTS
    Sender, Factory, Paymaster,  \* the op's entities (Factory: has initCode)
    AiMiddleware,
    Zero,                        \* common.HexToAddress("0x")
    Others,                      \* contracts that are none of the above
    Slots,                       \* storage slots the trace may touch
    Preimages,                   \* keccak inputs the trace may hold: <<addr, hash>>
    AssociatedSlotOffset,        \* 128 in the code
    AltExceptions,               \* <<entity name, target name, slot>> whitelisted by an alt mempool
    MaxAccesses                  \* bound: storage accesses in one trace

Names == {"account", "factory", "paymaster"}
Modes == {"read", "write"}

\* The inputs of one Process call, fixed while it runs.
VARIABLES entityName, hasInitCode, factoryStaked, entityStaked, keccak, access, codeless

inputs == <<entityName, hasInitCode, factoryStaked, entityStaked, keccak, access, codeless>>

FactoryAddr == IF hasInitCode THEN Factory ELSE Zero

EntityAddr(n) == CASE n = "account" -> Sender
                   [] n = "factory" -> FactoryAddr
                   [] n = "paymaster" -> Paymaster

\* newStorageSlotsByEntity: for every staked-info address but the zero
\* address, the hashes of the preimages that start with that address.
StorageSlotsOf(addr) ==
    IF addr = Zero THEN {} ELSE {k[2] : k \in {k \in keccak : k[1] = addr}}

\* isAssociatedWith: slot lies in [s, s + associatedSlotOffset] for an s
\* of the entity.
IsAssociatedWith(entitySlots, slot) ==
    \E s \in entitySlots : s <= slot /\ slot <= s + AssociatedSlotOffset

\* addr2KnownEntity: factory is tested before account and paymaster.
Addr2KnownEntity(addr) ==
    CASE addr = FactoryAddr -> "factory"
      [] addr = Sender      -> "account"
      [] addr = Paymaster   -> "paymaster"
      [] OTHER              -> addr

\* AltMempools.HasInvalidStorageAccessException: the ids whitelisting the
\* access (one id per matching exception).
AltIds(n, target, slot) == {e \in AltExceptions : e = <<n, target, slot>>}

SenderSlots == StorageSlotsOf(Sender)
EntitySlots == StorageSlotsOf(EntityAddr(entityName))

\* The sender-associated branch requires stake when there is initCode and
\* either the factory is unstaked or the entity is not the account.
SenderSlotNeedsStake ==
    \/ hasInitCode /\ ~factoryStaked
    \/ hasInitCode /\ factoryStaked /\ EntityAddr(entityName) # Sender

Targets == {Sender, Paymaster} \cup Others

\* Every (contract, mode, slot) access of the trace.
Accesses(acc) == {<<c, m, sl>> \in Targets \X Modes \X Slots :
                     sl \in (IF m = "read" THEN acc[c].reads ELSE acc[c].writes)}

\* The traces of at most MaxAccesses storage accesses.
AccessSets == {X \in SUBSET (Targets \X Modes \X Slots) : Cardinality(X) <= MaxAccesses}

\* The validator TraceSimulateValidation builds for one known entity.
InitInputs ==
    /\ entityName \in Names
    /\ hasInitCode \in BOOLEAN
    /\ factoryStaked \in BOOLEAN
    \* without initCode the factory is 0x: no stake entry, no calls traced
    /\ ~hasInitCode => ~factoryStaked /\ entityName # "factory"
    /\ entityStaked \in BOOLEAN
    /\ keccak \in SUBSET Preimages
    /\ \E X \in AccessSets :
          access = [c \in Targets |->
                      [reads  |-> {x[3] : x \in {y \in X : y[1] = c /\ y[2] = "read"}},
                       writes |-> {x[3] : x \in {y \in X : y[1] = c /\ y[2] = "write"}}]]
    /\ codeless \in SUBSET Others

-----------------------------------------------------------------------------
(***************************************************************************)
(* The code's verdict, free of any iteration order.                        *)
(***************************************************************************)
Checked == {x \in Accesses(access) : x[1] \notin {Sender, AiMiddleware}}

\* How the code classifies one access.
Class(x) ==
    LET sl == x[3]
        ids == AltIds(entityName, Addr2KnownEntity(x[1]), sl)
    IN CASE IsAssociatedWith(SenderSlots, sl) ->
                IF SenderSlotNeedsStake THEN "stake" ELSE "free"
         [] (IsAssociatedWith(EntitySlots, sl) \/ x[2] = "read") /\ ids = {} -> "stake"
         [] ids # {} -> "alt"
         [] OTHER -> "forbidden"

CodeAccepts ==
    /\ ~\E ca \in codeless : ca # Sender
    /\ \A x \in Checked : Class(x) = "free" \/ Class(x) = "alt" \/ (Class(x) = "stake" /\ entityStaked)

ExpectedAltIds ==
    UNION {AltIds(entityName, Addr2KnownEntity(x[1]), x[3]) : x \in {y \in Checked : Class(y) = "alt"}}

=============================================================================
