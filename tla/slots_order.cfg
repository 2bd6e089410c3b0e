\* storageSlotsValidator.Process under every map iteration order.
CONSTANTS
    sA = sA  fA = fA  pA = pA  o1 = o1
    Sender = sA
    Factory = fA
    Paymaster = pA
    AiMiddleware = mw
    Zero = zero
    Others <- MCOthers
    Slots <- MCSlots
    Preimages <- MCPreimages
    AltExceptions <- MCAltExceptions
    AssociatedSlotOffset = 1
    MaxAccesses = 2
SPECIFICATION Spec
CHECK_DEADLOCK FALSE
INVARIANT
    TypeOK
PROPERTY
    ProcessImplementsCheck
