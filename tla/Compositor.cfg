SPECIFICATION FairSpec
CONSTANT Keys = {k1, k2, k3}
INVARIANT IInv
PROPERTY UnlockUndoesLock
PROPERTY CallsAdvance
PROPERTY CallsEnd
PROPERTY ImplementsLock
