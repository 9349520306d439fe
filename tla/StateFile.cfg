SPECIFICATION Spec
CONSTANTS
  MayFail = TRUE
  MayCrash = TRUE
INVARIANT IInv
INVARIANT NeverTorn
INVARIANT ExposedOnlyByFailure
PROPERTY ImplementsRegister
