SPECIFICATION EscapeFairSpec
CONSTANTS
  Pids = {b}
  Systemd = init
  Reapers = {}
  NoPid = NoPid
  Named = {}
  Untouchable = {}
  LaunchIn = {"user", "session"}
  CompositorObeys = TRUE
  MaySignal = FALSE
  MayCrash = TRUE
INVARIANT EscapeInv
PROPERTY RestoredByHand
PROPERTY ScriptStrandsNothing
PROPERTY ScriptAdvances
PROPERTY HatchOpens
