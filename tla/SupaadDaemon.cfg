SPECIFICATION FairSpec
CONSTANTS
  g = g
  b = b
  w = w
  init = init
  Pids = {g, b}
  Systemd = init
  Reapers = {}
  NoPid = NoPid
  Named = {}
  Untouchable = {}
  LaunchIn = {"user"}
  CompositorObeys = TRUE
  MaySignal = TRUE
  MayCrash = TRUE
INVARIANT TypeOK
INVARIANT IInv
INVARIANT CleanFileMeansOff
INVARIANT DiskMirrorsMemory
INVARIANT ModeInForce
PROPERTY FocusSpared
PROPERTY NoNewStranded
PROPERTY NoNewStrandedLock
PROPERTY RecordedAreThawed
PROPERTY SignalStops
PROPERTY HandlersAdvance
PROPERTY HandlersEnd
PROPERTY ImplementsWriteAhead
