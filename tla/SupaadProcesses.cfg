SPECIFICATION ScanSpec
CONSTANTS
  Pids = {g, b, w}
  Systemd = init
  Reapers = {w}
  NoPid = NoPid
  Named = {}
  Untouchable = {}
  LaunchIn = {"user"}
  CompositorObeys = TRUE
  MaySignal = FALSE
  MayCrash = FALSE
INVARIANT CoreInv
INVARIANT ReadInv
PROPERTY KinSpared
SYMMETRY Symmetry
