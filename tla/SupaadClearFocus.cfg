SPECIFICATION Spec
CONSTANTS
  g = g
  b = b
  w = w
  init = init
  Pids = {g, b}
  Systemd = init
  Reapers = {}
  NoPid = NoPid
  Named = {}
  Untouchable = {}
  LaunchIn = {"user"}
  CompositorObeys = TRUE
  MaySignal = TRUE
  MayCrash = FALSE
PROPERTY NoStaleFocus
