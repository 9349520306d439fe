SPECIFICATION FairSpec
CONSTANTS
  UiConns = {u1, u2}
  CliConns = {c1}
  CliCommands = {"SupaaPlus", "Shutdown", "nothing"}
  Buttons = {"SupaaPlus"}
  NoConn = NoConn
  MayCrash = TRUE
INVARIANT IInv
PROPERTY Served
PROPERTY Obeyed
PROPERTY UiReturns
PROPERTY Converges
PROPERTY RequestsKept
PROPERTY StaysSettled
