SPECIFICATION Spec
CONSTANTS
  UiConns = {u1}
  CliConns = {c1}
  CliCommands = {"GetProcessList"}
  Buttons = {"SupaaPlus"}
  NoConn = NoConn
  MayCrash = FALSE
PROPERTY CommandsAnswered
